----------------------------- MODULE MCExecutor -----------------------------
EXTENDS Query

\* Two functions p (a second symbol of that name, say in another package), a
\* function b with a second definition nested in the first p, a function c,
\* and the file f around all of them.
Sym(name, type) == [name |-> name, type |-> type, layer |-> 1]
Inst(sym, lo, hi) == [sym |-> sym, obj |-> 1, lo |-> lo, hi |-> hi, layer |-> 1]
Ref(to, at) == [to |-> to, obj |-> 1, lo |-> at, hi |-> at + 1, layer |-> 1]

SymbolRows == <<Sym("p", "func"), Sym("p", "func"), Sym("b", "func"), Sym("c", "func"), Sym("f", "file")>>
Instances == <<Inst(1, 0, 10), Inst(2, 10, 20), Inst(3, 20, 30), Inst(4, 30, 40),
               Inst(5, 0, 50), Inst(3, 4, 8)>>
PossibleRefs == <<Ref(3, 2), Ref(4, 5), Ref(3, 12), Ref(4, 22), Ref(3, 32)>>

Database(refs) == [sym |-> SymbolRows, inst |-> Instances, ref |-> Restrict(PossibleRefs, refs)]

MCRoots == {1}
MCLimits == {0, 2}
MCLevel == [func |-> 2, mod |-> 3, file |-> 4]
MCNames == {"p", "b", "c", "f"}
MCTypes == {"func", "mod", "file"}

S(parent, verbs) == [parent |-> parent, verbs |-> verbs]
N(name) == NameSelector({name})
Func == TypeSelector("func", {}, "", "")
File(name) == TypeSelector("file", {name}, "", "")

\* A layer that calls c from p, one that defines a c around its calls, one
\* that defines a b inside that, and one that makes b call what a label
\* selects.
EphRef(to, at, layer) == [to |-> to, obj |-> 1, lo |-> at, hi |-> at + 1, layer |-> layer]
CallLayer(s) == [NoEphRows EXCEPT !.ref = (-10) :> EphRef(4, 3, -s)]
WrapLayer(s) == [NoEphRows EXCEPT
  !.inst = (-20) :> [sym |-> 4, obj |-> 1, lo |-> 1, hi |-> 9, layer |-> -s]]
InnerLayer(s) == [NoEphRows EXCEPT
  !.inst = (-21) :> [sym |-> 3, obj |-> 1, lo |-> 2, hi |-> 8, layer |-> -s]]
LabelLayer(s) == [NoEphRows EXCEPT
  !.inst = (-30) :> [sym |-> 3, obj |-> 1, lo |-> 42, hi |-> 44, layer |-> -s],
  !.ref = (-31) :> EphRef(3, 25, -s) @@ (-32) :> EphRef(4, 14, -s)]

Label(name) == LabelVerb(name, FALSE)
Use(name) == UserVerb(name, FALSE)

\* Names and scopes.
Trees == {
  <<S(0, <<N("p")>>), S(1, <<N("b")>>), S(2, <<N("c")>>)>>,
  <<S(0, <<N("p")>>), S(1, <<N("b")>>), S(1, <<N("c")>>)>>,
  <<S(0, <<N("b")>>), S(1, <<N("c")>>), S(2, <<N("b")>>)>>,
  <<S(0, <<N("f")>>), S(1, <<N("p")>>), S(2, <<N("b")>>), S(2, <<N("c")>>)>>,
  <<S(0, <<N("p")>>), S(1, <<>>)>>,
  <<S(0, <<>>), S(1, <<N("b")>>)>>,
  <<S(0, <<N("p")>>), S(1, <<>>), S(2, <<N("c")>>)>>,
  <<S(0, <<N("p")>>), S(1, <<N("c")>>), S(1, <<>>)>>,
  <<S(0, <<N("p"), N("b")>>), S(1, <<N("c")>>)>>,
  <<S(0, <<N("p")>>), S(1, <<IsolatedScope>>), S(1, <<N("b")>>)>>,
  <<S(0, <<N("p")>>), S(1, <<ForcedVerb({"c"})>>), S(1, <<N("b")>>)>>}

\* Relationships, types and filters.
Modified == {
  <<S(0, <<File("f"), HasModifier>>), S(1, <<Func>>)>>,
  <<S(0, <<N("f")>>), S(1, <<UnnestModifier>>)>>,
  <<S(0, <<N("f"), HasModifier>>), S(1, <<Func>>), S(2, <<AnyModifier>>)>>,
  <<S(0, <<N("f"), HasModifier>>), S(1, <<N("p"), RefsModifier>>), S(2, <<>>), S(3, <<>>)>>,
  <<S(0, <<N("f"), DeriveModifier({"has"}, FALSE)>>), S(1, <<N("p")>>), S(2, <<>>)>>,
  <<S(0, <<PreambleVerb, IgnoreVerb({"b"})>>), S(0, <<N("p")>>), S(2, <<>>)>>,
  <<S(0, <<PreambleVerb, Func, HasModifier>>), S(0, <<>>), S(2, <<N("b")>>)>>,
  <<S(0, <<PreambleVerb, TypeFilter({"file"}, TRUE)>>), S(0, <<N("f")>>), S(2, <<AnyModifier>>)>>,
  <<S(0, <<PreambleVerb, TypeSelector("mod", {"f"}, "", "")>>), S(0, <<N("f")>>), S(0, <<N("p")>>)>>,
  <<S(0, <<TypeSelector("func", {"p"}, "true", ""), N("p")>>), S(1, <<TypeSelector("func", {"b"}, "true", "false")>>)>>,
  <<S(0, <<N("p")>>), S(1, <<TypeSelector("func", {}, "true", "false")>>)>>,
  <<S(0, <<TypeSelector("mod", {"f"}, "true", "false")>>), S(1, <<N("p")>>), S(1, <<>>)>>,
  <<S(0, <<GenericSelector, CompoundNameFilter({"p", "f"}, FALSE), TypeFilter({"func"}, FALSE)>>), S(1, <<>>)>>,
  <<S(0, <<GenericSelector, ExactNameFilter({"b"}, TRUE)>>), S(1, <<>>)>>}

\* Labels.
Labelled == {
  <<S(0, <<Label("x"), N("b")>>), S(0, <<N("p")>>), S(2, <<Use("x")>>)>>,
  <<S(0, <<N("p")>>), S(1, <<Use("x")>>), S(0, <<Label("x"), N("b")>>)>>,
  <<S(0, <<N("p")>>), S(1, <<UserVerb("x", TRUE)>>), S(0, <<N("c")>>), S(3, <<Label("x"), N("b")>>)>>,
  <<S(0, <<LabelVerb("x", TRUE), N("p")>>), S(1, <<N("b")>>), S(0, <<Use("x")>>), S(3, <<N("c")>>)>>,
  <<S(0, <<LabelVerb("x", TRUE), N("p")>>), S(1, <<Use("x")>>)>>,
  <<S(0, <<Label("x")>>), S(0, <<Use("x")>>), S(2, <<N("c")>>)>>,
  <<S(0, <<Label("x"), N("b")>>), S(1, <<N("c")>>), S(0, <<Label("y"), Use("x")>>), S(0, <<N("p")>>), S(4, <<Use("y")>>)>>}

\* Layers: alone, in a row, in a scope, with a label before and after.
Layered == {
  <<S(0, <<LayerVerb("", CallLayer(1))>>), S(0, <<N("p")>>), S(2, <<>>)>>,
  <<S(0, <<LayerVerb("", WrapLayer(1))>>), S(0, <<N("p")>>), S(2, <<>>)>>,
  <<S(0, <<N("c")>>), S(0, <<LayerVerb("", CallLayer(2))>>), S(0, <<LayerVerb("", WrapLayer(3))>>),
    S(0, <<N("p")>>), S(4, <<N("c")>>)>>,
  <<S(0, <<Label("x"), N("b")>>), S(0, <<LayerVerb("x", LabelLayer(2))>>), S(0, <<N("b")>>), S(3, <<>>)>>,
  <<S(0, <<LayerVerb("x", LabelLayer(1))>>), S(0, <<Label("x"), N("b")>>)>>,
  <<S(0, <<N("f")>>), S(1, <<LayerVerb("", WrapLayer(2))>>), S(0, <<N("c")>>)>>,
  <<S(0, <<N("f")>>), S(1, <<LayerVerb("", WrapLayer(2))>>), S(1, <<LayerVerb("", InnerLayer(3))>>)>>,
  <<S(0, <<LayerVerb("", WrapLayer(1))>>), S(0, <<N("f")>>), S(2, <<LayerVerb("", InnerLayer(3))>>)>>}

Corpus == Trees \cup Modified \cup Labelled \cup Layered

MCCases == {[q |-> BuildQuery(ast), db |-> Database(refs)] :
              ast \in Corpus, refs \in SUBSET DOMAIN PossibleRefs}

\* `func("p") func("b")`.
TwoTyped == <<S(0, <<TypeSelector("func", {"p"}, "", ""), TypeSelector("func", {"b"}, "", "")>>)>>
MCUnionCases == {[q |-> BuildQuery(ast), db |-> Database({1})] :
                   ast \in {<<S(0, <<N("p"), N("b")>>)>>, TwoTyped}}
=============================================================================
