-------------------------------- MODULE Query --------------------------------
(***************************************************************************)
(* A query from its verbs to its answer: QueryParser builds what Executor  *)
(* runs.  The properties here compare the answer with the source.          *)
(***************************************************************************)
EXTENDS Executor, QueryParser

CONSTANTS Limits        \* the symbol caps of requests; 0 is unlimited
ASSUME LimitsAssumption == Limits \subseteq Nat

\* What the grammar lets through: statements and verbs in sequence, and `any`
\* without arguments.  The preambles are those that the model has: the first
\* verb of the first statement, without a scope.
IsForest(ast) ==
  /\ ast \in Seq(ToSet(ast))
  /\ \A s \in DOMAIN ast :
       /\ ast[s].parent \in 0 .. s - 1
       /\ ast[s].verbs \in Seq(ToSet(ast[s].verbs))
       /\ \A w \in ToSet(ast[s].verbs) : w.v = "any" => w = AnyModifier
       /\ IsPreamble(ast[s]) => s = 1
       /\ \A i \in DOMAIN ast[s].verbs : ast[s].verbs[i].v = "preamble" => i = 1
       /\ ast[s].parent = 1 => ~IsPreamble(ast[1])

\* The queries are those of the parser.
ASSUME ParsedAssumption ==
  \A case \in Cases : IsForest(case.q.source) /\ case.q = BuildQuery(case.q.source)

VARIABLE response       \* what build_result_graph returns

-----------------------------------------------------------------------------
(* build_result_graph: the answer of the executor, cut to a number of      *)
(* symbols.                                                                *)

NoResponse == [status |-> "none", total |-> 0, truncated |-> FALSE,
               nodes |-> {}, refs |-> {}, has |-> {}]

Symbols(ids) == {SymOf(i) : i \in ids}

\* Symbols are ranked by the place of their first instance, then by id.
NoLater(i, j) ==
  \/ db.inst[i].obj < db.inst[j].obj
  \/ db.inst[i].obj = db.inst[j].obj /\ db.inst[i].lo <= db.inst[j].lo
FirstOf(sym) ==
  CHOOSE i \in {j \in result.nodes : SymOf(j) = sym} :
    \A j \in result.nodes : SymOf(j) = sym => NoLater(i, j)
Before(a, b) ==
  LET x == db.inst[FirstOf(a)]
      y == db.inst[FirstOf(b)]
  IN \/ x.obj < y.obj
     \/ x.obj = y.obj /\ x.lo < y.lo
     \/ x.obj = y.obj /\ x.lo = y.lo /\ a < b

\* select_kept.
Kept(cap) ==
  LET all == Symbols(result.nodes)
  IN IF cap = 0 \/ Cardinality(all) <= cap THEN all
     ELSE {a \in all : Cardinality({b \in all : Before(b, a)}) < cap}

\* Mutant of KeptRefs: an edge stays when the symbol it leaves is kept.
KeptRefsFrom(kept) == {e \in result.refs : SymOf(e.key.from) \in kept}

KeptRefs(kept) ==
  {e \in result.refs : SymOf(e.key.from) \in kept /\ e.key.sym \in kept}
KeptHas(kept) ==
  {h \in result.has : {SymOf(h.child)} \cup Symbols(h.parents) \subseteq kept}

Graph(cap) ==
  LET kept == Kept(cap)
  IN [status |-> "ok",
      total |-> Cardinality(Symbols(result.nodes)),
      truncated |-> cap # 0 /\ Cardinality(Symbols(result.nodes)) > cap,
      nodes |-> {i \in result.nodes : SymOf(i) \in kept},
      refs |-> KeptRefs(kept),
      has |-> KeptHas(kept)]

\* A query error is reported as such, a deadline as a timeout; a panic is
\* answered by nobody.
Respond ==
  /\ response = NoResponse
  /\ \/ pc = "done" /\ \E cap \in Limits : response' = Graph(cap)
     \/ /\ pc = "failed"
        /\ \E status \in IF err = "circular" THEN {"exec"} ELSE {"exec", "timeout"} :
             response' = [NoResponse EXCEPT !.status = status]
  /\ UNCHANGED vars

QueryInit == Init /\ response = NoResponse
QueryNext == (Next /\ UNCHANGED response) \/ Respond
\* The executor is one future that the runtime polls until it is ready; the
\* steps up to the empty worklist are all it needs fairness for.
QuerySpec == QueryInit /\ [][QueryNext]_<<vars, response>> /\ WF_vars(Step)

Source == q.source
Verbs(s) == IF IsPreamble(Source[s]) THEN <<>> ELSE Source[s].verbs

\* Statement 0 stands for the preamble.
VerbsAt(s) == IF s > 0 THEN Verbs(s)
              ELSE IF IsPreamble(Source[1]) THEN Tail(Source[1].verbs) ELSE <<>>
Enclosing(s) == LET up[v \in 0 .. q.n] == IF v = 0 THEN {} ELSE {q.parent[v]} \cup up[q.parent[v]]
                IN IF s = 1 /\ IsPreamble(Source[1]) THEN {} ELSE up[s]
Nearest(S) == CHOOSE s \in S : \A t \in S : t <= s
Places(verbs, kinds) == {i \in DOMAIN verbs : verbs[i].v \in kinds}
LastOf(s, kinds) == VerbsAt(s)[Nearest(Places(VerbsAt(s), kinds))]
With(S, kinds) == {s \in S : Places(VerbsAt(s), kinds) # {}}

\* A scope relates its statements to the enclosing one the way the nearest
\* has, refs or derive around it says, if that one is next to it or is
\* handed down.  Where none speaks, references count: no modifier of another
\* scope leaks in and takes them away.  Whether containment counts there too
\* is left open: build_statement adds it, the language reference does not.
RelationshipScope ==
  \A s \in Statements :
    LET around == With(Enclosing(s), {"derive"})
        verb == LastOf(Nearest(around), {"derive"})
    IN IF around # {} /\ (verb.inherit \/ Nearest(around) = q.parent[s])
       THEN q.rel[s] = verb.rel
       ELSE "refs" \in q.rel[s]

\* The filters of a statement and those handed down to it hold for the nodes
\* it answers with: nothing ignored here or further out, and no type but the
\* one asked for last, by itself or by the nearest scope that declared one.
FiltersHold ==
  pc = "done" /\ OneSelector({"name", "unit", "bare", "namespace"}) =>
    \A s \in Statements : \A i \in Nodes(s) :
      LET kinds == {"type", "type filter", "any"}
          own == With({s}, kinds)
          out == With(Enclosing(s), kinds)
          verb == LastOf(IF own # {} THEN s ELSE Nearest(out), kinds)
      IN /\ \A t \in Enclosing(s) \cup {s} : \A k \in DOMAIN VerbsAt(t) :
              VerbsAt(t)[k].v = "ignore" => db.sym[SymOf(i)].name \in VerbsAt(t)[k].names
         /\ own # {} \/ (out # {} /\ verb.inherit) =>
              db.sym[SymOf(i)].type \in CompositeFilter(verb).types

\* The graph a client gets holds together however it was cut: no edge leads
\* to a node that is not in it, every reference of the index between two of
\* its nodes is in it, and it says that it was truncated exactly when nodes
\* of the answer are missing, all of which come later in the source.
IsClosed(graph) ==
  LET shown == graph.nodes
      missing == AllNodes \ shown
  IN /\ \A e \in graph.refs : e.key.from \in shown /\ e.to \subseteq shown
     /\ \A h \in graph.has : h.child \in shown /\ h.parents \subseteq shown
     /\ ~result.lost =>
          \A e \in EdgeRows(shown, Visible(eph)) : \E d \in graph.refs : d.key = EdgeKey(e)
     /\ graph.truncated <=> missing # {}
     /\ \A a \in Symbols(shown), b \in Symbols(missing) :
          \E i \in shown : SymOf(i) = a /\ \A j \in missing : SymOf(j) = b => NoLater(i, j)
GraphIsClosed == response.status = "ok" => IsClosed(response)

\* "Several selectors in one statement are ORed (union): `"a" "b"` (or
\* `func("a") func("b")`) selects symbols matching either" (syntax.md).
SelectorsUnite ==
  pc \in {"work", "done"} =>
    \A s \in Statements :
      /\ q.n = 1
      /\ \A k \in DOMAIN Verbs(s) : Verbs(s)[k].v \in {"name", "type"} /\ Verbs(s)[k].named /\ ~Verbs(s)[k].only
      => Nodes(s) = {i \in CurrentRows(Roots) :
                       \E k \in DOMAIN Verbs(s) : Accepts(CompositeFilter(Verbs(s)[k]), i)}
=============================================================================
