---------------------------- MODULE QueryParser -----------------------------
(***************************************************************************)
(* From verbs to statements (askld/src/parser_context.rs, statement/       *)
(* parse.rs, the update_context, derive_method and add_verb of the verbs). *)
(* A query is a forest of statements in source order; a statement is a     *)
(* sequence of verbs and possibly a scope.  Parsing threads a context      *)
(* through the forest: it carries the verbs that a statement hands down to *)
(* its scope, the relationship of a statement to its parent and the types  *)
(* a statement is filtered by when it names none.                          *)
(*                                                                         *)
(* A name pattern is the set of symbol names it matches, a type list the   *)
(* set of its types.                                                       *)
(***************************************************************************)
EXTENDS Integers, Sequences, SequencesExt, FiniteSets, Functions

CONSTANTS Names,        \* symbol names of the index
          Types         \* symbol types

NoEphRows == [sym |-> <<>>, inst |-> <<>>, ref |-> <<>>]

-----------------------------------------------------------------------------
(* The verbs.                                                              *)

PlainVerb(v) ==
  [v |-> v, names |-> Names, named |-> FALSE, types |-> Types, label |-> "",
   rel |-> {}, inherit |-> FALSE, only |-> FALSE, rows |-> NoEphRows]

NameSelector(names) == [PlainVerb("name") EXCEPT !.names = names, !.named = TRUE]
ForcedVerb(names) == [PlainVerb("forced") EXCEPT !.names = names, !.named = TRUE]
IgnoreVerb(names) == [PlainVerb("ignore") EXCEPT !.names = Names \ names]
LabelVerb(label, inherit) == [PlainVerb("label") EXCEPT !.label = label, !.inherit = inherit]
UserVerb(label, forced) == [PlainVerb(IF forced THEN "useForced" ELSE "use") EXCEPT !.label = label]

DeriveModifier(rel, inherit) == [PlainVerb("derive") EXCEPT !.rel = rel, !.inherit = inherit]
HasModifier == DeriveModifier({"has"}, TRUE)
RefsModifier == DeriveModifier({"refs"}, TRUE)

\* A type with no name is a filter that children inherit, a type with a name
\* selects; `filter` and `inherit` override ("" when not given).
TypeSelector(type, names, filter, inherit) ==
  LET named == names # {}
  IN [PlainVerb("type") EXCEPT
        !.types = {type},
        !.named = named,
        !.names = IF named THEN names ELSE Names,
        !.only = IF filter = "" THEN ~named ELSE filter = "true",
        !.inherit = IF inherit = "" THEN ~named ELSE inherit = "true"]

GenericFilter(kind, names, types, inherit) ==
  [PlainVerb(kind) EXCEPT !.names = names, !.types = types, !.inherit = inherit]
TypeFilter(types, inherit) == GenericFilter("type filter", Names, types, inherit)
ExactNameFilter(names, inherit) == GenericFilter("exact name filter", names, Types, inherit)
CompoundNameFilter(names, inherit) == GenericFilter("compound name filter", names, Types, inherit)

\* loc, search and layer { }: the rows are what the layer comes to hold.
LayerVerb(label, rows) == [PlainVerb("layer") EXCEPT !.label = label, !.rows = rows]

PreambleVerb == PlainVerb("preamble")
IsolatedScope == PlainVerb("scope")
UnnestModifier == PlainVerb("unnest")
AnyModifier == PlainVerb("any")
GenericSelector == PlainVerb("select")
DefaultTypeFilter(types) == [PlainVerb("default type filter") EXCEPT !.types = types]
UnitVerb == PlainVerb("unit")

\* Mutant of IsClone: an ignore stays with its statement.
IsCloneButIgnore(w) == w.v = "unit" \/ (w.v # "derive" /\ w.inherit)

\* as_selector, as_filter, derive_method, suppresses_default_type_filter.
IsSelector(w) ==
  \/ w.v \in {"name", "forced", "use", "useForced", "layer", "scope", "select", "unit"}
  \/ w.v = "type" /\ ~(w.only /\ ~w.named /\ w.inherit)
IsFilter(w) == w.v \in {"ignore", "type", "type filter", "exact name filter",
                       "compound name filter", "default type filter"}
IsClone(w) == w.v \in {"ignore", "unit"} \/ (w.v # "derive" /\ w.inherit)
Suppresses(w) == w.v \in {"type", "type filter"}

\* The verbs of a command that are in a set, in their order.
Retain(verbs, kept) ==
  FoldLeft(LAMBDA acc, w : IF w \in kept THEN Append(acc, w) ELSE acc, <<>>, verbs)

\* add_verb: which of the verbs before it a verb leaves in place.
Displaces(w, o) ==
  \/ w.v \in {"type", "any"} /\ Suppresses(o)
  \/ w.v \in {"type filter", "exact name filter", "compound name filter", "select"} /\ o.v = w.v
Displaced(w, before) == Retain(before, {o \in ToSet(before) : ~Displaces(w, o)})
AddVerb(verbs, w) ==
  FoldLeft(LAMBDA acc, x : Append(Displaced(x, acc), x), <<>>, Append(verbs, w))

\* get_composite_filter.  A named filter-mode type is a namespace: it asks
\* for the name and not for the type.
CompositeFilter(w) ==
  [names |-> w.names, types |-> IF w.v = "type" /\ w.only /\ w.named THEN Types ELSE w.types]

-----------------------------------------------------------------------------
(* ParserContext.                                                          *)

Global == [verbs |-> <<>>, rel |-> {"refs"}, modified |-> FALSE, hands |-> FALSE, types |-> {}]

\* Mutant of Derive: a scope forgets that its relationship was handed down.
DeriveUnmodified(ctx) ==
  [ctx EXCEPT !.verbs = Retain(@, {w \in ToSet(@) : IsClone(w)}), !.modified = FALSE]

\* ParserContext::derive and Command::derive.
Derive(ctx) ==
  [ctx EXCEPT !.verbs = Retain(@, {w \in ToSet(@) : IsClone(w)}), !.modified = ctx.hands]

\* update_context of the verbs that have one.
ScopeTypes(type) ==
  CASE type = "type" -> {"type"}
    [] type = "macro" -> {"macro", "func"}
    [] type \in {"mod", "file"} -> {"mod", "func"}
    [] type = "dir" -> {"dir", "file"}
    [] OTHER -> {"func"}
UpdateContext(ctx, w) ==
  CASE w.v = "derive" -> [ctx EXCEPT !.rel = w.rel, !.modified = TRUE, !.hands = w.inherit]
    [] w.v = "type" -> [ctx EXCEPT !.types = ScopeTypes(CHOOSE t \in w.types : TRUE)]
    [] w.v = "type filter" /\ w.inherit -> [ctx EXCEPT !.types = w.types \cup {"func"}]
    [] OTHER -> ctx

\* build_verb: consume the verb or extend the command with it.
BuildVerb(ctx, w) ==
  LET updated == UpdateContext(ctx, w)
  IN IF w.v = "derive" THEN updated ELSE [updated EXCEPT !.verbs = AddVerb(@, w)]
BuildVerbs(ctx, verbs) == FoldLeft(BuildVerb, ctx, verbs)

\* The context that the statements of a scope derive from.
OpenScope(ctx) ==
  [ctx EXCEPT !.rel = IF ctx.modified THEN @ ELSE {"refs", "has"}, !.types = {}]

\* PreambleVerb: the rest of its statement goes to the global context.
IsPreamble(st) == st.verbs # <<>> /\ st.verbs[1].v = "preamble"
GlobalFor(ast, s) ==
  IF s > 1 /\ IsPreamble(ast[1]) THEN BuildVerbs(Global, Tail(ast[1].verbs)) ELSE Global

-----------------------------------------------------------------------------
(* build_statement for every statement of the forest.                      *)

Exits(ast) ==
  LET exit[s \in DOMAIN ast] ==
        BuildVerbs(
          Derive(IF ast[s].parent = 0 THEN GlobalFor(ast, s) ELSE OpenScope(exit[ast[s].parent])),
          IF IsPreamble(ast[s]) THEN <<>> ELSE ast[s].verbs)
  IN exit
Entry(ast, s) ==
  Derive(IF ast[s].parent = 0 THEN GlobalFor(ast, s) ELSE OpenScope(Exits(ast)[ast[s].parent]))

\* The command: the default types when the statement names none, a unit
\* when nothing selects.
Command(ast, s) ==
  LET own == Exits(ast)[s].verbs
      typed == IF Entry(ast, s).types # {} /\ ~ \E i \in DOMAIN own : Suppresses(own[i])
               THEN AddVerb(own, DefaultTypeFilter(Entry(ast, s).types)) ELSE own
  IN IF \E i \in DOMAIN typed : IsSelector(typed[i]) THEN typed ELSE AddVerb(typed, UnitVerb)

\* How a verb selects: a type or `select` asks for what the filters of the
\* command accept, a type in filter mode waits for its parent.
SelectorOf(w) ==
  [kind |-> CASE w.v = "type" /\ w.only /\ w.named -> "namespace"
              [] w.v = "type" /\ w.only /\ ~w.named -> "bare"
              [] w.v \in {"type", "select"} -> "name"
              [] OTHER -> w.v,
   names |-> IF w.v = "type" THEN Names ELSE w.names,
   label |-> w.label]

Selectors(verbs) == Retain(verbs, {w \in ToSet(verbs) : IsSelector(w)})
Accepting(verbs) ==
  LET filters == {CompositeFilter(w) : w \in {x \in ToSet(verbs) : IsFilter(x)}}
  IN [names |-> {n \in Names : \A f \in filters : n \in f.names},
      types |-> {t \in Types : \A f \in filters : t \in f.types}]
LayerRows(verbs) ==
  LET layers == {w.rows : w \in {x \in ToSet(verbs) : x.v = "layer"}}
  IN IF layers = {} THEN NoEphRows ELSE CHOOSE r \in layers : TRUE

BuildQuery(ast) ==
  LET command == [s \in DOMAIN ast |-> Command(ast, s)]
  IN [source |-> ast,
      n |-> Len(ast),
      parent |-> [s \in DOMAIN ast |-> ast[s].parent],
      sel |-> [s \in DOMAIN ast |->
                 LET sels == Selectors(command[s])
                 IN [k \in DOMAIN sels |-> SelectorOf(sels[k])]],
      labels |-> [s \in DOMAIN ast |->
                    {w.label : w \in {x \in ToSet(command[s]) : x.v = "label"}}],
      accept |-> [s \in DOMAIN ast |-> Accepting(command[s])],
      rel |-> [s \in DOMAIN ast |-> Entry(ast, s).rel],
      unnest |-> [s \in DOMAIN ast |-> \E w \in ToSet(command[s]) : w.v = "unnest"],
      rows |-> [s \in DOMAIN ast |-> LayerRows(command[s])]]
=============================================================================
