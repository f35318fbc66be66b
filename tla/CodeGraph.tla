----------------------------- MODULE CodeGraph ------------------------------
(***************************************************************************)
(* The read side of the index (index/src/db_diesel): symbols, their        *)
(* instances (ranges of an object) and the references between them, all    *)
(* tagged with the layer they belong to, and the queries Index answers     *)
(* over them.  A query sees the rows of a set of layers: the root layers   *)
(* of the projects and the ephemeral layers of the request's chain.  Root  *)
(* ids are positive, ephemeral ids negative.                               *)
(*                                                                         *)
(* A row of a result is the tuple of ids it joins.  The SQL cache behind   *)
(* every read is module SqlCache; here a read is a function of the rows.   *)
(***************************************************************************)
EXTENDS Integers, FiniteSets

CONSTANTS Roots,        \* root layers of the visible projects
          Level         \* symbol_types.level of a symbol type

ASSUME RootsAssumption == \A l \in Roots : l \in Nat

VARIABLE db   \* [sym: id -> [name, type, layer],
              \*  inst: id -> [sym, obj, lo, hi, layer],
              \*  ref: id -> [to, obj, lo, hi, layer]]

Visible(eph) == Roots \cup eph

SymOf(i) == db.inst[i].sym
LevelOf(i) == Level[db.sym[SymOf(i)].type]

\* offset_range @> offset_range within one object.
Covers(a, b) == a.obj = b.obj /\ a.lo <= b.lo /\ b.hi <= a.hi
SameRange(a, b) == a.lo = b.lo /\ a.hi = b.hi
Inside(a, b) == Covers(b, a) /\ ~SameRange(a, b)

-----------------------------------------------------------------------------
(* The joins.                                                              *)

CurrentRows(vis) ==
  {i \in DOMAIN db.inst : db.inst[i].layer \in vis /\ db.sym[SymOf(i)].layer \in vis}

\* build_parents_query and build_children_query are one join, read from its
\* two ends: a reference leads from every instance around it to every
\* instance of its target.
RefRows(vis) ==
  {e \in [ref : {r \in DOMAIN db.ref : db.ref[r].layer \in vis},
          from : CurrentRows(vis), to : CurrentRows(vis)] :
     /\ SymOf(e.to) = db.ref[e.ref].to
     /\ Covers(db.inst[e.from], db.ref[e.ref])}

HasRows(vis) ==
  {h \in [parent : CurrentRows(vis), child : CurrentRows(vis)] :
     /\ h.parent # h.child
     /\ Covers(db.inst[h.parent], db.inst[h.child])
     /\ LevelOf(h.parent) >= LevelOf(h.child)}

\* The layer columns of a result row that the disjointness guard looks at.
CurrentLayers(i) == {db.inst[i].layer, db.sym[SymOf(i)].layer}
RefLayers(e) == {db.ref[e.ref].layer} \cup CurrentLayers(e.from) \cup CurrentLayers(e.to)
HasLayers(h) == CurrentLayers(h.parent) \cup CurrentLayers(h.child)

-----------------------------------------------------------------------------
(* DirectOnlyMixin, InnermostOnlyMixin, OuterParentFilterMixin.            *)

DirectChild(h, vis) ==
  ~ \E mid \in CurrentRows(vis) \ {h.parent, h.child} :
      /\ Inside(db.inst[mid], db.inst[h.parent])
      /\ Inside(db.inst[h.child], db.inst[mid])
      /\ LevelOf(h.parent) >= LevelOf(mid)

DirectRef(e, vis) ==
  ~ \E container \in CurrentRows(vis) \ {e.from} :
      /\ Inside(db.inst[container], db.inst[e.from])
      /\ Covers(db.inst[container], db.ref[e.ref])
      /\ LevelOf(container) <= LevelOf(e.from)

InnermostParent(h, vis) ==
  ~ \E mid \in CurrentRows(vis) \ {h.parent, h.child} :
      /\ Inside(db.inst[mid], db.inst[h.parent])
      /\ Inside(db.inst[h.child], db.inst[mid])

OuterParent(e, ids, vis) ==
  ~ \E op \in ids \ {e.from} :
      db.inst[op].layer \in vis /\ Inside(db.inst[e.from], db.inst[op])

\* Mutant of ChainDependent: every load may be split.
NeverChainDependent(unnest) == FALSE

\* is_chain_dependent of the filter that the derive paths compose: each of
\* the three mixins looks at rows that are not part of the result row.
ChainDependent(unnest) == ~unnest

-----------------------------------------------------------------------------
(* cached_load_partitioned: one load that sees every visible layer, or a   *)
(* load of the roots that all chains share and a load of what an ephemeral *)
(* row takes part in.  A load is given as rows, what it returns under each *)
(* visibility, and layers, the layer columns of each row.                  *)

Views(eph) == {Roots, Visible(eph)}

Branches(eph, chainDependent, rows, layers) ==
  IF chainDependent THEN {rows[Visible(eph)]}
  ELSE IF eph = {} THEN {rows[Roots]}
  ELSE {rows[Roots],
        {r \in rows[Visible(eph)] : ~ \A l \in layers[r] : l > 0}}

CachedLoad(eph, chainDependent, rows, layers) ==
  UNION Branches(eph, chainDependent, rows, layers)

\* The loads of the three joins.
LoadCurrent(eph) ==
  LET rows == [vis \in Views(eph) |-> CurrentRows(vis)]
  IN CachedLoad(eph, FALSE, rows, [i \in rows[Visible(eph)] |-> CurrentLayers(i)])
LoadRefs(eph, chainDependent, rows) ==
  CachedLoad(eph, chainDependent, rows, [e \in rows[Visible(eph)] |-> RefLayers(e)])
LoadHas(eph, chainDependent, rows) ==
  CachedLoad(eph, chainDependent, rows, [h \in rows[Visible(eph)] |-> HasLayers(h)])

-----------------------------------------------------------------------------
(* Filters and scopes.  A filter is a set of names and a set of types      *)
(* (what the CompositeFilter of a command accepts), an OR of filters is a  *)
(* set of them.                                                            *)

Accepts(filter, i) ==
  db.sym[SymOf(i)].name \in filter.names /\ db.sym[SymOf(i)].type \in filter.types

Skip == [kind |-> "skip", ids |-> {}, filters |-> {}]
Unscoped == [kind |-> "unscoped", ids |-> {}, filters |-> {}]
Scope(ids, filters) == [kind |-> "scope", ids |-> ids, filters |-> filters]

\* The rows of a join whose far end the scope lets through.  resolve_scope_ids
\* looks up which instances a filter means, near the current ones only: the
\* far ends of the rows are exactly those.
Scoped(rows, scope, end) ==
  CASE scope.kind = "skip" -> {}
    [] scope.kind = "unscoped" -> rows
    [] scope.kind = "scope" ->
         {e \in rows : e[end] \in scope.ids \/ \E f \in scope.filters : Accepts(f, e[end])}

NoRows == [nodes |-> {}, parents |-> {}, children |-> {}, hp |-> {}, hc |-> {}]

\* Selection::extend of all the given selections.
Extend(sels) == [nodes |-> UNION {x.nodes : x \in sels},
                 parents |-> UNION {x.parents : x \in sels},
                 children |-> UNION {x.children : x \in sels},
                 hp |-> UNION {x.hp : x \in sels},
                 hc |-> UNION {x.hc : x \in sels}]

\* The rows of a join with one end among the given instances.
RefsInto(rows, ids) == rows \cap [ref : DOMAIN db.ref, from : DOMAIN db.inst, to : ids]
RefsOutOf(rows, ids) == rows \cap [ref : DOMAIN db.ref, from : ids, to : DOMAIN db.inst]

\* find_symbol for the instances that its filter matches.  The leaves of the
\* filter look at selected rows only, so every load is partitioned.
FindSymbol(matching, parentScope, childrenScope, eph) ==
  LET refs == LoadRefs(eph, FALSE, [vis \in Views(eph) |-> RefRows(vis)])
      has == LoadHas(eph, FALSE, [vis \in Views(eph) |-> HasRows(vis)])
      current == matching \cap LoadCurrent(eph)
  IN [nodes |-> current,
      parents |-> Scoped(RefsInto(refs, current), parentScope, "from"),
      children |-> Scoped(RefsOutOf(refs, current), childrenScope, "to"),
      hp |-> has \cap [parent : DOMAIN db.inst, child : current],
      hc |-> has \cap [parent : current, child : DOMAIN db.inst]]

-----------------------------------------------------------------------------
(* The derive queries.  rel is a set of "refs" and "has".                  *)

FindChildInstanceIds(ids, rel, unnest, eph) ==
  LET has == [vis \in Views(eph) |->
                {h \in HasRows(vis) : h.parent \in ids /\ (unnest \/ DirectChild(h, vis))}]
      refs == [vis \in Views(eph) |->
                 {e \in RefRows(vis) :
                    /\ e.from \in ids
                    /\ unnest \/ (DirectRef(e, vis) /\ OuterParent(e, ids, vis))}]
      chained == ChainDependent(unnest)
  IN (IF "has" \in rel THEN {h.child : h \in LoadHas(eph, chained, has)} ELSE {})
     \cup (IF "refs" \in rel THEN {e.to : e \in LoadRefs(eph, chained, refs)} ELSE {})

FindParentInstanceIds(ids, rel, unnest, eph) ==
  LET has == [vis \in Views(eph) |->
                {h \in HasRows(vis) : h.child \in ids /\ (unnest \/ InnermostParent(h, vis))}]
      refs == [vis \in Views(eph) |-> {e \in RefRows(vis) : e.to \in ids}]
      chained == ChainDependent(unnest)
  IN (IF "has" \in rel THEN {h.parent : h \in LoadHas(eph, chained, has)} ELSE {})
     \cup (IF "refs" \in rel THEN {e.from : e \in LoadRefs(eph, chained, refs)} ELSE {})

-----------------------------------------------------------------------------
(* find_edges_between.  The candidates are instances of visible layers.    *)

EdgeRows(ids, vis) ==
  LET candidates == {i \in ids : db.inst[i].layer \in vis}
  IN {e \in [ref : {r \in DOMAIN db.ref : db.ref[r].layer \in vis},
             from : candidates, to : candidates] :
        /\ SymOf(e.to) = db.ref[e.ref].to
        /\ Covers(db.inst[e.from], db.ref[e.ref])
        /\ e.from # e.to}

EdgeLayers(e) == {db.ref[e.ref].layer, db.inst[e.from].layer, db.inst[e.to].layer}

EdgeBranches(ids, eph) ==
  LET rows == [vis \in Views(eph) |-> EdgeRows(ids, vis)]
  IN Branches(eph, FALSE, rows, [e \in rows[Visible(eph)] |-> EdgeLayers(e)])

\* DISTINCT ON (from, ref) ... ORDER BY from, ref, to.
DistinctOn(rows) ==
  {e \in rows : \A o \in rows : o.from = e.from /\ o.ref = e.ref => e.to <= o.to}

\* Mutant of FindEdgesBetween: the merged rows are left as they are.
FindEdgesUncollapsed(ids, eph) ==
  UNION {DistinctOn(b) : b \in EdgeBranches(ids, eph)}

\* Each branch of the load runs its own DISTINCT ON, over the rows its guard
\* lets through; the merged rows are collapsed once more.
FindEdgesBetween(ids, eph) ==
  DistinctOn(UNION {DistinctOn(b) : b \in EdgeBranches(ids, eph)})
=============================================================================
