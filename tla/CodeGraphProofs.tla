--------------------------- MODULE CodeGraphProofs ---------------------------
(***************************************************************************)
(* The reads of CodeGraph for every index: a load that is split by layer   *)
(* returns what one load over all visible layers would, and the two        *)
(* DISTINCT ONs of find_edges_between keep one target per reference, the   *)
(* least of all of them.                                                   *)
(***************************************************************************)
EXTENDS CodeGraph, OrderLemmas

\* Ephemeral layers have negative ids.
Ephemeral(eph) == eph \subseteq {l \in Int : l < 0}

-----------------------------------------------------------------------------
(* Splitting a load.                                                       *)

\* The two branches of a partitioned load are disjoint by layer and together
\* everything, provided that a row whose layers are all positive is visible
\* without the chain.
LEMMA PartitionIsWhole ==
  ASSUME NEW eph, NEW rows, NEW layers,
         rows[Roots] \subseteq rows[Visible(eph)],
         \A r \in rows[Visible(eph)] : (\A l \in layers[r] : l > 0) => r \in rows[Roots]
  PROVE  CachedLoad(eph, FALSE, rows, layers) = rows[Visible(eph)]
<1>1. CASE eph = {}
  <2>1. Visible(eph) = Roots
    BY <1>1 DEF Visible
  <2> QED BY <1>1, <2>1 DEF CachedLoad, Branches
<1>2. CASE eph # {}
  BY <1>2 DEF CachedLoad, Branches
<1> QED BY <1>1, <1>2

\* What is visible and not ephemeral is on the roots.
LEMMA PositiveIsRoot ==
  ASSUME NEW eph, Ephemeral(eph), NEW l \in Visible(eph), l > 0
  PROVE  l \in Roots
<1>1. ASSUME l \in eph PROVE FALSE
  <2>1. l \in Int /\ l < 0
    BY <1>1 DEF Ephemeral
  <2> QED BY <2>1
<1> QED BY <1>1 DEF Visible

\* find_symbol's instances.
LEMMA CurrentIsWhole ==
  ASSUME NEW eph, Ephemeral(eph)
  PROVE  LoadCurrent(eph) = CurrentRows(Visible(eph))
<1> DEFINE rows == [vis \in Views(eph) |-> CurrentRows(vis)]
           layers == [i \in rows[Visible(eph)] |-> CurrentLayers(i)]
<1>1. rows[Roots] = CurrentRows(Roots) /\ rows[Visible(eph)] = CurrentRows(Visible(eph))
  BY DEF Views
<1>2. rows[Roots] \subseteq rows[Visible(eph)]
  BY <1>1 DEF CurrentRows, Visible
<1>3. ASSUME NEW i \in rows[Visible(eph)], \A l \in layers[i] : l > 0
      PROVE  i \in rows[Roots]
  <2>1. db.inst[i].layer > 0 /\ db.sym[SymOf(i)].layer > 0
    BY <1>3 DEF CurrentLayers
  <2>2. db.inst[i].layer \in Roots /\ db.sym[SymOf(i)].layer \in Roots
    BY <1>1, <1>3, <2>1, PositiveIsRoot DEF CurrentRows
  <2> QED BY <1>1, <1>3, <2>2 DEF CurrentRows
<1> HIDE DEF rows, layers
<1>4. CachedLoad(eph, FALSE, rows, layers) = rows[Visible(eph)]
  BY <1>2, <1>3, PartitionIsWhole
<1> QED
  BY <1>1, <1>4 DEF LoadCurrent, rows, layers

LEMMA PositiveCurrent ==
  ASSUME NEW eph, Ephemeral(eph), NEW i \in CurrentRows(Visible(eph)),
         \A l \in CurrentLayers(i) : l > 0
  PROVE  i \in CurrentRows(Roots)
BY PositiveIsRoot DEF CurrentRows, CurrentLayers

\* The joins along references, for any set of rows that is cut out of them.
LEMMA RefsAreWhole ==
  ASSUME NEW eph, Ephemeral(eph), NEW rows,
         rows[Visible(eph)] \subseteq RefRows(Visible(eph)),
         rows[Roots] = rows[Visible(eph)] \cap RefRows(Roots)
  PROVE  LoadRefs(eph, FALSE, rows) = rows[Visible(eph)]
<1> DEFINE layers == [e \in rows[Visible(eph)] |-> RefLayers(e)]
<1>1. ASSUME NEW e \in rows[Visible(eph)], \A l \in layers[e] : l > 0
      PROVE  e \in rows[Roots]
  <2>1. /\ e \in RefRows(Visible(eph))
        /\ db.ref[e.ref].layer > 0
        /\ \A l \in CurrentLayers(e.from) \cup CurrentLayers(e.to) : l > 0
    BY <1>1 DEF RefLayers
  <2>2. /\ e \in [ref : {r \in DOMAIN db.ref : db.ref[r].layer \in Visible(eph)},
                  from : CurrentRows(Visible(eph)), to : CurrentRows(Visible(eph))]
        /\ SymOf(e.to) = db.ref[e.ref].to
        /\ Covers(db.inst[e.from], db.ref[e.ref])
    BY <2>1 DEF RefRows
  <2>3. e.from \in CurrentRows(Roots) /\ e.to \in CurrentRows(Roots)
    BY <2>1, <2>2, PositiveCurrent
  <2>4. e.ref \in {r \in DOMAIN db.ref : db.ref[r].layer \in Roots}
    BY <2>1, <2>2, PositiveIsRoot
  <2>5. e \in [ref : {r \in DOMAIN db.ref : db.ref[r].layer \in Roots},
               from : CurrentRows(Roots), to : CurrentRows(Roots)]
    BY <2>2, <2>3, <2>4
  <2>6. e \in RefRows(Roots)
    BY <2>2, <2>5 DEF RefRows
  <2> QED BY <1>1, <2>6
<1> HIDE DEF layers
<1>2. CachedLoad(eph, FALSE, rows, layers) = rows[Visible(eph)]
  BY <1>1, PartitionIsWhole
<1> QED
  BY <1>2 DEF LoadRefs, layers

\* The containment joins.
LEMMA HasIsWhole ==
  ASSUME NEW eph, Ephemeral(eph), NEW rows,
         rows[Visible(eph)] \subseteq HasRows(Visible(eph)),
         rows[Roots] = rows[Visible(eph)] \cap HasRows(Roots)
  PROVE  LoadHas(eph, FALSE, rows) = rows[Visible(eph)]
<1> DEFINE layers == [h \in rows[Visible(eph)] |-> HasLayers(h)]
<1>1. ASSUME NEW h \in rows[Visible(eph)], \A l \in layers[h] : l > 0
      PROVE  h \in rows[Roots]
  <2>1. /\ h \in HasRows(Visible(eph))
        /\ \A l \in CurrentLayers(h.parent) \cup CurrentLayers(h.child) : l > 0
    BY <1>1 DEF HasLayers
  <2>2. /\ h \in [parent : CurrentRows(Visible(eph)), child : CurrentRows(Visible(eph))]
        /\ h.parent # h.child
        /\ Covers(db.inst[h.parent], db.inst[h.child])
        /\ LevelOf(h.parent) >= LevelOf(h.child)
    BY <2>1 DEF HasRows
  <2>3. h.parent \in CurrentRows(Roots) /\ h.child \in CurrentRows(Roots)
    BY <2>1, <2>2, PositiveCurrent
  <2>4. h \in [parent : CurrentRows(Roots), child : CurrentRows(Roots)]
    BY <2>2, <2>3
  <2>5. h \in HasRows(Roots)
    BY <2>2, <2>4 DEF HasRows
  <2> QED BY <1>1, <2>5
<1> HIDE DEF layers
<1>2. CachedLoad(eph, FALSE, rows, layers) = rows[Visible(eph)]
  BY <1>1, PartitionIsWhole
<1> QED
  BY <1>2 DEF LoadHas, layers

\* More layers show more rows.
LEMMA MoreLayersMoreRows ==
  ASSUME NEW A, NEW B, A \subseteq B
  PROVE  /\ CurrentRows(A) \subseteq CurrentRows(B)
         /\ RefRows(A) \subseteq RefRows(B)
         /\ HasRows(A) \subseteq HasRows(B)
<1>1. CurrentRows(A) \subseteq CurrentRows(B)
  BY DEF CurrentRows
<1>2. RefRows(A) \subseteq RefRows(B)
  BY <1>1 DEF RefRows
<1>3. HasRows(A) \subseteq HasRows(B)
  BY <1>1 DEF HasRows
<1> QED BY <1>1, <1>2, <1>3
-----------------------------------------------------------------------------
(* The queries.                                                            *)

\* What one load over the visible layers answers.
WholeChildHas(ids, unnest, vis) ==
  {h \in HasRows(vis) : h.parent \in ids /\ (unnest \/ DirectChild(h, vis))}
WholeChildRefs(ids, unnest, vis) ==
  {e \in RefRows(vis) :
     /\ e.from \in ids
     /\ unnest \/ (DirectRef(e, vis) /\ OuterParent(e, ids, vis))}

\* find_children's derive query, split or not.
LEMMA FindChildrenIsWhole ==
  ASSUME NEW eph, Ephemeral(eph), NEW ids, NEW rel, NEW unnest \in BOOLEAN
  PROVE  FindChildInstanceIds(ids, rel, unnest, eph) =
           (IF "has" \in rel THEN {h.child : h \in WholeChildHas(ids, unnest, Visible(eph))} ELSE {})
           \cup (IF "refs" \in rel THEN {e.to : e \in WholeChildRefs(ids, unnest, Visible(eph))} ELSE {})
<1> DEFINE has == [vis \in Views(eph) |-> WholeChildHas(ids, unnest, vis)]
           refs == [vis \in Views(eph) |-> WholeChildRefs(ids, unnest, vis)]
<1>1. /\ has[Roots] = WholeChildHas(ids, unnest, Roots)
      /\ has[Visible(eph)] = WholeChildHas(ids, unnest, Visible(eph))
      /\ refs[Roots] = WholeChildRefs(ids, unnest, Roots)
      /\ refs[Visible(eph)] = WholeChildRefs(ids, unnest, Visible(eph))
  BY DEF Views
<1>2. FindChildInstanceIds(ids, rel, unnest, eph) =
        (IF "has" \in rel THEN {h.child : h \in LoadHas(eph, ~unnest, has)} ELSE {})
        \cup (IF "refs" \in rel THEN {e.to : e \in LoadRefs(eph, ~unnest, refs)} ELSE {})
  BY DEF FindChildInstanceIds, ChainDependent, WholeChildHas, WholeChildRefs
<1> HIDE DEF has, refs
<1>3. CASE unnest
  <2>1. RefRows(Roots) \subseteq RefRows(Visible(eph)) /\ HasRows(Roots) \subseteq HasRows(Visible(eph))
    BY MoreLayersMoreRows DEF Visible
  <2>2. LoadHas(eph, FALSE, has) = has[Visible(eph)]
    <3>1. has[Visible(eph)] \subseteq HasRows(Visible(eph))
      BY <1>1 DEF WholeChildHas
    <3>2. has[Roots] = has[Visible(eph)] \cap HasRows(Roots)
      BY <1>1, <1>3, <2>1 DEF WholeChildHas
    <3> QED BY <3>1, <3>2, HasIsWhole
  <2>3. LoadRefs(eph, FALSE, refs) = refs[Visible(eph)]
    <3>1. refs[Visible(eph)] \subseteq RefRows(Visible(eph))
      BY <1>1 DEF WholeChildRefs
    <3>2. refs[Roots] = refs[Visible(eph)] \cap RefRows(Roots)
      BY <1>1, <1>3, <2>1 DEF WholeChildRefs
    <3> QED BY <3>1, <3>2, RefsAreWhole
  <2>4. ~unnest = FALSE
    BY <1>3
  <2> QED BY <1>1, <1>2, <2>2, <2>3, <2>4
<1>4. CASE ~unnest
  <2>1. LoadHas(eph, TRUE, has) = has[Visible(eph)] /\ LoadRefs(eph, TRUE, refs) = refs[Visible(eph)]
    BY DEF LoadHas, LoadRefs, CachedLoad, Branches
  <2>2. ~unnest = TRUE
    BY <1>4
  <2> QED BY <1>1, <1>2, <2>1, <2>2
<1> QED BY <1>3, <1>4

-----------------------------------------------------------------------------
(* find_edges_between.                                                     *)

\* The branches of the load hold the rows that a whole load would.
LEMMA EdgesAreWhole ==
  ASSUME NEW eph, Ephemeral(eph), NEW ids
  PROVE  UNION EdgeBranches(ids, eph) = EdgeRows(ids, Visible(eph))
<1> DEFINE rows == [vis \in Views(eph) |-> EdgeRows(ids, vis)]
           layers == [e \in rows[Visible(eph)] |-> EdgeLayers(e)]
<1>1. rows[Roots] = EdgeRows(ids, Roots) /\ rows[Visible(eph)] = EdgeRows(ids, Visible(eph))
  BY DEF Views
<1>2. rows[Roots] \subseteq rows[Visible(eph)]
  BY <1>1 DEF EdgeRows, Visible
<1>3. ASSUME NEW e \in rows[Visible(eph)], \A l \in layers[e] : l > 0
      PROVE  e \in rows[Roots]
  <2>1. /\ e \in EdgeRows(ids, Visible(eph))
        /\ db.ref[e.ref].layer > 0 /\ db.inst[e.from].layer > 0 /\ db.inst[e.to].layer > 0
    BY <1>1, <1>3 DEF EdgeLayers
  <2>2. /\ e \in [ref : {r \in DOMAIN db.ref : db.ref[r].layer \in Visible(eph)},
                  from : {i \in ids : db.inst[i].layer \in Visible(eph)},
                  to : {i \in ids : db.inst[i].layer \in Visible(eph)}]
        /\ SymOf(e.to) = db.ref[e.ref].to
        /\ Covers(db.inst[e.from], db.ref[e.ref])
        /\ e.from # e.to
    BY <2>1 DEF EdgeRows
  <2>3. /\ db.ref[e.ref].layer \in Roots /\ db.inst[e.from].layer \in Roots
        /\ db.inst[e.to].layer \in Roots
    BY <2>1, <2>2, PositiveIsRoot
  <2>4. e \in [ref : {r \in DOMAIN db.ref : db.ref[r].layer \in Roots},
               from : {i \in ids : db.inst[i].layer \in Roots},
               to : {i \in ids : db.inst[i].layer \in Roots}]
    BY <2>2, <2>3
  <2>5. e \in EdgeRows(ids, Roots)
    BY <2>2, <2>4 DEF EdgeRows
  <2> QED BY <1>1, <2>5
<1> HIDE DEF rows, layers
<1>4. CachedLoad(eph, FALSE, rows, layers) = rows[Visible(eph)]
  BY <1>2, <1>3, PartitionIsWhole
<1> QED
  BY <1>1, <1>4 DEF EdgeBranches, CachedLoad, rows, layers

\* DISTINCT ON keeps the least target of every group.
LEMMA DistinctKeepsLeast ==
  ASSUME NEW ids, IsFiniteSet(ids), ids \subseteq Int,
         NEW rows, \A e \in rows : e.to \in ids, NEW o \in rows
  PROVE  \E e \in DistinctOn(rows) : e.from = o.from /\ e.ref = o.ref /\ e.to <= o.to
<1> DEFINE group == {e \in rows : e.from = o.from /\ e.ref = o.ref}
           targets == {e.to : e \in group}
<1>1. targets \subseteq ids /\ o.to \in targets
  OBVIOUS
<1>2. PICK n \in targets : \A m \in targets : n <= m
  <2>1. IsFiniteSet(targets) /\ targets \subseteq Int /\ targets # {}
    BY <1>1, FS_Subset
  <2> HIDE DEF targets
  <2> QED BY <2>1, LeastOfFinite
<1>3. PICK e \in group : e.to = n
  BY <1>2
<1>4. e \in DistinctOn(rows)
  BY <1>2, <1>3 DEF DistinctOn
<1> QED
  BY <1>1, <1>2, <1>3, <1>4

\* Every edge of the index between the instances is answered, once per
\* reference and source, and with the least of its targets.
LEMMA LeastEdges ==
  ASSUME NEW eph, Ephemeral(eph), NEW ids, IsFiniteSet(ids), ids \subseteq Int
  PROVE  /\ FindEdgesBetween(ids, eph) \subseteq EdgeRows(ids, Visible(eph))
         /\ \A o \in EdgeRows(ids, Visible(eph)) :
              \E e \in FindEdgesBetween(ids, eph) : e.from = o.from /\ e.ref = o.ref
         /\ \A e \in FindEdgesBetween(ids, eph), o \in EdgeRows(ids, Visible(eph)) :
              o.from = e.from /\ o.ref = e.ref => e.to <= o.to
<1> DEFINE merged == UNION {DistinctOn(b) : b \in EdgeBranches(ids, eph)}
<1>1. FindEdgesBetween(ids, eph) = DistinctOn(merged)
  BY DEF FindEdgesBetween
<1>2. \A o \in EdgeRows(ids, Visible(eph)) : o.to \in ids
  BY DEF EdgeRows
<1>3. merged \subseteq EdgeRows(ids, Visible(eph))
  <2>1. \A b \in EdgeBranches(ids, eph) : DistinctOn(b) \subseteq b
    BY DEF DistinctOn
  <2> QED BY <2>1, EdgesAreWhole
<1>4. ASSUME NEW o \in EdgeRows(ids, Visible(eph))
      PROVE  \E e \in merged : e.from = o.from /\ e.ref = o.ref /\ e.to <= o.to
  <2>1. PICK b \in EdgeBranches(ids, eph) : o \in b
    BY EdgesAreWhole
  <2>2. \A e \in b : e.to \in ids
    BY <1>2, <2>1, EdgesAreWhole
  <2>3. PICK e \in DistinctOn(b) : e.from = o.from /\ e.ref = o.ref /\ e.to <= o.to
    BY <2>1, <2>2, DistinctKeepsLeast
  <2> QED BY <2>1, <2>3
<1> HIDE DEF merged
<1>5. DistinctOn(merged) \subseteq merged
  BY DEF DistinctOn
<1>6. ASSUME NEW o \in EdgeRows(ids, Visible(eph))
      PROVE  \E e \in DistinctOn(merged) : e.from = o.from /\ e.ref = o.ref
  <2>1. PICK x \in merged : x.from = o.from /\ x.ref = o.ref
    BY <1>4
  <2>2. \A y \in merged : y.to \in ids
    BY <1>2, <1>3
  <2>3. PICK e \in DistinctOn(merged) : e.from = x.from /\ e.ref = x.ref
    BY <2>2, DistinctKeepsLeast
  <2> QED BY <2>1, <2>3
<1>7. ASSUME NEW e \in DistinctOn(merged), NEW o \in EdgeRows(ids, Visible(eph)),
             o.from = e.from, o.ref = e.ref
      PROVE  e.to <= o.to
  <2>1. PICK x \in merged : x.from = o.from /\ x.ref = o.ref /\ x.to <= o.to
    BY <1>4
  <2>2. e.to <= x.to
    BY <1>7, <2>1 DEF DistinctOn
  <2>3. e.to \in Int /\ x.to \in Int /\ o.to \in Int
    BY <1>2, <1>3, <1>5, <1>7, <2>1
  <2> QED BY <2>1, <2>2, <2>3
<1> QED
  BY <1>1, <1>3, <1>5, <1>6, <1>7
=============================================================================
