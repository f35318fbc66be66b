---------------------------- MODULE AnswerProofs -----------------------------
(***************************************************************************)
(* What a query answers, for every query and index.                        *)
(*                                                                         *)
(* When the worklist runs dry the selections of a scope and of the         *)
(* statement around it agree, because a notification that could still      *)
(* change one of them is never missing: it is due, or its sender waits on  *)
(* the worklist.  In a tree of names they agree on exactly what matches,   *)
(* because nothing that takes part in a match ever goes away.  And the     *)
(* containments drawn between the nodes are those of the index, because    *)
(* the layers that two statements have seen are nested.                    *)
(***************************************************************************)
EXTENDS ExecutorProofs

-----------------------------------------------------------------------------
(* Queries of names, units and namespaces.                                 *)

\* No label, layer or forced selector, and one selector in each statement.
Plain == OneSelector({"name", "unit", "bare", "namespace"})

\* The rows that a selection has loaded are rows of the index.
Loaded(x) ==
  /\ x.parents \subseteq RefRows(Visible(eph)) /\ x.children \subseteq RefRows(Visible(eph))
  /\ x.hp \subseteq HasRows(Visible(eph)) /\ x.hc \subseteq HasRows(Visible(eph))

\* Tables of rows are functions.
Tabled == IsMap(db) /\ IsMap(db.sym) /\ IsMap(db.inst) /\ IsMap(db.ref)

RowsLoaded ==
  Plain =>
    /\ Tabled
    /\ \A p \in pending : p.eph = {}
    /\ \A s \in Statements : \A x \in reg[s][1] : Loaded(x)

\* The relationship of a to i, in the scope of which s is a statement.
Linked(s, a, i) == Related(q.rel[s], CallPairs, HasRows(Visible(eph)), a, i)

-----------------------------------------------------------------------------
(* Notifications are not lost.                                             *)

\* What the enclosing statement has told s.
Told(p, s) ==
  /\ GetSelection(s) # {}
  /\ p \notin weak => \A i \in Nodes(s) : \E a \in Nodes(p) : Linked(s, a, i)
TellsChild(p, s) == cur = p /\ [st |-> s, role |-> "Child", at |-> <<p, s>>] \in left
ChildrenFollow ==
  Plain /\ pc \in {"work", "done"} =>
    \A p \in Statements : \A s \in Children(p) :
      GetSelection(p) # {} => p \in ToSet(work) \/ TellsChild(p, s) \/ Told(p, s)

\* What the statements of its scope have told p, once all of them can speak.
Heard(p) ==
  /\ GetSelection(p) # {}
  /\ \A a \in Nodes(p) : \E c \in Children(p) : \E i \in Nodes(c) : Linked(c, a, i)
TellsParent(c, p) == cur = c /\ [st |-> p, role |-> "Parent", at |-> <<c, 0>>] \in left
ParentsFollow ==
  Plain /\ pc \in {"work", "done"} =>
    \A p \in Statements :
      (\A c \in Children(p) : SelectionSome(c)) /\ Speaking(p) # {} =>
        (\E c \in Children(p) : c \in ToSet(work) \/ TellsParent(c, p)) \/ Heard(p)

-----------------------------------------------------------------------------
(* The rows of a selection.                                                *)

LEMMA PlainKeys ==
  ASSUME WellFormed(q), Plain, NEW s \in Statements
  PROVE  /\ Keys(s) = {1} /\ ~HasLayerSpec(s)
         /\ Kind(s, 1) \in {"name", "unit", "bare", "namespace"} /\ ~Uses(s, 1)
<1>1. Len(q.sel[s]) = 1 /\ Kind(s, 1) \in {"name", "unit", "bare", "namespace"}
  BY DEF Plain, OneSelector
<1>2. Keys(s) = 1 .. 1
  BY <1>1 DEF WellFormed, Statements, Keys
<1>3. Keys(s) = {1}
  BY <1>2
<1> QED BY <1>1, <1>3 DEF HasLayerSpec, Uses

\* Such a query creates no layer, so nothing but the roots is visible.
LEMMA NoLayers ==
  ASSUME Typing, Plain
  PROVE  eph = {} /\ Visible(eph) = Roots
<1>1. \A s \in computed : s \in Statements
  BY DEF Typing, TypedRoots, TypedPlan, WellFormed, Statements
<1>2. eph = {}
  BY <1>1, PlainKeys DEF Typing, TypedPlan, TypedRoots
<1> QED BY <1>2 DEF Visible

\* A load without a chain.
LEMMA RootLoads ==
  ASSUME NEW chained \in BOOLEAN, NEW rows
  PROVE  /\ LoadRefs({}, chained, rows) = rows[Roots]
         /\ LoadHas({}, chained, rows) = rows[Roots]
<1>1. Visible({}) = Roots
  BY DEF Visible
<1>2. \A layers : CachedLoad({}, chained, rows, layers) = rows[Roots]
  BY <1>1 DEF CachedLoad, Branches
<1> QED BY <1>2 DEF LoadRefs, LoadHas

\* find_symbol loads rows of the index.
LEMMA FindSymbolLoads ==
  ASSUME eph = {}, NEW matching, NEW parents, NEW children,
         parents.kind \in ScopeKinds, children.kind \in ScopeKinds
  PROVE  Loaded(FindSymbol(matching, parents, children, {}))
<1> DEFINE refs == LoadRefs({}, FALSE, [vis \in Views({}) |-> RefRows(vis)])
           has == LoadHas({}, FALSE, [vis \in Views({}) |-> HasRows(vis)])
           current == matching \cap LoadCurrent({})
<1>1. FindSymbol(matching, parents, children, {}) =
        [nodes |-> current,
         parents |-> Scoped(RefsInto(refs, current), parents, "from"),
         children |-> Scoped(RefsOutOf(refs, current), children, "to"),
         hp |-> has \cap [parent : DOMAIN db.inst, child : current],
         hc |-> has \cap [parent : current, child : DOMAIN db.inst]]
  BY DEF FindSymbol
<1>2. Visible(eph) = Roots
  BY DEF Visible
<1>3. refs = RefRows(Roots) /\ has = HasRows(Roots)
  <2>1. /\ [vis \in Views({}) |-> RefRows(vis)][Roots] = RefRows(Roots)
        /\ [vis \in Views({}) |-> HasRows(vis)][Roots] = HasRows(Roots)
    BY DEF Views
  <2>2. FALSE \in BOOLEAN
    OBVIOUS
  <2> QED BY <2>1, <2>2, RootLoads
<1> HIDE DEF refs, has, current
<1>4. Scoped(RefsInto(refs, current), parents, "from") \subseteq RefRows(Roots)
  <2>1. RefsInto(refs, current) \subseteq RefRows(Roots)
    BY <1>3 DEF RefsInto
  <2> QED BY <2>1, ScopedIsPart
<1>5. Scoped(RefsOutOf(refs, current), children, "to") \subseteq RefRows(Roots)
  <2>1. RefsOutOf(refs, current) \subseteq RefRows(Roots)
    BY <1>3 DEF RefsOutOf
  <2> QED BY <2>1, ScopedIsPart
<1> QED BY <1>1, <1>2, <1>3, <1>4, <1>5 DEF Loaded

\* A constraint changes the nodes of a selection only.
LEMMA ConstraintLoads ==
  ASSUME NEW sel \in Selections, Loaded(sel), NEW dep, NEW role \in {"Parent", "Child", "User"}, NEW rel
  PROVE  Loaded(ConstrainSelection(sel, dep, role, rel))
<1>1. ASSUME NEW nodes
      PROVE  Loaded([sel EXCEPT !.nodes = nodes])
  BY DEF Loaded, Selections
<1>2. CASE role = "Parent"
  BY <1>1, <1>2 DEF ConstrainSelection, ConstrainByChild
<1>3. CASE role = "Child"
  BY <1>1, <1>3 DEF ConstrainSelection, ConstrainByParent
<1>4. CASE role = "User"
  BY <1>1, <1>4 DEF ConstrainSelection, ConstrainByOwner
<1> QED BY <1>2, <1>3, <1>4

\* The combined selection of a statement with one selector.
LEMMA PlainSelection ==
  ASSUME Typing, Plain, NEW s \in Statements
  PROVE  /\ GetSelection(s) = {} <=> reg[s][1] = {}
         /\ SelectionSome(s) <=> GetSelection(s) # {}
         /\ Nodes(s) = IdsOf(reg[s][1])
         /\ GetSelection(s) \in Optional
         /\ RowsLoaded => \A x \in GetSelection(s) : Loaded(x)
<1>1. Keys(s) = {1} /\ 1 >= 1 /\ reg[s][1] \in Optional
  BY PlainKeys DEF Typing, TypedPlan, TypedRegistry, Registry
<1>2. GetSelection(s) \in Optional /\ IdsOf(GetSelection(s)) = UNION {IdsOf(reg[s][k]) : k \in Gathered(s, reg)}
  BY SelectionType DEF GetSelection, Typing, TypedRegistry, Registry
<1>3. SelectionSome(s) <=> reg[s][1] # {}
  BY <1>1 DEF SelectionSome
<1>4. CASE reg[s][1] = {}
  <2>1. Gathered(s, reg) = {}
    BY <1>1, <1>4 DEF Gathered
  <2>2. GetSelection(s) = {}
    BY <2>1 DEF GetSelection, Selection
  <2> QED BY <1>2, <1>3, <1>4, <2>1, <2>2 DEF Nodes, IdsOf
<1>5. CASE reg[s][1] # {}
  <2>1. Gathered(s, reg) = {1}
    BY <1>1, <1>5 DEF Gathered
  <2> DEFINE parts == UNION {reg[s][k] : k \in Gathered(s, reg)}
  <2>2. GetSelection(s) = {Extend(parts)}
    BY <2>1 DEF GetSelection, Selection
  <2>3. parts = reg[s][1]
    BY <2>1
  <2> HIDE DEF parts
  <2>4. ASSUME RowsLoaded
        PROVE  Loaded(Extend(parts))
    <3>1. \A x \in parts : Loaded(x)
      BY <2>3, <2>4 DEF RowsLoaded
    <3> QED BY <3>1 DEF Loaded, Extend
  <2> QED BY <1>2, <1>3, <1>5, <2>1, <2>2, <2>4 DEF Nodes
<1> QED BY <1>4, <1>5

LEMMA SamePlain ==
  ASSUME UNCHANGED plan
  PROVE  /\ Plain' = Plain /\ Statements' = Statements /\ q' = q /\ weak' = weak
         /\ \A s : Children(s)' = Children(s) /\ Keys(s)' = Keys(s) /\ Echoes(s)' = Echoes(s)
<1>1. q' = q /\ weak' = weak
  BY DEF plan
<1>2. Statements' = Statements /\ Plain' = Plain /\ \A s : Children(s)' = Children(s) /\ Keys(s)' = Keys(s)
  BY SameQuery DEF Plain
<1>3. ASSUME NEW s
      PROVE  Echoes(s)' = Echoes(s)
  <2>1. IsUnit(s)' = IsUnit(s)
    BY SameQuery DEF IsUnit
  <2>2. Descendants(s)' = Descendants(s)
    BY <1>1, <1>2 DEF Descendants
  <2> QED BY <1>1, <2>1, <2>2 DEF Echoes
<1> QED BY <1>1, <1>2, <1>3

\* Rows of the index stay that, and so do the relationships they show.
LEMMA SameRows ==
  ASSUME UNCHANGED <<db, eph, plan>>
  PROVE  /\ \A x : Loaded(x)' = Loaded(x)
         /\ Tabled' = Tabled
         /\ \A s, a, i : Linked(s, a, i)' = Linked(s, a, i)
         /\ \A i : SymOf(i)' = SymOf(i)
         /\ CurrentRows(Visible(eph))' = CurrentRows(Visible(eph))
         /\ RefRows(Visible(eph))' = RefRows(Visible(eph))
         /\ HasRows(Visible(eph))' = HasRows(Visible(eph))
<1>1. q' = q /\ db' = db /\ eph' = eph
  BY DEF plan
<1>2. /\ CurrentRows(Visible(eph))' = CurrentRows(Visible(eph))
      /\ RefRows(Visible(eph))' = RefRows(Visible(eph))
      /\ HasRows(Visible(eph))' = HasRows(Visible(eph))
      /\ \A i : SymOf(i)' = SymOf(i)
  <2>1. \A i : SymOf(i)' = SymOf(i) /\ LevelOf(i)' = LevelOf(i)
    BY <1>1 DEF SymOf, LevelOf
  <2>2. \A vis : CurrentRows(vis)' = CurrentRows(vis)
    BY <1>1, <2>1 DEF CurrentRows
  <2>3. Visible(eph)' = Visible(eph)
    BY <1>1 DEF Visible
  <2> QED BY <1>1, <2>1, <2>2, <2>3 DEF RefRows, HasRows
<1>3. CallPairs' = CallPairs
  BY <1>2 DEF CallPairs
<1> QED BY <1>1, <1>2, <1>3 DEF Loaded, Tabled, Linked, Related

\* A query without layers leaves the index as it is.
LEMMA NothingMaterialises ==
  ASSUME Typing, Plain, RowsLoaded, Materialise
  PROVE  db' = db
<1>1. \A p \in pending : p.st \in Statements /\ ~HasLayerSpec(p.st)
  <2>1. \A p \in pending : p.st \in Statements
    BY DEF Typing, TypedRoots, TypedPlan, WellFormed, Statements
  <2> QED BY <2>1, PlainKeys DEF Typing, TypedPlan
<1> DEFINE fillers == {p \in pending : HasLayerSpec(p.st)}
           sym == Merge(db.sym, {q.rows[p.st].sym : p \in fillers})
           inst == Merge(db.inst, {Emitted(p, q.rows[p.st].inst, "sym") : p \in fillers})
           ref == Merge(db.ref, {Emitted(p, q.rows[p.st].ref, "to") : p \in fillers})
<1>2. db' = [db EXCEPT !.sym = sym, !.inst = inst, !.ref = ref]
  BY DEF Materialise
<1>3. fillers = {}
  BY <1>1
<1>4. /\ {q.rows[p.st].sym : p \in fillers} = {}
      /\ {Emitted(p, q.rows[p.st].inst, "sym") : p \in fillers} = {}
      /\ {Emitted(p, q.rows[p.st].ref, "to") : p \in fillers} = {}
  BY <1>3
<1>5. ASSUME NEW f, IsMap(f)
      PROVE  Merge(f, {}) = f
  <2>1. Merge(f, {}) = [x \in DOMAIN f |-> f[x]]
    BY DEF Merge
  <2> QED BY <1>5, <2>1 DEF IsMap
<1>6. sym = db.sym /\ inst = db.inst /\ ref = db.ref
  BY <1>4, <1>5 DEF RowsLoaded, Tabled
<1> HIDE DEF fillers, sym, inst, ref
<1>7. db = [x \in DOMAIN db |-> db[x]]
  BY DEF RowsLoaded, Tabled, IsMap
<1>8. [db EXCEPT !.sym = db.sym, !.inst = db.inst, !.ref = db.ref] = db
  BY <1>7
<1> QED BY <1>2, <1>6, <1>8

\* Popping a statement changes no selection.
LEMMA PlainPop ==
  ASSUME Typing, Plain, PopNext
  PROVE  \A s \in Statements : reg'[s][1] = reg[s][1]
<1>1. PICK t \in Statements :
        /\ reg' = [reg EXCEPT ![t] = Refreshed(t)]
        /\ DOMAIN Refreshed(t) = Keys(t)
        /\ \A k \in Keys(t) : Kind(t, k) # "useForced" \/ reg[t][k] # {} => Refreshed(t)[k] = reg[t][k]
  BY PopResult
<1>2. Keys(t) = {1} /\ Kind(t, 1) # "useForced" /\ DOMAIN reg = Statements
  BY PlainKeys DEF Typing, TypedPlan, TypedRegistry, Registry
<1>3. Refreshed(t)[1] = reg[t][1]
  BY <1>1, <1>2
<1> QED BY <1>1, <1>2, <1>3

\* What a notification stores was loaded from the index.
LEMMA NotificationLoads ==
  ASSUME Typing, Plain, RowsLoaded, cur \in Statements, GetSelection(cur) # {}, NEW d \in Statements
  PROVE  /\ \A x \in FromChildren(d, 1) : Loaded(x)
         /\ \A role \in {"Child", "User"} : \A x \in Accepted(d, 1, role) : Loaded(x)
<1>1. /\ eph = {} /\ reg[d][1] \in Optional /\ \A x \in reg[d][1] : Loaded(x)
      /\ Kind(d, 1) \notin {"forced", "useForced"} /\ ~Uses(d, 1)
  BY NoLayers, PlainKeys DEF Typing, TypedPlan, TypedRegistry, Registry, RowsLoaded
<1>2. reg[d][1] # {} => Only(reg[d][1]) \in Selections /\ Loaded(Only(reg[d][1]))
  BY <1>1, OptionalType
<1>3. ASSUME NEW ids, NEW parents, NEW children,
             parents.kind \in ScopeKinds, children.kind \in ScopeKinds
      PROVE  Loaded(ById(ids, d, parents, children))
  BY <1>1, <1>3, FindSymbolLoads DEF ById, CommandFilter
<1>4. \A x \in FromChildren(d, 1) : Loaded(x)
  <2> DEFINE kids == Merged(d)
             ids == FindParentInstanceIds(kids.nodes, q.rel[cur], q.unnest[d], eph)
  <2>1. FromChildren(d, 1) =
          IF reg[d][1] # {} THEN {ConstrainSelection(Only(reg[d][1]), kids, "Parent", q.rel[cur])}
          ELSE {ById(ids, d, ParentScope(d), Scope(kids.nodes, {}))}
    BY DEF FromChildren
  <2>2. Scope(kids.nodes, {}).kind \in ScopeKinds /\ ParentScope(d).kind \in ScopeKinds
    BY CapturedScopes DEF Scope, ScopeKinds
  <2>3. Loaded(ById(ids, d, ParentScope(d), Scope(kids.nodes, {})))
    BY <1>3, <2>2
  <2>4. reg[d][1] # {} => Loaded(ConstrainSelection(Only(reg[d][1]), kids, "Parent", q.rel[cur]))
    BY <1>2, ConstraintLoads
  <2> QED BY <2>1, <2>3, <2>4
<1>5. ASSUME NEW role \in {"Child", "User"}, NEW x \in Accepted(d, 1, role)
      PROVE  Loaded(x)
  <2>1. CASE Constrained(d, 1, role)
    <3>1. reg[d][1] # {}
      BY <2>1 DEF Constrained, Derives
    <3>2. x = ConstrainSelection(Only(reg[d][1]), Only(GetSelection(cur)), role,
                IF role = "Child" THEN q.rel[d] ELSE q.rel[cur])
      BY <1>5, <2>1 DEF Accepted
    <3> QED BY <1>2, <3>1, <3>2, ConstraintLoads
  <2>2. CASE ~Constrained(d, 1, role) /\ ~Derives(d, 1, role)
    BY <1>1, <1>5, <2>2 DEF Accepted
  <2>3. CASE ~Constrained(d, 1, role) /\ Derives(d, 1, role) /\ role = "Child"
    <3>1. x = ById(FindChildInstanceIds(IdsOf(GetSelection(cur)), q.rel[d], q.unnest[d], eph),
                   d, ParentScope(d), ChildrenScope(d))
      BY <1>1, <1>5, <2>3 DEF Accepted, FromParent
    <3> QED BY <1>3, <3>1, CapturedScopes
  <2>4. CASE Derives(d, 1, role) /\ role = "User"
    BY <1>1, <2>4 DEF Derives, Addressed
  <2> QED BY <2>1, <2>2, <2>3, <2>4
<1> QED BY <1>4, <1>5

LEMMA RowsLoadedUpdate ==
  ASSUME Typing, RowsLoaded, UNCHANGED <<db, eph, plan, pending>>,
         Plain => \A s \in Statements : \A x \in reg'[s][1] : Loaded(x)
  PROVE  RowsLoaded'
BY SamePlain, SameRows DEF RowsLoaded

LEMMA RowsLoadedNext ==
  ASSUME Typing, RowsLoaded, [Next]_vars
  PROVE  RowsLoaded'
<1>1. CASE Push
  <2>1. UNCHANGED <<db, eph, plan, reg>> /\ pending' = pending \cup {Queued(nxt)}
    BY <1>1 DEF Push
  <2>2. Plain => Queued(nxt).eph = {}
    BY NoLayers DEF Queued
  <2> QED BY <2>1, <2>2, SamePlain, SameRows DEF RowsLoaded
<1>2. CASE Materialise
  <2>1. UNCHANGED <<eph, plan, reg, pending>>
    BY <1>2 DEF Materialise
  <2>2. Plain => db' = db
    BY <1>2, NothingMaterialises
  <2> QED BY <2>1, <2>2, SamePlain, SameRows DEF RowsLoaded
<1>3. CASE Drain
  <2>1. UNCHANGED <<db, plan>> /\ pending' = {}
    BY <1>3 DEF Drain
  <2>2. TypedPlan /\ TypedRoots /\ WellFormed(q)
    BY DEF Typing, TypedPlan
  <2>3. ASSUME Plain
        PROVE  eph' = eph
    <3>1. \A p \in pending : ~HasLayerSpec(p.st)
      BY <1>3, <2>2, <2>3, PlainKeys, DrainResult
    <3>2. eph' = eph \cup {Layer(s) : s \in {t \in {p.st : p \in pending} : HasLayerSpec(t)}}
      BY <1>3 DEF Drain
    <3> QED BY <3>1, <3>2
  <2>4. ASSUME Plain, NEW p \in pending, NEW x \in Computed(p, 1)
        PROVE  Loaded(x)
    <3>1. p.st \in Statements /\ p.parents.kind \in ScopeKinds /\ p.children.kind \in ScopeKinds
      BY <1>3, <2>2, DrainResult
    <3>2. Kind(p.st, 1) \in {"name", "unit", "bare", "namespace"} /\ LocalEph(p) = {} /\ eph = {}
      BY <2>2, <2>4, <3>1, PlainKeys, NoLayers DEF LocalEph, RowsLoaded
    <3>3. Loaded(Query(p, NameFilter(p.st, 1)))
      BY <3>1, <3>2, FindSymbolLoads DEF Query
    <3> QED BY <2>4, <3>2, <3>3 DEF Computed, CommandFilter
  <2>5. ASSUME Plain, NEW s \in Statements, NEW x \in reg'[s][1]
        PROVE  Loaded(x)
    <3>1. CASE \A p \in pending : p.st # s
      <4>1. reg'[s] = reg[s]
        BY <1>3, <2>2, <3>1, DrainResult
      <4> QED BY <2>5, <4>1 DEF RowsLoaded
    <3>2. ASSUME NEW p \in pending, p.st = s
          PROVE  Loaded(x)
      <4>1. reg'[s] = [k \in Keys(s) |-> Computed(p, k)] /\ Keys(s) = {1}
        BY <1>3, <2>2, <2>5, <3>2, DrainResult, PlainKeys
      <4> QED BY <2>4, <2>5, <4>1
    <3> QED BY <3>1, <3>2
  <2> QED BY <2>1, <2>3, <2>5, SamePlain, SameRows DEF RowsLoaded
<1>4. CASE Seed
  BY <1>4, RowsLoadedUpdate DEF Seed, RowsLoaded
<1>5. CASE PopNext
  <2>1. UNCHANGED <<db, eph, plan, pending>>
    BY <1>5 DEF PopNext
  <2>2. ASSUME Plain, NEW s \in Statements
        PROVE  reg'[s][1] = reg[s][1]
    BY <1>5, <2>2, PlainPop
  <2> QED BY <2>1, <2>2, RowsLoadedUpdate DEF RowsLoaded
<1>6. CASE NotifyParent
  <2>1. PICK p \in Statements :
           /\ p = Dependent.st /\ cur # 0 /\ pc = "work"
           /\ \/ Notified(reg[p], FALSE, {})
              \/ Notified(FromKids(p), KidsChange(p), {k \in Keys(p) : reg[p][k] # {}})
    BY <1>6, ParentSteps
  <2>2. /\ UNCHANGED <<db, eph, plan, pending>> /\ DOMAIN reg = Statements
        /\ reg' = [reg EXCEPT ![p] = reg[p]] \/ reg' = [reg EXCEPT ![p] = FromKids(p)]
    BY <2>1 DEF Notified, Typing, TypedRegistry, Registry
  <2>3. cur \in Statements /\ GetSelection(cur) # {}
    BY <2>1 DEF Typing, TypedWork
  <2>4. Plain => FromKids(p)[1] = FromChildren(p, 1)
    BY PlainKeys DEF FromKids, Typing, TypedPlan
  <2>5. Plain => \A s \in Statements : \A x \in reg'[s][1] : Loaded(x)
    BY <2>2, <2>3, <2>4, NotificationLoads DEF RowsLoaded
  <2> QED BY <2>2, <2>5, RowsLoadedUpdate
<1>7. CASE NotifyOther
  <2>1. PICK d \in Statements, role \in {"Child", "User"} :
           /\ d = Dependent.st /\ cur # 0 /\ pc = "work"
           /\ Notified(FromKin(d, role), KinChange(d, role),
                       {k \in Keys(d) : Constrained(d, k, role) /\ ~Uses(d, k)})
    BY <1>7, KinSteps
  <2>2. /\ UNCHANGED <<db, eph, plan, pending>> /\ DOMAIN reg = Statements
        /\ reg' = [reg EXCEPT ![d] = FromKin(d, role)]
    BY <2>1 DEF Notified, Typing, TypedRegistry, Registry
  <2>3. cur \in Statements /\ GetSelection(cur) # {}
    BY <2>1 DEF Typing, TypedWork
  <2>4. Plain => FromKin(d, role)[1] = Accepted(d, 1, role)
    BY PlainKeys DEF FromKin, Typing, TypedPlan
  <2>5. Plain => \A s \in Statements : \A x \in reg'[s][1] : Loaded(x)
    BY <2>2, <2>3, <2>4, NotificationLoads DEF RowsLoaded
  <2> QED BY <2>2, <2>5, RowsLoadedUpdate
<1>8. CASE Outcome
  <2>1. UNCHANGED <<db, eph, plan, pending>> /\ reg' = reg
    BY <1>8, OutcomeFrame
  <2> QED BY <2>1, RowsLoadedUpdate DEF RowsLoaded
<1> QED BY <1>1, <1>2, <1>3, <1>4, <1>5, <1>6, <1>7, <1>8, Steps

LEMMA RowsLoadedInit == Init => RowsLoaded
<1> SUFFICES ASSUME Init, Plain PROVE RowsLoaded
  BY DEF RowsLoaded
<1>1. PICK case \in Cases : q = case.q /\ db = case.db
  BY DEF Init
<1>2. Tabled /\ WellFormed(q)
  BY <1>1, CasesAssumption DEF Tabled
<1>3. \A s \in Statements : reg[s][1] = {}
  BY <1>2, PlainKeys DEF Init
<1> QED BY <1>2, <1>3 DEF Init, RowsLoaded

LEMMA RowsAreLoaded == Spec => []RowsLoaded
BY RowsLoadedInit, RowsLoadedNext, ExecutorTyped, PTL DEF Spec

-----------------------------------------------------------------------------
(* What a notification leaves is related to its sender.                    *)

\* A row of the joins relates its ends.
LEMMA RowsLink ==
  ASSUME NEW s
  PROVE  /\ \A h \in HasRows(Visible(eph)) : "has" \in q.rel[s] => Linked(s, h.parent, h.child)
         /\ \A e \in RefRows(Visible(eph)) : \A a, i :
              "refs" \in q.rel[s] /\ SymOf(a) = SymOf(e.from) /\ SymOf(i) = SymOf(e.to) => Linked(s, a, i)
<1>1. ASSUME NEW h \in HasRows(Visible(eph)), "has" \in q.rel[s]
      PROVE  Linked(s, h.parent, h.child)
  <2>1. h = [parent |-> h.parent, child |-> h.child]
    BY DEF HasRows
  <2> QED BY <1>1, <2>1 DEF Linked, Related
<1>2. ASSUME NEW e \in RefRows(Visible(eph)), NEW a, NEW i, "refs" \in q.rel[s],
             SymOf(a) = SymOf(e.from), SymOf(i) = SymOf(e.to)
      PROVE  Linked(s, a, i)
  <2>1. <<SymOf(a), SymOf(i)>> \in CallPairs
    BY <1>2 DEF CallPairs
  <2> QED BY <1>2, <2>1 DEF Linked, Related
<1> QED BY <1>1, <1>2

\* The derive query of a parent, without layers.
LEMMA FindParentsLoads ==
  ASSUME NEW ids, NEW rel, NEW unnest \in BOOLEAN, NEW a \in FindParentInstanceIds(ids, rel, unnest, {})
  PROVE  \/ "has" \in rel /\ \E h \in HasRows(Roots) : h.parent = a /\ h.child \in ids
         \/ "refs" \in rel /\ \E e \in RefRows(Roots) : e.from = a /\ e.to \in ids
<1> DEFINE has == [vis \in Views({}) |->
                {h \in HasRows(vis) : h.child \in ids /\ (unnest \/ InnermostParent(h, vis))}]
           refs == [vis \in Views({}) |-> {e \in RefRows(vis) : e.to \in ids}]
<1>1. a \in (IF "has" \in rel THEN {h.parent : h \in LoadHas({}, ~unnest, has)} ELSE {})
            \cup (IF "refs" \in rel THEN {e.from : e \in LoadRefs({}, ~unnest, refs)} ELSE {})
  BY DEF FindParentInstanceIds, ChainDependent
<1>2. /\ has[Roots] \subseteq {h \in HasRows(Roots) : h.child \in ids}
      /\ refs[Roots] = {e \in RefRows(Roots) : e.to \in ids}
  BY DEF Views
<1> HIDE DEF has, refs
<1>3. LoadHas({}, ~unnest, has) = has[Roots] /\ LoadRefs({}, ~unnest, refs) = refs[Roots]
  BY RootLoads
<1> QED BY <1>1, <1>2, <1>3

\* The nodes of a statement that its parent has notified.
LEMMA ToldByParent ==
  ASSUME Typing, Plain, RowsLoaded, cur \in Statements, GetSelection(cur) # {},
         NEW d \in Statements, Derives(d, 1, "Child") \/ Constrained(d, 1, "Child")
  PROVE  \A x \in Accepted(d, 1, "Child") : \A i \in x.nodes : \E a \in Nodes(cur) : Linked(d, a, i)
<1>1. eph = {} /\ Visible(eph) = Roots /\ q.unnest[d] \in BOOLEAN
  BY NoLayers DEF Typing, TypedPlan, WellFormed, Statements
<1>2. Kind(d, 1) \notin {"forced", "useForced"} /\ reg[d][1] \in Optional
  BY PlainKeys DEF Typing, TypedPlan, TypedRegistry, Registry
<1>3. CASE Constrained(d, 1, "Child")
  <2> DEFINE parent == Only(GetSelection(cur))
             sel == Only(reg[d][1])
  <2>1. parent \in GetSelection(cur) /\ Loaded(parent) /\ parent.nodes = Nodes(cur)
    BY PlainSelection, OptionalType DEF Nodes
  <2>2. sel \in Selections
    BY <1>2, <1>3, OptionalType DEF Constrained, Derives
  <2>3. Accepted(d, 1, "Child") = {ConstrainByParent(sel, parent, q.rel[d])}
    BY <1>3 DEF Accepted, ConstrainSelection
  <2> HIDE DEF parent, sel
  <2>4. ASSUME NEW i \in ConstrainByParent(sel, parent, q.rel[d]).nodes
        PROVE  \E a \in Nodes(cur) : Linked(d, a, i)
    <3>1. \/ /\ "refs" \in q.rel[d]
             /\ \E e \in parent.children :
                  SymOf(e.to) = SymOf(i) /\ SymOf(e.from) \in {SymOf(m) : m \in parent.nodes}
          \/ /\ "has" \in q.rel[d]
             /\ \E h \in parent.hc : h.child = i /\ h.parent \in parent.nodes
      BY <2>2, <2>4 DEF ConstrainByParent, Selections
    <3> QED BY <2>1, <3>1, RowsLink DEF Loaded
  <2> QED BY <2>3, <2>4
<1>4. CASE ~Constrained(d, 1, "Child")
  <2> DEFINE ids == Nodes(cur)
             found == FindChildInstanceIds(ids, q.rel[d], q.unnest[d], eph)
  <2>1. Accepted(d, 1, "Child") = {ById(found, d, ParentScope(d), ChildrenScope(d))}
    BY <1>2, <1>4 DEF Accepted, FromParent, Nodes
  <2>2. ById(found, d, ParentScope(d), ChildrenScope(d)).nodes \subseteq found
    BY FindSymbolType, CapturedScopes DEF ById, CommandFilter
  <2>3. ASSUME NEW i \in found
        PROVE  \E a \in ids : Linked(d, a, i)
    <3>1. Ephemeral(eph)
      BY <1>1 DEF Ephemeral
    <3>2. \/ "has" \in q.rel[d] /\ \E h \in WholeChildHas(ids, q.unnest[d], Visible(eph)) : i = h.child
          \/ "refs" \in q.rel[d] /\ \E e \in WholeChildRefs(ids, q.unnest[d], Visible(eph)) : i = e.to
      BY <1>1, <2>3, <3>1, FindChildrenIsWhole
    <3> HIDE DEF ids, found
    <3> QED BY <3>2, RowsLink DEF WholeChildHas, WholeChildRefs
  <2> HIDE DEF found
  <2> QED BY <2>1, <2>2, <2>3
<1> QED BY <1>3, <1>4

\* The nodes of a statement that one of its scope has notified.
LEMMA HeardFromChildren ==
  ASSUME Typing, Plain, RowsLoaded, cur \in Statements, NEW p \in Statements, cur \in Children(p)
  PROVE  \A x \in FromChildren(p, 1) : \A a \in x.nodes :
           \E c \in Children(p) : \E i \in Nodes(c) : Linked(c, a, i)
<1>1. eph = {} /\ Visible(eph) = Roots /\ q.unnest[p] \in BOOLEAN /\ reg[p][1] \in Optional
  BY NoLayers, PlainKeys DEF Typing, TypedPlan, WellFormed, Statements, TypedRegistry, Registry
<1>2. \A c \in Children(p) : c \in Statements /\ q.rel[c] = q.rel[cur]
  <2>1. \A s, t \in Statements : q.parent[s] = q.parent[t] /\ q.parent[s] # 0 => q.rel[s] = q.rel[t]
    BY DEF Typing, TypedPlan, WellFormed, Statements
  <2>2. p # 0
    BY DEF Statements
  <2> QED BY <2>1, <2>2 DEF Children
<1> DEFINE kids == Merged(p)
           sels == UNION {GetSelection(c) : c \in Speaking(p)}
<1>3. /\ \A n \in kids.nodes : \E c \in Children(p) : n \in Nodes(c)
      /\ kids.parents \subseteq RefRows(Visible(eph)) /\ kids.hp \subseteq HasRows(Visible(eph))
  <2>1. Speaking(p) \subseteq Children(p)
    BY DEF Speaking
  <2>2. \A x \in sels : Loaded(x) /\ \E c \in Children(p) : x \in GetSelection(c)
    BY <1>2, <2>1, PlainSelection
  <2>3. \A c \in Children(p) : \A x \in GetSelection(c) : x.nodes \subseteq Nodes(c)
    BY DEF Nodes, IdsOf
  <2>4. kids = Extend(sels)
    BY DEF Merged
  <2> HIDE DEF kids, sels
  <2>5. /\ kids.nodes = UNION {x.nodes : x \in sels}
        /\ kids.parents = UNION {x.parents : x \in sels}
        /\ kids.hp = UNION {x.hp : x \in sels}
    BY <2>4 DEF Extend
  <2> QED BY <2>2, <2>3, <2>5 DEF Loaded
<1> HIDE DEF kids, sels
<1>7. \A c \in Children(p) : \A a, n : Linked(cur, a, n) => Linked(c, a, n)
  BY <1>2 DEF Linked
<1> SUFFICES ASSUME NEW x \in FromChildren(p, 1), NEW a \in x.nodes
             PROVE  \E n \in kids.nodes : Linked(cur, a, n)
  BY <1>3, <1>7
<1> DEFINE ids == FindParentInstanceIds(kids.nodes, q.rel[cur], q.unnest[p], {})
<1>4. FromChildren(p, 1) =
        IF reg[p][1] # {} THEN {ConstrainSelection(Only(reg[p][1]), kids, "Parent", q.rel[cur])}
        ELSE {ById(ids, p, ParentScope(p), Scope(kids.nodes, {}))}
  BY <1>1 DEF FromChildren, kids
<1>5. CASE reg[p][1] # {}
  <2> DEFINE sel == Only(reg[p][1])
  <2>1. sel \in Selections
    BY <1>1, <1>5, OptionalType
  <2>2. a \in ConstrainByChild(sel, kids, q.rel[cur]).nodes
    BY <1>4, <1>5 DEF ConstrainSelection
  <2> HIDE DEF sel
  <2>3. \/ /\ "refs" \in q.rel[cur]
           /\ \E e \in kids.parents :
                SymOf(e.from) = SymOf(a) /\ SymOf(e.to) \in {SymOf(m) : m \in kids.nodes}
        \/ /\ "has" \in q.rel[cur]
           /\ \E h \in kids.hp : h.parent = a /\ h.child \in kids.nodes
    BY <2>1, <2>2 DEF ConstrainByChild, Selections
  <2> QED BY <1>3, <2>3, RowsLink
<1>6. CASE reg[p][1] = {}
  <2>1. Scope(kids.nodes, {}).kind \in ScopeKinds /\ ParentScope(p).kind \in ScopeKinds
    BY CapturedScopes DEF Scope, ScopeKinds
  <2>2. ById(ids, p, ParentScope(p), Scope(kids.nodes, {})).nodes \subseteq ids
    BY <2>1, FindSymbolType DEF ById, CommandFilter
  <2>3. a \in ids
    BY <1>4, <1>6, <2>2
  <2> QED BY <1>1, <2>3, FindParentsLoads, RowsLink
<1> QED BY <1>5, <1>6

-----------------------------------------------------------------------------
(* No notification is lost.                                                *)

\* What a statement selects after a step.
LEMMA PlainNext ==
  ASSUME Typing, Typing', Plain, UNCHANGED <<db, plan>>
  PROVE  \A s \in Statements : /\ GetSelection(s)' = {} <=> reg'[s][1] = {}
                               /\ SelectionSome(s)' <=> reg'[s][1] # {}
                               /\ Nodes(s)' = IdsOf(reg'[s][1])
<1> TAKE s \in Statements
<1> PICK R : R = reg'
  OBVIOUS
<1>1. Keys(s) = {1} /\ 1 >= 1
  BY PlainKeys DEF Typing, TypedPlan
<1>2. \A k \in Keys(s) : R[s][k] \in Optional
  BY SameQuery, SameIndex DEF Typing, TypedRegistry, Registry
<1>3. GetSelection(s)' = Selection(s, R) /\ Nodes(s)' = IdsOf(Selection(s, R))
  BY SelectionIn
<1>4. IdsOf(Selection(s, R)) = UNION {IdsOf(R[s][k]) : k \in Gathered(s, R)}
  BY ONLY <1>2, SelectionType
<1>5. Gathered(s, R) = IF R[s][1] = {} THEN {} ELSE {1}
  BY <1>1 DEF Gathered
<1>6. Selection(s, R) = {} <=> R[s][1] = {}
  BY <1>5 DEF Selection
<1>7. IdsOf(Selection(s, R)) = IdsOf(R[s][1])
  BY <1>4, <1>5 DEF IdsOf
<1>8. SelectionSome(s)' <=> R[s][1] # {}
  <2>1. Keys(s)' = {1}
    BY <1>1, SameQuery
  <2> QED BY <2>1 DEF SelectionSome
<1> QED BY <1>3, <1>6, <1>7, <1>8

\* A statement with a scope has something to tell its statements, and a
\* statement of a scope the one around it.
LEMMA Kinship ==
  ASSUME Typing, NEW p \in Statements, NEW s \in Children(p)
  PROVE  /\ s \in Statements /\ s # p /\ q.parent[s] = p
         /\ [st |-> s, role |-> "Child", at |-> <<p, s>>] \in deps[p]
         /\ [st |-> p, role |-> "Parent", at |-> <<s, 0>>] \in deps[s]
<1>1. s \in Statements /\ s # p /\ q.parent[s] = p /\ p # 0
  BY DEF Typing, TypedPlan, WellFormed, Statements, Children
<1>2. deps[s] = DependentsOf(s) /\ deps[p] = DependentsOf(p)
  BY <1>1 DEF Typing, TypedPlan
<1>3. [st |-> p, role |-> "Parent", at |-> <<s, 0>>] \in DependentsOf(s)
  BY <1>1 DEF DependentsOf
<1>4. [st |-> s, role |-> "Child", at |-> <<p, s>>] \in DependentsOf(p)
  BY DEF DependentsOf
<1> QED BY <1>1, <1>2, <1>3, <1>4

\* A notification that tells its dependent's dependents of every change, only
\* narrows a selection that is there, and leaves what is related to its
\* sender.
LEMMA FollowNotified ==
  ASSUME Typing, Typing', Plain, ChildrenFollow, ParentsFollow, pc = "work", cur # 0,
         NEW d, d = Dependent.st, NEW new, NEW changed \in BOOLEAN, NEW constrained,
         Notified(new, changed, constrained),
         ~changed => /\ (new[1] = {}) <=> (reg[d][1] = {})
                     /\ IdsOf(new[1]) = IdsOf(reg[d][1]),
         reg[d][1] # {} => new[1] # {} /\ IdsOf(new[1]) \subseteq IdsOf(reg[d][1]),
         Dependent.role = "Child" =>
           /\ new[1] # {}
           /\ cur \notin weak => \A i \in IdsOf(new[1]) : \E a \in Nodes(cur) : Linked(d, a, i),
         Dependent.role = "Parent" /\ (\A c \in Children(d) : SelectionSome(c)) /\ Speaking(d) # {} =>
           /\ new[1] # {}
           /\ \A a \in IdsOf(new[1]) : \E c \in Children(d) : \E i \in Nodes(c) : Linked(c, a, i)
  PROVE  ChildrenFollow' /\ ParentsFollow'
<1>1. Updated(d, new, changed)
  BY NotifiedResult
<1>2. UNCHANGED <<db, plan, eph>> /\ q' = q /\ pc' = "work"
  BY DEF Notified, plan
<1>3. /\ d \in Statements /\ d # cur /\ cur \in Statements
      /\ \A s \in ToSet(work) : s \in ToSet(work')
      /\ changed => d \in ToSet(work')
      /\ reg'[d] = new
      /\ left' = left \ {Dependent} /\ cur' = IF left' = {} THEN 0 ELSE cur
      /\ \A s \in Statements \ {d} :
           GetSelection(s)' = GetSelection(s) /\ Nodes(s)' = Nodes(s)
  BY <1>1 DEF Updated
<1>4. \A s \in Statements : /\ GetSelection(s) = {} <=> reg[s][1] = {}
                            /\ Nodes(s) = IdsOf(reg[s][1])
                            /\ SelectionSome(s) <=> GetSelection(s) # {}
                            /\ SelectionSome(s)' <=> GetSelection(s)' # {}
  BY <1>2, PlainSelection, PlainNext
<1>5. (GetSelection(d)' = {} <=> new[1] = {}) /\ Nodes(d)' = IdsOf(new[1])
  BY <1>2, <1>3, PlainNext
<1>6. GetSelection(d) # {} => GetSelection(d)' # {} /\ Nodes(d)' \subseteq Nodes(d)
  BY <1>3, <1>4, <1>5
<1>7. ~changed => (GetSelection(d)' = {} <=> GetSelection(d) = {}) /\ Nodes(d)' = Nodes(d)
  BY <1>3, <1>4, <1>5
<1>8. /\ Plain' /\ Statements' = Statements /\ weak' = weak
      /\ \A s : Children(s)' = Children(s) /\ Echoes(s)' = Echoes(s)
      /\ \A s, a, i : Linked(s, a, i)' = Linked(s, a, i)
  BY <1>2, SamePlain, SameRows
<1>9. ASSUME NEW entry \in left, entry # Dependent
      PROVE  entry \in left' /\ cur' = cur
  BY <1>3, <1>9
<1>10. ASSUME NEW p \in Statements, NEW s \in Children(p), GetSelection(p)' # {}
       PROVE  p \in ToSet(work') \/ TellsChild(p, s)' \/ Told(p, s)'
  <2>1. s \in Statements /\ p # s
    BY DEF Children, Typing, TypedPlan, WellFormed, Statements
  <2>2. CASE p = d /\ changed
    BY <1>3, <2>2
  <2>3. CASE p # d \/ ~changed
    <3>1. GetSelection(p) # {} /\ Nodes(p)' = Nodes(p)
      BY <1>3, <1>7, <1>10, <2>1, <2>3
    <3>2. p \in ToSet(work) \/ TellsChild(p, s) \/ Told(p, s)
      BY <1>10, <2>1, <3>1 DEF ChildrenFollow
    <3>3. CASE Told(p, s)
      <4>1. GetSelection(s)' # {} /\ Nodes(s)' \subseteq Nodes(s)
        BY <1>3, <1>6, <2>1, <3>3 DEF Told
      <4> QED BY <1>8, <3>1, <3>3, <4>1 DEF Told
    <3>4. CASE TellsChild(p, s)
      <4> DEFINE entry == [st |-> s, role |-> "Child", at |-> <<p, s>>]
      <4>1. entry \in left /\ cur = p
        BY <3>4 DEF TellsChild
      <4>2. CASE entry = Dependent
        <5>1. s = d /\ Dependent.role = "Child"
          BY <4>2
        <5>2. /\ GetSelection(s)' # {}
              /\ cur \notin weak => \A i \in Nodes(s)' : \E a \in Nodes(p) : Linked(s, a, i)
          BY <1>5, <4>1, <5>1
        <5> QED BY <1>8, <3>1, <4>1, <5>2 DEF Told
      <4>3. CASE entry # Dependent
        <5>1. entry \in left' /\ cur' = p
          BY <1>9, <4>1, <4>3
        <5> QED BY <5>1 DEF TellsChild
      <4> QED BY <4>2, <4>3
    <3> QED BY <1>3, <3>2, <3>3, <3>4
  <2> QED BY <2>2, <2>3
<1>11. ASSUME NEW p \in Statements, \A c \in Children(p) : SelectionSome(c)', Speaking(p)' # {}
       PROVE  (\E c \in Children(p) : c \in ToSet(work') \/ TellsParent(c, p)') \/ Heard(p)'
  <2>1. \A c \in Children(p) : c \in Statements /\ c # p
    BY DEF Children, Typing, TypedPlan, WellFormed, Statements
  <2>2. CASE d \in Children(p) /\ changed
    BY <1>3, <2>2
  <2>3. CASE ~(d \in Children(p) /\ changed)
    <3>1. \A c \in Children(p) : (GetSelection(c)' = {} <=> GetSelection(c) = {}) /\ Nodes(c)' = Nodes(c)
      BY <1>3, <1>7, <2>1, <2>3
    <3>2. \A c \in Children(p) : SelectionSome(c)
      BY <1>4, <1>11, <2>1, <3>1
    <3>3. Speaking(p) # {}
      <4>1. Speaking(p)' = {c \in Children(p) : ~Echoes(c) /\ GetSelection(c)' # {}}
        BY <1>8 DEF Speaking
      <4> QED BY <1>11, <3>1, <4>1 DEF Speaking
    <3>4. (\E c \in Children(p) : c \in ToSet(work) \/ TellsParent(c, p)) \/ Heard(p)
      BY <3>2, <3>3 DEF ParentsFollow
    <3>5. CASE Heard(p)
      <4>1. GetSelection(p)' # {} /\ Nodes(p)' \subseteq Nodes(p)
        BY <1>3, <1>6, <3>5 DEF Heard
      <4> QED BY <1>8, <3>1, <3>5, <4>1 DEF Heard
    <3>6. ASSUME NEW c \in Children(p), TellsParent(c, p)
          PROVE  TellsParent(c, p)' \/ Heard(p)'
      <4> DEFINE entry == [st |-> p, role |-> "Parent", at |-> <<c, 0>>]
      <4>1. entry \in left /\ cur = c
        BY <3>6 DEF TellsParent
      <4>2. CASE entry = Dependent
        <5>1. p = d /\ Dependent.role = "Parent"
          BY <4>2
        <5>2. /\ GetSelection(p)' # {}
              /\ \A a \in Nodes(p)' : \E e \in Children(p) : \E i \in Nodes(e) : Linked(e, a, i)
          BY <1>5, <3>2, <3>3, <5>1
        <5> QED BY <1>8, <3>1, <5>2 DEF Heard
      <4>3. CASE entry # Dependent
        <5>1. entry \in left' /\ cur' = c
          BY <1>9, <4>1, <4>3
        <5> QED BY <5>1 DEF TellsParent
      <4> QED BY <4>2, <4>3
    <3> QED BY <1>3, <3>4, <3>5, <3>6
  <2> QED BY <2>2, <2>3
<1>12. ChildrenFollow'
  BY <1>2, <1>8, <1>10 DEF ChildrenFollow
<1>13. ParentsFollow'
  BY <1>2, <1>8, <1>11 DEF ParentsFollow
<1> QED BY <1>12, <1>13

LEMMA FollowPop ==
  ASSUME Typing, Typing', Plain, ChildrenFollow, ParentsFollow, PopNext
  PROVE  ChildrenFollow' /\ ParentsFollow'
<1>1. UNCHANGED <<db, eph, plan>> /\ pc = "work" /\ pc' = "work" /\ cur = 0 /\ left = {}
  BY DEF PopNext, Typing, TypedWork
<1>2. \A s \in Statements : reg'[s][1] = reg[s][1]
  BY PlainPop
<1>3. \A s \in Statements : /\ GetSelection(s)' = {} <=> GetSelection(s) = {}
                            /\ SelectionSome(s)' <=> SelectionSome(s)
                            /\ Nodes(s)' = Nodes(s)
  BY <1>1, <1>2, PlainSelection, PlainNext
<1>4. PICK t \in Statements :
        /\ ToSet(work') = ToSet(work) \ {t}
        /\ IF GetSelection(t)' # {} /\ deps[t] # {} THEN cur' = t /\ left' = deps[t]
           ELSE cur' = 0 /\ left' = {}
  BY PopResult
<1>5. /\ Plain' /\ Statements' = Statements /\ weak' = weak
      /\ \A s : Children(s)' = Children(s) /\ Echoes(s)' = Echoes(s)
      /\ \A s, a, i : Linked(s, a, i)' = Linked(s, a, i)
  BY <1>1, SamePlain, SameRows
<1>6. ASSUME NEW p \in Statements, NEW s \in Children(p), GetSelection(p)' # {}
      PROVE  p \in ToSet(work') \/ TellsChild(p, s)' \/ Told(p, s)'
  <2>1. s \in Statements /\ [st |-> s, role |-> "Child", at |-> <<p, s>>] \in deps[p]
    BY Kinship
  <2>2. p \in ToSet(work) \/ Told(p, s)
    <3>1. p \in ToSet(work) \/ TellsChild(p, s) \/ Told(p, s)
      BY <1>1, <1>3, <1>6 DEF ChildrenFollow
    <3> QED BY <1>1, <3>1 DEF TellsChild
  <2>3. CASE Told(p, s)
    BY <1>3, <1>5, <2>1, <2>3 DEF Told
  <2>4. CASE p \in ToSet(work) /\ p = t
    <3>1. cur' = p /\ [st |-> s, role |-> "Child", at |-> <<p, s>>] \in left'
      BY <1>4, <1>6, <2>1, <2>4
    <3> QED BY <3>1 DEF TellsChild
  <2>5. CASE p \in ToSet(work) /\ p # t
    BY <1>4, <2>5
  <2> QED BY <2>2, <2>3, <2>4, <2>5
<1>7. ASSUME NEW p \in Statements, \A c \in Children(p) : SelectionSome(c)', Speaking(p)' # {}
      PROVE  (\E c \in Children(p) : c \in ToSet(work') \/ TellsParent(c, p)') \/ Heard(p)'
  <2>1. \A c \in Children(p) : c \in Statements /\ [st |-> p, role |-> "Parent", at |-> <<c, 0>>] \in deps[c]
    BY Kinship
  <2>2. Speaking(p) # {}
    <3>1. Speaking(p)' = {c \in Children(p) : ~Echoes(c) /\ GetSelection(c)' # {}}
      BY <1>5 DEF Speaking
    <3> QED BY <1>3, <1>7, <2>1, <3>1 DEF Speaking
  <2>3. (\E c \in Children(p) : c \in ToSet(work)) \/ Heard(p)
    <3>1. (\E c \in Children(p) : c \in ToSet(work) \/ TellsParent(c, p)) \/ Heard(p)
      BY <1>1, <1>3, <1>7, <2>1, <2>2 DEF ParentsFollow
    <3> QED BY <1>1, <3>1 DEF TellsParent
  <2>4. CASE Heard(p)
    BY <1>3, <1>5, <2>1, <2>4 DEF Heard
  <2>5. ASSUME NEW c \in Children(p), c \in ToSet(work)
        PROVE  c \in ToSet(work') \/ TellsParent(c, p)'
    <3>1. CASE c = t
      <4>1. GetSelection(c)' # {}
        BY <1>1, <1>7, <2>1, PlainNext
      <4>2. cur' = c /\ [st |-> p, role |-> "Parent", at |-> <<c, 0>>] \in left'
        BY <1>4, <2>1, <3>1, <4>1
      <4> QED BY <4>2 DEF TellsParent
    <3>2. CASE c # t
      BY <1>4, <2>5, <3>2
    <3> QED BY <3>1, <3>2
  <2> QED BY <2>3, <2>4, <2>5
<1>8. ChildrenFollow'
  BY <1>1, <1>5, <1>6 DEF ChildrenFollow
<1>9. ParentsFollow'
  BY <1>1, <1>5, <1>7 DEF ParentsFollow
<1> QED BY <1>8, <1>9

LEMMA FollowParent ==
  ASSUME Typing, Typing', Plain, RowsLoaded, ChildrenFollow, ParentsFollow, NotifyParent
  PROVE  ChildrenFollow' /\ ParentsFollow'
<1>1. PICK p \in Statements :
         /\ p = Dependent.st /\ Dependent.role = "Parent" /\ cur # 0 /\ pc = "work"
         /\ IF Deferred(p) THEN Notified(reg[p], FALSE, {})
            ELSE Notified(FromKids(p), KidsChange(p), {k \in Keys(p) : reg[p][k] # {}})
  <2>1. cur # 0 /\ Dependent.role = "Parent" /\ pc = "work"
    BY DEF NotifyParent
  <2>2. Dependent.st \in Statements
    BY <2>1, DependentIsLeft, DependentsType DEF Typing, TypedPlan
  <2> QED BY <2>1, <2>2 DEF NotifyParent, FromKids, KidsChange
<1>2. cur \in Statements /\ cur \in Children(p) /\ Keys(p) = {1} /\ Registry(reg)
  <2>1. Dependent \in DependentsOf(cur) /\ cur \in Statements
    BY <1>1, DependentIsLeft
  <2>2. p = q.parent[cur]
    BY <1>1, <2>1, DependentsType DEF Typing, TypedPlan
  <2> QED BY <2>1, <2>2, PlainKeys DEF Typing, TypedPlan, TypedRegistry, Children
<1>3. p = Dependent.st /\ cur # 0 /\ pc = "work" /\ Dependent.role # "Child"
  BY <1>1
<1>4. CASE Deferred(p)
  <2> PICK new, changed, constrained : new = reg[p] /\ changed = FALSE /\ constrained = {}
    OBVIOUS
  <2>1. Notified(new, changed, constrained)
    BY <1>1, <1>4
  <2>2. ~ ((\A c \in Children(p) : SelectionSome(c)) /\ Speaking(p) # {})
    BY <1>4 DEF Deferred
  <2>3. /\ changed \in BOOLEAN
        /\ ~changed => ((new[1] = {}) <=> (reg[p][1] = {})) /\ IdsOf(new[1]) = IdsOf(reg[p][1])
        /\ reg[p][1] # {} => new[1] # {} /\ IdsOf(new[1]) \subseteq IdsOf(reg[p][1])
    OBVIOUS
  <2> QED BY <1>3, <2>1, <2>2, <2>3, FollowNotified, SMTT(60)
<1>5. CASE ~Deferred(p)
  <2> PICK new, changed : new = FromKids(p) /\ changed = KidsChange(p)
    OBVIOUS
  <2> DEFINE constrained == {k \in Keys(p) : reg[p][k] # {}}
  <2>1. Notified(new, changed, constrained)
    BY <1>1, <1>5
  <2>2. new[1] = FromChildren(p, 1)
    BY <1>2 DEF FromKids
  <2>3. /\ new[1] \in Optional /\ new[1] # {}
        /\ reg[p][1] # {} => IdsOf(new[1]) \subseteq IdsOf(reg[p][1])
    BY <1>2, <2>2, FromChildrenType
  <2>4. changed \in BOOLEAN /\ ~changed => reg[p][1] # {} /\ IdsOf(new[1]) = IdsOf(reg[p][1])
    BY <1>2, <2>2 DEF KidsChange, Narrower, FromKids
  <2>5. ASSUME NEW a \in IdsOf(new[1])
        PROVE  \E c \in Children(p) : \E i \in Nodes(c) : Linked(c, a, i)
    <3>1. PICK x \in new[1] : a \in x.nodes
      BY DEF IdsOf
    <3> QED BY <1>2, <2>2, <3>1, HeardFromChildren
  <2>6. changed \in BOOLEAN
    BY DEF KidsChange
  <2> HIDE DEF constrained
  <2> QED BY <1>3, <2>1, <2>3, <2>4, <2>5, <2>6, FollowNotified, SMTT(60)
<1> QED BY <1>4, <1>5

LEMMA FollowOther ==
  ASSUME Typing, Typing', Plain, RowsLoaded, ChildrenFollow, ParentsFollow, NotifyOther
  PROVE  ChildrenFollow' /\ ParentsFollow'
<1>1. PICK d \in Statements, role \in {"Child", "User"} :
         /\ d = Dependent.st /\ role = Dependent.role /\ cur # 0 /\ pc = "work"
         /\ Notified(FromKin(d, role), KinChange(d, role),
                     {k \in Keys(d) : Constrained(d, k, role) /\ ~Uses(d, k)})
  BY KinSteps
<1>2. /\ cur \in Statements /\ GetSelection(cur) # {} /\ Registry(reg) /\ Registry(once)
      /\ Keys(d) = {1} /\ ~Uses(d, 1) /\ Kind(d, 1) # "useForced"
  BY <1>1, PlainKeys DEF Typing, TypedPlan, TypedWork, TypedRegistry
<1> PICK new, changed : new = FromKin(d, role) /\ changed = KinChange(d, role)
  OBVIOUS
<1> DEFINE constrained == {k \in Keys(d) : Constrained(d, k, role) /\ ~Uses(d, k)}
<1>3. Notified(new, changed, constrained)
  BY <1>1
<1>4. new[1] = Accepted(d, 1, role)
  BY <1>2 DEF FromKin
<1>5. Derives(d, 1, role) => reg[d][1] = {} /\ new[1] # {}
  <2>1. Derives(d, 1, role) => reg[d][1] = {} /\ role = "Child"
    BY <1>2 DEF Derives, Addressed
  <2> QED BY <1>4, <2>1 DEF Accepted, Constrained
<1>6. ~Derives(d, 1, role) => /\ IdsOf(new[1]) \subseteq IdsOf(reg[d][1])
                              /\ reg[d][1] # {} <=> new[1] # {}
  BY <1>2, <1>4, AcceptedType
<1>7. ~changed => ((new[1] = {}) <=> (reg[d][1] = {})) /\ IdsOf(new[1]) = IdsOf(reg[d][1])
  <2>1. ~changed => ~Derives(d, 1, role) /\ IdsOf(new[1]) = IdsOf(reg[d][1])
    BY <1>2, <1>4 DEF KinChange, Narrower, FromKin
  <2> QED BY <1>6, <2>1
<1>8. reg[d][1] # {} => new[1] # {} /\ IdsOf(new[1]) \subseteq IdsOf(reg[d][1])
  BY <1>5, <1>6
<1>9. ASSUME role = "Child"
      PROVE  /\ new[1] # {}
             /\ cur \notin weak => \A i \in IdsOf(new[1]) : \E a \in Nodes(cur) : Linked(d, a, i)
  <2>1. reg[d][1] = {} => Derives(d, 1, role)
    BY <1>9 DEF Derives, Addressed
  <2>2. ASSUME cur \notin weak, NEW i \in IdsOf(new[1])
        PROVE  \E a \in Nodes(cur) : Linked(d, a, i)
    <3>1. Derives(d, 1, "Child") \/ Constrained(d, 1, "Child")
      BY <1>9, <2>2 DEF Constrained, Addressed
    <3>2. PICK x \in Accepted(d, 1, "Child") : i \in x.nodes
      BY <1>4, <1>9, <2>2 DEF IdsOf
    <3> QED BY <1>2, <3>1, <3>2, ToldByParent
  <2> QED BY <1>5, <1>8, <2>1, <2>2
<1>10. changed \in BOOLEAN
  BY DEF KinChange
<1>11. d = Dependent.st /\ role = Dependent.role /\ Dependent.role # "Parent" /\ cur # 0 /\ pc = "work"
  BY <1>1
<1> HIDE DEF constrained
<1> QED BY <1>3, <1>7, <1>8, <1>9, <1>10, <1>11, FollowNotified, SMTT(60)

LEMMA FollowNext ==
  ASSUME Typing, Typing', RowsLoaded, ChildrenFollow, ParentsFollow, [Next]_vars
  PROVE  ChildrenFollow' /\ ParentsFollow'
<1>1. UNCHANGED plan
  <2>1. CASE NotifyParent \/ NotifyOther
    BY <2>1, ParentSteps, KinSteps DEF Notified
  <2>2. CASE Outcome
    BY <2>2, OutcomeFrame
  <2>3. CASE Push \/ Materialise \/ Drain \/ Seed \/ PopNext
    BY <2>3 DEF Push, Materialise, Drain, Seed, PopNext
  <2> QED BY <2>1, <2>2, <2>3, Steps
<1> SUFFICES ASSUME Plain
             PROVE  ChildrenFollow' /\ ParentsFollow'
  BY <1>1, SamePlain DEF ChildrenFollow, ParentsFollow
<1>2. CASE Push \/ Materialise \/ Drain
  BY <1>2 DEF Push, Materialise, Drain, ChildrenFollow, ParentsFollow
<1>3. CASE Seed
  <2>1. /\ UNCHANGED <<db, plan, reg>>
        /\ work' = InOrder({s \in Statements : GetSelection(s) # {}})
    BY <1>3 DEF Seed
  <2>2. ToSet(work') = {s \in Statements : GetSelection(s) # {}}
    <3>1. {s \in Statements : GetSelection(s) # {}} \subseteq Statements /\ q.n \in Nat
      BY DEF Typing, TypedPlan, WellFormed
    <3> QED BY <2>1, <3>1, InOrderType
  <2>3. \A s \in Statements : GetSelection(s)' # {} => s \in ToSet(work')
    BY <2>1, <2>2, SameRegistry
  <2>4. Statements' = Statements /\ \A s : Children(s)' = Children(s)
    BY <1>1, SamePlain
  <2>5. ChildrenFollow'
    BY <2>3, <2>4 DEF ChildrenFollow
  <2>6. ASSUME NEW p \in Statements, Speaking(p)' # {}
        PROVE  \E c \in Children(p) : c \in ToSet(work')
    <3>1. PICK c \in Children(p) : GetSelection(c)' # {}
      BY <2>4, <2>6 DEF Speaking
    <3>2. c \in Statements
      BY DEF Children
    <3> QED BY <2>3, <3>1, <3>2
  <2> QED BY <2>4, <2>5, <2>6 DEF ParentsFollow
<1>4. CASE PopNext
  BY <1>4, FollowPop
<1>5. CASE NotifyParent
  BY <1>5, FollowParent
<1>6. CASE NotifyOther
  BY <1>6, FollowOther
<1>7. CASE Outcome
  <2>1. UNCHANGED <<db, plan, reg, eph>> /\ work' = work /\ left' = left /\ cur' = cur
    BY <1>7, OutcomeFrame
  <2>2. pc' \in {"work", "done"} => pc \in {"work", "done"}
    BY <1>7 DEF Outcome, PushPanics, UseUnresolved, Finish, FinishWithoutImplicit, Answer, Abort, Dry, vars
  <2>3. /\ Plain' = Plain /\ Statements' = Statements /\ weak' = weak
        /\ \A s : /\ Children(s)' = Children(s) /\ Speaking(s)' = Speaking(s)
                  /\ SelectionSome(s)' = SelectionSome(s)
    <3>1. \A s : SelectionSome(s)' = SelectionSome(s)
      BY <2>1, SamePlain DEF SelectionSome
    <3> QED BY <2>1, <3>1, SamePlain, SameRegistry DEF Speaking
  <2>4. \A p, s : /\ TellsChild(p, s)' = TellsChild(p, s) /\ Told(p, s)' = Told(p, s)
                  /\ TellsParent(s, p)' = TellsParent(s, p) /\ Heard(p)' = Heard(p)
    BY <2>1, <2>3, SameRows, SameRegistry DEF TellsChild, Told, TellsParent, Heard
  <2>5. ChildrenFollow'
    BY <2>1, <2>2, <2>3, <2>4, SameRegistry DEF ChildrenFollow
  <2>6. ParentsFollow'
    BY <2>1, <2>2, <2>3, <2>4 DEF ParentsFollow
  <2> QED BY <2>5, <2>6
<1> QED BY <1>2, <1>3, <1>4, <1>5, <1>6, <1>7, Steps

Followed == RowsLoaded /\ ChildrenFollow /\ ParentsFollow

LEMMA FollowedInvariance == Spec => []Followed
<1>1. Init => Followed
  BY RowsLoadedInit DEF Init, Followed, ChildrenFollow, ParentsFollow
<1>2. Typing /\ Typing' /\ Followed /\ [Next]_vars => Followed'
  BY RowsLoadedNext, FollowNext DEF Followed
<1> QED BY <1>1, <1>2, ExecutorTyped, PTL DEF Spec

\* When the worklist is empty the constraints have reached a fixpoint, both
\* ways: notify_selected and accept_notification, with the deferral of a
\* parent until all of its scope can speak, leave no node behind that is not
\* related to one of the statement around it, and none that no statement of
\* its scope is related to.
THEOREM FixpointReached == Spec => []EveryNodeIsRelated
<1>1. Typing /\ Followed => EveryNodeIsRelated
  <2> SUFFICES ASSUME Typing, Followed, pc = "done", Plain,
                      NEW s \in Statements, NEW p, p = q.parent[s], p # 0
               PROVE  /\ p \notin weak /\ GetSelection(p) # {} =>
                           \A i \in Nodes(s) : \E a \in Nodes(p) : Linked(s, a, i)
                      /\ ~Echoes(s) =>
                           \A a \in Nodes(p) : \E c \in Children(p) : \E i \in Nodes(c) : Linked(s, a, i)
    BY DEF EveryNodeIsRelated, Plain, Linked
  <2>1. work = <<>> /\ cur = 0
    BY DEF Typing, TypedPhases
  <2>2. p \in Statements /\ s \in Children(p) /\ 0 \notin Statements /\ \A t : t \notin ToSet(work)
    BY <2>1 DEF Typing, TypedPlan, WellFormed, Statements, Children, ToSet
  <2>3. GetSelection(p) # {} => \A c \in Children(p) : Told(p, c)
    BY <2>1, <2>2 DEF Followed, ChildrenFollow, TellsChild, Statements
  <2>4. ASSUME ~Echoes(s), NEW a \in Nodes(p)
        PROVE  \E c \in Children(p) : \E i \in Nodes(c) : Linked(s, a, i)
    <3>1. GetSelection(p) # {}
      BY <2>4 DEF Nodes, IdsOf
    <3>2. \A c \in Children(p) : c \in Statements /\ SelectionSome(c)
      BY <2>3, <3>1, PlainSelection DEF Told, Children
    <3>3. s \in Speaking(p)
      BY <2>2, <2>3, <2>4, <3>1 DEF Speaking, Told
    <3>4. Heard(p)
      <4>1. ~ \E c \in Children(p) : c \in ToSet(work) \/ TellsParent(c, p)
        BY <2>1, <2>2, <3>2 DEF TellsParent
      <4> QED BY <2>2, <3>2, <3>3, <4>1 DEF Followed, ParentsFollow
    <3>5. PICK c \in Children(p) : \E i \in Nodes(c) : Linked(c, a, i)
      BY <2>4, <3>4 DEF Heard
    <3>6. q.rel[c] = q.rel[s]
      BY <2>2, <3>2 DEF Typing, TypedPlan, WellFormed, Statements, Children
    <3> QED BY <3>5, <3>6 DEF Linked
  <2> QED BY <2>2, <2>3, <2>4 DEF Told
<1> QED BY <1>1, ExecutorTyped, FollowedInvariance, PTL DEF Spec

-----------------------------------------------------------------------------
(* Trees of names: what the statements load is enough.                     *)

Named == OneSelector({"name"})
Fits(s, i) == Accepts(NameFilter(s, 1), i)

\* What a statement captures when it is queued before anything is computed.
Fresh(p) ==
  /\ q.parent[p.st] # 0 => p.parents = Scope({}, {NameFilter(q.parent[p.st], 1)})
  /\ Children(p.st) # {} => p.children = Scope({}, {NameFilter(c, 1) : c \in Children(p.st)})

\* A selection has the rows that can matter to its statement.
Supplied(s, x) ==
  /\ x.nodes \subseteq Matching(s)
  /\ \A e \in RefRows(Visible(eph)) :
       /\ q.parent[s] # 0 /\ Fits(s, e.to) /\ Fits(q.parent[s], e.from) => e \in x.parents
       /\ \A c \in Children(s) : Fits(s, e.from) /\ Fits(c, e.to) => e \in x.children
  /\ \A h \in HasRows(Visible(eph)) :
       (Fits(s, h.child) => h \in x.hp) /\ (Fits(s, h.parent) => h \in x.hc)

\* Sets of nodes that support each other.  Every set that Reached computes
\* is part of such a match.
IsMatch(M) ==
  \A s \in Statements :
    /\ M[s] \subseteq Matching(s)
    /\ \A i \in M[s] :
         /\ q.parent[s] # 0 => \E a \in M[q.parent[s]] : Linked(s, a, i)
         /\ Children(s) # {} => \E c \in Children(s) : \E b \in M[c] : Linked(c, i, b)

\* Whatever takes part in a match has been selected and never goes away.
Complete ==
  Named =>
    /\ weak = {}
    /\ nxt <= q.n => computed = {}
    /\ pc = "drain" => nxt = q.n + 1
    /\ \A p \in pending : Fresh(p)
    /\ \A s \in computed :
         /\ reg[s][1] # {} /\ \A x \in reg[s][1] : Supplied(s, x)
         /\ \A M : IsMatch(M) => M[s] \subseteq IdsOf(reg[s][1])

LEMMA NamedIsPlain ==
  ASSUME WellFormed(q), Named
  PROVE  Plain /\ \A s \in Statements : Keys(s) = {1} /\ Kind(s, 1) = "name"
<1>1. Plain /\ \A s \in Statements : Kind(s, 1) = "name"
  BY DEF Named, Plain, OneSelector
<1> QED BY <1>1, PlainKeys

LEMMA SameMatch ==
  ASSUME UNCHANGED <<db, eph, plan>>
  PROVE  /\ Named' = Named /\ weak' = weak /\ q' = q
         /\ \A s, x : Supplied(s, x)' = Supplied(s, x)
         /\ \A M : IsMatch(M)' = IsMatch(M)
         /\ \A p : Fresh(p)' = Fresh(p)
<1>1. q' = q /\ weak' = weak /\ db' = db
  BY DEF plan
<1>2. /\ Statements' = Statements /\ \A s : Children(s)' = Children(s)
      /\ Named' = Named /\ \A s, k : NameFilter(s, k)' = NameFilter(s, k)
  BY <1>1, SameQuery DEF Named, NameFilter
<1>3. \A s, i : Fits(s, i)' = Fits(s, i)
  BY <1>1, <1>2, SameRows DEF Fits, Accepts
<1>4. \A s : Matching(s)' = Matching(s)
  BY <1>3, SameRows DEF Matching, Fits
<1>5. \A s, x : Supplied(s, x)' = Supplied(s, x)
  BY <1>1, <1>2, <1>3, <1>4, SameRows DEF Supplied
<1>6. \A M : IsMatch(M)' = IsMatch(M)
  BY <1>1, <1>2, <1>4, SameRows DEF IsMatch
<1>7. \A p : Fresh(p)' = Fresh(p)
  BY <1>1, <1>2 DEF Fresh
<1> QED BY <1>1, <1>2, <1>5, <1>6, <1>7

\* Whether an instance fits is a matter of its symbol.
LEMMA FitsBySymbol ==
  ASSUME NEW s, NEW i, NEW j, SymOf(i) = SymOf(j), Fits(s, i)
  PROVE  Fits(s, j)
BY DEF Fits, Accepts

\* A batch that knows the filters of its scopes loads all that fits them.
LEMMA QuerySupplies ==
  ASSUME Typing, Named, NEW p \in pending, p.eph = {}, Fresh(p), p.st \in Statements
  PROVE  /\ Supplied(p.st, Query(p, NameFilter(p.st, 1)))
         /\ Query(p, NameFilter(p.st, 1)).nodes = Matching(p.st)
<1> DEFINE refs == LoadRefs({}, FALSE, [vis \in Views({}) |-> RefRows(vis)])
           has == LoadHas({}, FALSE, [vis \in Views({}) |-> HasRows(vis)])
           fit == {i \in DOMAIN db.inst : Fits(p.st, i)}
           current == fit \cap LoadCurrent({})
           x == Query(p, NameFilter(p.st, 1))
<1>1. Visible(eph) = Roots /\ LocalEph(p) = {} /\ WellFormed(q)
  BY NoLayers, NamedIsPlain, PlainKeys DEF LocalEph, Typing, TypedPlan
<1>2. x = [nodes |-> current,
           parents |-> Scoped(RefsInto(refs, current), p.parents, "from"),
           children |-> Scoped(RefsOutOf(refs, current), p.children, "to"),
           hp |-> has \cap [parent : DOMAIN db.inst, child : current],
           hc |-> has \cap [parent : current, child : DOMAIN db.inst]]
  BY <1>1 DEF Query, FindSymbol, Fits
<1>3. /\ refs = RefRows(Roots) /\ has = HasRows(Roots) /\ LoadCurrent({}) = CurrentRows(Roots)
  <2>1. /\ [vis \in Views({}) |-> RefRows(vis)][Roots] = RefRows(Roots)
        /\ [vis \in Views({}) |-> HasRows(vis)][Roots] = HasRows(Roots)
        /\ [vis \in Views({}) |-> CurrentRows(vis)][Roots] = CurrentRows(Roots)
    BY DEF Views
  <2>2. FALSE \in BOOLEAN
    OBVIOUS
  <2> QED BY <2>1, <2>2, RootLoads DEF LoadCurrent, CachedLoad, Branches
<1>4. current = Matching(p.st) /\ Matching(p.st) \subseteq DOMAIN db.inst
  BY <1>1, <1>3 DEF Matching, CurrentRows, Fits
<1> HIDE DEF refs, has, current, x, fit
<1>5. ASSUME NEW e \in RefRows(Roots)
      PROVE  /\ e \in [ref : DOMAIN db.ref, from : DOMAIN db.inst, to : DOMAIN db.inst]
             /\ e.from \in CurrentRows(Roots) /\ e.to \in CurrentRows(Roots)
             /\ e = [ref |-> e.ref, from |-> e.from, to |-> e.to]
  BY DEF RefRows, CurrentRows
<1>6. ASSUME NEW h \in HasRows(Roots)
      PROVE  /\ h \in [parent : DOMAIN db.inst, child : DOMAIN db.inst]
             /\ h.parent \in CurrentRows(Roots) /\ h.child \in CurrentRows(Roots)
  BY DEF HasRows, CurrentRows
<1>7. \A i \in CurrentRows(Roots) : Fits(p.st, i) => i \in current
  BY <1>1, <1>4 DEF Matching, Fits
<1>8. ASSUME NEW e \in RefRows(Roots), q.parent[p.st] # 0, Fits(p.st, e.to), Fits(q.parent[p.st], e.from)
      PROVE  e \in x.parents
  <2>1. e \in RefsInto(refs, current)
    BY <1>3, <1>5, <1>7, <1>8 DEF RefsInto
  <2>2. p.parents = Scope({}, {NameFilter(q.parent[p.st], 1)})
    BY <1>8 DEF Fresh
  <2> QED BY <1>2, <1>8, <2>1, <2>2 DEF Scoped, Scope, Fits
<1>9. ASSUME NEW e \in RefRows(Roots), NEW c \in Children(p.st), Fits(p.st, e.from), Fits(c, e.to)
      PROVE  e \in x.children
  <2>1. e \in RefsOutOf(refs, current)
    BY <1>3, <1>5, <1>7, <1>9 DEF RefsOutOf
  <2>2. p.children = Scope({}, {NameFilter(d, 1) : d \in Children(p.st)})
    BY <1>9 DEF Fresh
  <2> QED BY <1>2, <1>9, <2>1, <2>2 DEF Scoped, Scope, Fits
<1>10. ASSUME NEW h \in HasRows(Roots)
       PROVE  (Fits(p.st, h.child) => h \in x.hp) /\ (Fits(p.st, h.parent) => h \in x.hc)
  BY <1>2, <1>3, <1>6, <1>7
<1>11. x.nodes = Matching(p.st)
  BY <1>2, <1>4
<1> QED BY <1>1, <1>8, <1>9, <1>10, <1>11 DEF Supplied, x

LEMMA ConstraintSupplies ==
  ASSUME NEW sel \in Selections, NEW s, Supplied(s, sel),
         NEW dep, NEW role \in {"Parent", "Child", "User"}, NEW rel
  PROVE  Supplied(s, ConstrainSelection(sel, dep, role, rel))
<1>1. ASSUME NEW nodes, nodes \subseteq sel.nodes
      PROVE  Supplied(s, [sel EXCEPT !.nodes = nodes])
  <2> DEFINE new == [sel EXCEPT !.nodes = nodes]
  <2>1. /\ new.nodes = nodes /\ new.parents = sel.parents /\ new.children = sel.children
        /\ new.hp = sel.hp /\ new.hc = sel.hc
    BY DEF Selections
  <2> HIDE DEF new
  <2>2. Supplied(s, new)
    BY <1>1, <2>1 DEF Supplied
  <2> QED BY <2>2 DEF new
<1>2. CASE role = "Parent"
  BY <1>1, <1>2 DEF ConstrainSelection, ConstrainByChild
<1>3. CASE role = "Child"
  BY <1>1, <1>3 DEF ConstrainSelection, ConstrainByParent
<1>4. CASE role = "User"
  BY <1>1, <1>4 DEF ConstrainSelection, ConstrainByOwner
<1> QED BY <1>2, <1>3, <1>4

\* All statements are computed when the worklist runs.
LEMMA AllSupplied ==
  ASSUME Typing, Named, Complete, pc \in {"work", "done"}
  PROVE  /\ weak = {} /\ eph = {} /\ Visible(eph) = Roots
         /\ \A s \in Statements :
              /\ Keys(s) = {1} /\ Kind(s, 1) = "name"
              /\ reg[s][1] # {} /\ reg[s][1] \in Optional /\ reg[s][1] = {Only(reg[s][1])}
              /\ Only(reg[s][1]) \in Selections /\ Supplied(s, Only(reg[s][1]))
              /\ Nodes(s) = IdsOf(reg[s][1]) /\ GetSelection(s) # {} /\ SelectionSome(s)
              /\ \A M : IsMatch(M) => M[s] \subseteq Nodes(s)
<1>1. WellFormed(q) /\ Plain
  BY NamedIsPlain DEF Typing, TypedPlan
<1>2. Statements = computed
  <2>1. pending = {} /\ nxt = q.n + 1 /\ q.n \in Nat
    BY <1>1 DEF Typing, TypedPhases, Rooted, WellFormed
  <2>2. {p.st : p \in pending} = {} /\ nxt - 1 = q.n
    BY <2>1
  <2>3. computed \cup {p.st : p \in pending} = 1 .. nxt - 1
    BY DEF Typing, TypedRoots
  <2> QED BY <2>2, <2>3 DEF Statements
<1>3. weak = {} /\ eph = {} /\ Visible(eph) = Roots
  BY <1>1, NoLayers DEF Complete
<1>4. ASSUME NEW s \in Statements
      PROVE  /\ Keys(s) = {1} /\ Kind(s, 1) = "name"
             /\ reg[s][1] # {} /\ reg[s][1] \in Optional /\ reg[s][1] = {Only(reg[s][1])}
             /\ Only(reg[s][1]) \in Selections
  <2>1. Keys(s) = {1} /\ Kind(s, 1) = "name"
    BY <1>1, NamedIsPlain
  <2>2. reg[s][1] \in Optional /\ reg[s][1] # {}
    BY <1>2, <2>1 DEF Complete, Typing, TypedRegistry, Registry
  <2> QED BY <2>1, <2>2, OptionalType
<1>5. ASSUME NEW s \in Statements
      PROVE  /\ Supplied(s, Only(reg[s][1]))
             /\ Nodes(s) = IdsOf(reg[s][1]) /\ GetSelection(s) # {} /\ SelectionSome(s)
             /\ \A M : IsMatch(M) => M[s] \subseteq Nodes(s)
  BY <1>1, <1>2, <1>4, PlainSelection DEF Complete
<1> QED BY <1>3, <1>4, <1>5

\* So is what a statement tells its dependents.
LEMMA SelectionSupplied ==
  ASSUME Typing, Named, Complete, pc = "work", NEW s \in Statements
  PROVE  /\ GetSelection(s) = {Only(GetSelection(s))}
         /\ Only(GetSelection(s)).nodes = Nodes(s) /\ Supplied(s, Only(GetSelection(s)))
<1> DEFINE x == Only(GetSelection(s))
           o == Only(reg[s][1])
<1>1. Plain
  BY NamedIsPlain DEF Typing, TypedPlan
<1>2. GetSelection(s) \in Optional /\ GetSelection(s) # {}
  BY <1>1, AllSupplied, PlainSelection
<1>3. GetSelection(s) = {x} /\ x.nodes = Nodes(s)
  BY <1>2, OptionalType DEF Nodes
<1>4. GetSelection(s) = {Extend(reg[s][1])}
  <2>1. Gathered(s, reg) = {1}
    BY AllSupplied DEF Gathered
  <2>2. UNION {reg[s][k] : k \in Gathered(s, reg)} = reg[s][1]
    BY <2>1
  <2> QED BY <2>1, <2>2 DEF GetSelection, Selection
<1>5. x = Extend({o}) /\ Supplied(s, o)
  BY <1>3, <1>4, AllSupplied
<1> HIDE DEF x, o
<1>6. /\ x.nodes = o.nodes /\ x.parents = o.parents /\ x.children = o.children
      /\ x.hp = o.hp /\ x.hc = o.hc
  BY <1>5 DEF Extend
<1> QED BY <1>3, <1>5, <1>6 DEF Supplied, x

\* A constraint by the enclosing statement keeps what takes part in a match.
LEMMA KeptByParent ==
  ASSUME Typing, Named, Complete, pc = "work", cur \in Statements, NEW d \in Statements,
         NEW role \in {"Child", "User"}, role = "Child" => d \in Children(cur)
  PROVE  /\ Accepted(d, 1, role) # {} /\ \A x \in Accepted(d, 1, role) : Supplied(d, x)
         /\ \A M : IsMatch(M) => M[d] \subseteq IdsOf(Accepted(d, 1, role))
<1> DEFINE sel == Only(reg[d][1])
           parent == Only(GetSelection(cur))
<1>1. /\ sel \in Selections /\ Supplied(d, sel) /\ reg[d][1] = {sel} /\ ~Derives(d, 1, role)
      /\ IdsOf(reg[d][1]) = sel.nodes /\ \A M : IsMatch(M) => M[d] \subseteq sel.nodes
  <2>1. ~Derives(d, 1, role)
    BY AllSupplied DEF Derives
  <2> QED BY <2>1, AllSupplied, OptionalType
<1>2. CASE ~Constrained(d, 1, role)
  BY <1>1, <1>2 DEF Accepted
<1>3. CASE Constrained(d, 1, role)
  <2>1. role = "Child" /\ d \in Children(cur)
    BY <1>3, AllSupplied DEF Constrained, Addressed, Uses
  <2>2. Accepted(d, 1, role) = {ConstrainSelection(sel, parent, "Child", q.rel[d])}
    BY <1>3, <2>1 DEF Accepted
  <2>3. Supplied(d, ConstrainSelection(sel, parent, "Child", q.rel[d]))
    BY <1>1, ConstraintSupplies
  <2>4. parent.nodes = Nodes(cur) /\ Supplied(cur, parent)
    BY SelectionSupplied
  <2> HIDE DEF parent, sel
  <2>5. ASSUME NEW M, IsMatch(M), NEW i \in M[d]
        PROVE  i \in ConstrainByParent(sel, parent, q.rel[d]).nodes
    <3>1. q.parent[d] = cur /\ cur # 0 /\ i \in sel.nodes /\ i \in Matching(d)
      <4>1. cur # 0
        BY DEF Typing, TypedPlan, WellFormed, Statements
      <4>2. i \in sel.nodes
        BY <1>1, <2>5
      <4>3. i \in Matching(d)
        BY <2>5 DEF IsMatch
      <4> QED BY <2>1, <4>1, <4>2, <4>3 DEF Children
    <3>2. PICK a \in M[cur] : Linked(d, a, i)
      BY <2>5, <3>1 DEF IsMatch
    <3>3. a \in parent.nodes /\ Fits(cur, a) /\ Fits(d, i)
      <4>1. a \in Nodes(cur)
        BY <2>5, AllSupplied
      <4>2. a \in Matching(cur)
        BY <2>5 DEF IsMatch
      <4> QED BY <2>4, <3>1, <4>1, <4>2 DEF Matching, Fits
    <3>4. CASE "refs" \in q.rel[d] /\ <<SymOf(a), SymOf(i)>> \in CallPairs
      <4>1. PICK e \in RefRows(Visible(eph)) : SymOf(e.from) = SymOf(a) /\ SymOf(e.to) = SymOf(i)
        BY <3>4 DEF CallPairs
      <4>2. e \in parent.children
        BY <2>1, <2>4, <3>3, <4>1, FitsBySymbol DEF Supplied
      <4> QED BY <1>1, <3>1, <3>3, <3>4, <4>1, <4>2 DEF ConstrainByParent, Selections
    <3>5. CASE "has" \in q.rel[d] /\ [parent |-> a, child |-> i] \in HasRows(Visible(eph))
      <4>1. [parent |-> a, child |-> i] \in parent.hc
        BY <2>4, <3>3, <3>5 DEF Supplied
      <4> QED BY <1>1, <3>1, <3>3, <3>5, <4>1 DEF ConstrainByParent, Selections
    <3> QED BY <3>2, <3>4, <3>5 DEF Linked, Related
  <2> QED BY <2>2, <2>3, <2>5 DEF ConstrainSelection, IdsOf
<1> QED BY <1>2, <1>3

\* So does one by the statements of the scope.
LEMMA KeptByChildren ==
  ASSUME Typing, Named, Complete, pc = "work", NEW p \in Statements, cur \in Children(p)
  PROVE  /\ FromChildren(p, 1) # {} /\ \A x \in FromChildren(p, 1) : Supplied(p, x)
         /\ \A M : IsMatch(M) => M[p] \subseteq IdsOf(FromChildren(p, 1))
<1> DEFINE sel == Only(reg[p][1])
           kids == Merged(p)
           sels == UNION {GetSelection(c) : c \in Children(p)}
<1>1. /\ sel \in Selections /\ Supplied(p, sel)
      /\ IdsOf(reg[p][1]) = sel.nodes /\ \A M : IsMatch(M) => M[p] \subseteq sel.nodes
  BY AllSupplied, OptionalType
<1>2. FromChildren(p, 1) = {ConstrainSelection(sel, kids, "Parent", q.rel[cur])}
  BY AllSupplied DEF FromChildren
<1>3. Supplied(p, ConstrainSelection(sel, kids, "Parent", q.rel[cur]))
  BY <1>1, ConstraintSupplies
<1>4. Children(p) \subseteq Statements /\ p # 0 /\ \A c \in Children(p) : q.parent[c] = p /\ q.rel[c] = q.rel[cur]
  <2>1. WellFormed(q)
    BY DEF Typing, TypedPlan
  <2>2. \A s, t \in Statements : q.parent[s] = q.parent[t] /\ q.parent[s] # 0 => q.rel[s] = q.rel[t]
    BY <2>1 DEF WellFormed, Statements
  <2>3. 0 \notin Statements
    BY DEF Statements
  <2> QED BY <2>2, <2>3 DEF Children
<1>5. \A c \in Children(p) : /\ \A n \in Nodes(c) : n \in kids.nodes
                             /\ \A e \in Only(GetSelection(c)).parents : e \in kids.parents
                             /\ \A h \in Only(GetSelection(c)).hp : h \in kids.hp
  <2>1. Speaking(p) = Children(p)
    BY <1>4, AllSupplied DEF Speaking, Echoes
  <2>2. kids = Extend(sels)
    BY <2>1 DEF Merged
  <2>3. \A c \in Children(p) : Only(GetSelection(c)) \in sels /\ Only(GetSelection(c)).nodes = Nodes(c)
    BY <1>4, SelectionSupplied
  <2> HIDE DEF kids, sels
  <2> QED BY <2>2, <2>3 DEF Extend
<1> HIDE DEF sel, kids, sels
<1>6. ASSUME NEW M, IsMatch(M), NEW i \in M[p]
      PROVE  i \in ConstrainByChild(sel, kids, q.rel[cur]).nodes
  <2>1. i \in sel.nodes /\ Fits(p, i)
    BY <1>1, <1>6 DEF IsMatch, Matching, Fits
  <2>2. PICK c \in Children(p) : \E b \in M[c] : Linked(c, i, b)
    BY <1>6 DEF IsMatch
  <2>3. PICK b \in M[c] : Linked(c, i, b)
    BY <2>2
  <2>4. b \in kids.nodes /\ Fits(c, b) /\ q.parent[c] = p /\ q.rel[c] = q.rel[cur]
    <3>1. b \in Nodes(c)
      BY <1>4, <1>6, <2>3, AllSupplied
    <3>2. b \in Matching(c)
      BY <1>4, <1>6, <2>3 DEF IsMatch
    <3> QED BY <1>4, <1>5, <3>1, <3>2 DEF Matching, Fits
  <2>5. Supplied(c, Only(GetSelection(c)))
    BY <1>4, SelectionSupplied
  <2>6. CASE "refs" \in q.rel[c] /\ <<SymOf(i), SymOf(b)>> \in CallPairs
    <3>1. PICK e \in RefRows(Visible(eph)) : SymOf(e.from) = SymOf(i) /\ SymOf(e.to) = SymOf(b)
      BY <2>6 DEF CallPairs
    <3>2. e \in kids.parents
      BY <1>4, <1>5, <2>1, <2>4, <2>5, <3>1, FitsBySymbol DEF Supplied
    <3> QED BY <1>1, <2>1, <2>4, <2>6, <3>1, <3>2 DEF ConstrainByChild, Selections
  <2>7. CASE "has" \in q.rel[c] /\ [parent |-> i, child |-> b] \in HasRows(Visible(eph))
    <3>1. [parent |-> i, child |-> b] \in kids.hp
      BY <1>5, <2>4, <2>5, <2>7 DEF Supplied
    <3> QED BY <1>1, <2>1, <2>4, <2>7, <3>1 DEF ConstrainByChild, Selections
  <2> QED BY <2>3, <2>6, <2>7 DEF Linked, Related
<1> QED BY <1>2, <1>3, <1>6 DEF ConstrainSelection, IdsOf

\* A name that is queued knows the filters of the names around and below it.
LEMMA QueuedFresh ==
  ASSUME Typing, Named, computed = {}, nxt \in Statements
  PROVE  Fresh(Queued(nxt))
<1> DEFINE p == q.parent[nxt]
<1>1. \A s \in Statements : SelectorFilters(s) = {NameFilter(s, 1)}
  <2>1. \A s \in Statements : Keys(s) = {1} /\ Kind(s, 1) = "name"
    BY NamedIsPlain DEF Typing, TypedPlan
  <2> QED BY <2>1 DEF SelectorFilters
<1>2. p # 0 => p \in Statements
  BY DEF Typing, TypedPlan, WellFormed, Statements
<1>3. p # 0 => ParentScope(nxt) = Scope({}, {NameFilter(p, 1)})
  BY <1>1, <1>2 DEF ParentScope
<1>4. ASSUME Children(nxt) # {}
      PROVE  ChildrenScope(nxt) = Scope({}, {NameFilter(c, 1) : c \in Children(nxt)})
  <2> DEFINE done == Children(nxt) \cap computed
             todo == Children(nxt) \ computed
             ids == UNION {IdsOf(GetSelection(c)) : c \in done}
             filters == UNION {SelectorFilters(c) : c \in todo}
  <2>1. done = {} /\ todo = Children(nxt)
    OBVIOUS
  <2>2. ids = {}
    BY <2>1
  <2>3. filters = {NameFilter(c, 1) : c \in Children(nxt)}
    BY <1>1, <2>1 DEF Children
  <2> HIDE DEF done, ids, filters, todo
  <2>4. filters # {}
    BY <1>4, <2>3
  <2>5. ChildrenScope(nxt) = Scope(ids, filters)
    BY <1>4, <2>4 DEF ChildrenScope, ids, filters, done, todo
  <2> QED BY <2>2, <2>3, <2>5
<1> QED BY <1>3, <1>4 DEF Fresh, Queued

LEMMA CompleteUpdate ==
  ASSUME Typing, Complete, UNCHANGED <<db, eph, plan, nxt, pending, computed>>,
         pc' = "drain" => pc = "drain",
         Named => \A s \in computed : /\ reg'[s][1] # {} /\ \A x \in reg'[s][1] : Supplied(s, x)
                                      /\ \A M : IsMatch(M) => M[s] \subseteq IdsOf(reg'[s][1])
  PROVE  Complete'
BY SameMatch DEF Complete, IdsOf

LEMMA CompleteInit == Init => Complete
<1> SUFFICES ASSUME Init, Named
             PROVE  weak = {} /\ computed = {} /\ pending = {} /\ pc # "drain"
  BY DEF Complete
<1>1. WellFormed(q)
  BY CasesAssumption DEF Init
<1>2. WeakClosed({})
  BY <1>1, NamedIsPlain DEF WeakClosed, NonConstraining
<1>3. Weakest = {}
  <2> DEFINE Least(W) == WeakClosed(W) /\ \A V \in SUBSET Statements : WeakClosed(V) => W \subseteq V
  <2>1. {} \in SUBSET Statements /\ Least({})
    BY <1>2
  <2>2. Weakest = CHOOSE W \in SUBSET Statements : Least(W)
    BY DEF Weakest
  <2>3. Least(Weakest)
    <3> HIDE DEF Least
    <3> QED BY <2>1, <2>2
  <2> QED BY <1>2, <2>3
<1> QED BY <1>3 DEF Init

LEMMA CompleteNext ==
  ASSUME Typing, RowsLoaded, Complete, [Next]_vars
  PROVE  Complete'
<1>1. CASE Push
  <2>1. UNCHANGED <<db, eph, plan, reg, computed, pc>> /\ nxt' = nxt + 1 /\ pc = "roots"
    BY <1>1 DEF Push
  <2>2. pending' = pending \cup {Queued(nxt)} /\ nxt <= q.n /\ nxt \in Statements /\ nxt \in Nat /\ q.n \in Nat
    BY <1>1 DEF Push, Typing, TypedRoots, TypedPlan, WellFormed, Statements
  <2>3. Named => computed = {} /\ Fresh(Queued(nxt))
    BY <2>2, QueuedFresh DEF Complete
  <2> QED BY <2>1, <2>2, <2>3, SameMatch DEF Complete
<1>2. CASE Materialise
  <2> SUFFICES ASSUME Named PROVE Complete'
    <3>1. UNCHANGED plan
      BY <1>2 DEF Materialise
    <3>2. Named' = Named
      BY <3>1, SameQuery DEF Named
    <3> QED BY <3>2 DEF Complete
  <2>1. UNCHANGED <<eph, plan, reg, pending, nxt, computed>> /\ pc' = "drain"
    BY <1>2 DEF Materialise
  <2>2. db' = db
    BY <1>2, NamedIsPlain, NothingMaterialises DEF Typing, TypedPlan
  <2>3. nxt = q.n + 1
    <3>1. ~PreDrains(nxt) \/ nxt \notin Statements
      <4>1. \A s \in Statements : ~HasLayerSpec(s) /\ \A k \in Keys(s) : Kind(s, k) # "layer"
        BY NamedIsPlain DEF Typing, TypedPlan, HasLayerSpec
      <4>2. nxt \in Statements => 1 .. nxt - 1 \subseteq Statements
        BY DEF Statements, Typing, TypedPlan, WellFormed
      <4>3. nxt \in Statements => SiblingDeps(nxt) = {} /\ LabelDeps(nxt) = {}
        BY <4>1, <4>2 DEF SiblingDeps, LabelDeps
      <4> QED BY <4>3 DEF PreDrains
    <3>2. nxt > q.n
      BY <1>2, <3>1 DEF Materialise, MustDrain
    <3> QED BY <3>2 DEF Typing, TypedRoots, TypedPlan, WellFormed
  <2> QED BY <2>1, <2>2, <2>3, SameMatch DEF Complete
<1>3. CASE Drain
  <2>1. UNCHANGED <<db, plan, nxt>> /\ pending' = {} /\ pc = "drain" /\ pc' = "roots"
    BY <1>3 DEF Drain
  <2>2. TypedPlan /\ TypedRoots /\ WellFormed(q) /\ q.n \in Nat
    BY DEF Typing, TypedPlan, WellFormed
  <2> SUFFICES ASSUME Named PROVE Complete'
    <3>1. Named' = Named
      BY <2>1, SameQuery DEF Named, plan
    <3> QED BY <3>1 DEF Complete
  <2>3. \A s \in Statements : ~HasLayerSpec(s) /\ Keys(s) = {1} /\ Kind(s, 1) = "name"
    BY <2>2, NamedIsPlain, PlainKeys
  <2>4. eph' = eph
    <3>1. \A p \in pending : ~HasLayerSpec(p.st)
      BY <1>3, <2>2, <2>3, DrainResult
    <3>2. eph' = eph \cup {Layer(s) : s \in {t \in {p.st : p \in pending} : HasLayerSpec(t)}}
      BY <1>3 DEF Drain
    <3> QED BY <3>1, <3>2
  <2>5. ASSUME NEW p \in pending
        PROVE  /\ reg'[p.st][1] = {Query(p, NameFilter(p.st, 1))}
               /\ Supplied(p.st, Query(p, NameFilter(p.st, 1)))
               /\ Query(p, NameFilter(p.st, 1)).nodes = Matching(p.st)
    <3>1. p.st \in Statements /\ reg'[p.st] = [k \in Keys(p.st) |-> Computed(p, k)]
      BY <1>3, <2>2, DrainResult
    <3>2. Fresh(p) /\ p.eph = {}
      BY <2>2, NamedIsPlain DEF Complete, RowsLoaded
    <3>3. Computed(p, 1) = {Query(p, NameFilter(p.st, 1))}
      BY <2>3, <3>1 DEF Computed, CommandFilter
    <3> QED BY <2>3, <3>1, <3>2, <3>3, QuerySupplies
  <2>6. ASSUME NEW s \in computed'
        PROVE  /\ reg'[s][1] # {} /\ \A x \in reg'[s][1] : Supplied(s, x)
               /\ \A M : IsMatch(M) => M[s] \subseteq IdsOf(reg'[s][1])
    <3>0. s \in Statements /\ computed' = computed \cup {p.st : p \in pending}
      BY <1>3, <2>1, <2>2, DrainResult DEF TypedRoots, Statements
    <3>1. CASE \E p \in pending : p.st = s
      BY <2>5, <3>0, <3>1 DEF IdsOf, IsMatch
    <3>2. CASE \A p \in pending : p.st # s
      <4>1. reg'[s] = reg[s] /\ s \in computed
        BY <1>3, <2>2, <3>0, <3>2, DrainResult
      <4> QED BY <4>1 DEF Complete
    <3> QED BY <3>1, <3>2
  <2>7. ~(nxt <= q.n)
    BY <2>1, <2>2 DEF Complete
  <2> QED BY <2>1, <2>4, <2>6, <2>7, SameMatch DEF Complete, IdsOf
<1>4. CASE Seed \/ PopNext \/ Outcome
  <2>1. UNCHANGED <<db, eph, plan, nxt, pending, computed>>
    BY <1>4, OutcomeFrame DEF Seed, PopNext
  <2>2. pc' = "drain" => pc = "drain"
    BY <1>4 DEF Seed, PopNext, Outcome, PushPanics, UseUnresolved, Finish, FinishWithoutImplicit, Answer, Abort, vars
  <2>3. Named => \A s \in Statements : reg'[s][1] = reg[s][1]
    <3>1. Seed \/ Outcome => reg' = reg
      BY OutcomeFrame DEF Seed
    <3> QED BY <1>4, <3>1, NamedIsPlain, PlainPop DEF Typing, TypedPlan
  <2>4. computed \subseteq Statements
    BY DEF Typing, TypedRoots, TypedPlan, WellFormed, Statements
  <2> QED BY <2>1, <2>2, <2>3, <2>4, CompleteUpdate DEF Complete
<1>5. CASE NotifyParent \/ NotifyOther
  <2>1. PICK d, new :
          /\ d \in Statements
          /\ reg' = [reg EXCEPT ![d] = new]
          /\ UNCHANGED <<db, eph, plan, nxt, pending, computed>> /\ pc' = pc /\ pc = "work"
          /\ \/ new = reg[d]
             \/ new = FromKids(d) /\ cur \in Children(d)
             \/ \E role \in {"Child", "User"} : /\ new = FromKin(d, role) /\ cur \in Statements
                                                /\ role = "Child" => d \in Children(cur)
    <3>1. cur # 0 => Dependent \in DependentsOf(cur) /\ cur \in Statements
      BY DependentIsLeft DEF Typing
    <3>2. cur # 0 => /\ Dependent.role = "Parent" => Dependent.st = q.parent[cur]
                     /\ Dependent.role = "Child" => Dependent.st \in Children(cur)
      BY <3>1, DependentsType DEF Typing, TypedPlan
    <3>3. CASE NotifyParent
      BY <3>1, <3>2, <3>3, ParentSteps DEF Notified, Children
    <3>4. CASE NotifyOther
      BY <3>1, <3>2, <3>4, KinSteps DEF Notified
    <3> QED BY <1>5, <3>3, <3>4
  <2>2. /\ \A s \in Statements : reg'[s] = IF s = d THEN new ELSE reg[s]
        /\ computed \subseteq Statements
    BY <2>1 DEF Typing, TypedRegistry, Registry, TypedRoots, TypedPlan, WellFormed, Statements
  <2>3. ASSUME Named
        PROVE  /\ new[1] # {} /\ \A x \in new[1] : Supplied(d, x)
               /\ \A M : IsMatch(M) => M[d] \subseteq IdsOf(new[1])
    <3>1. Keys(d) = {1}
      BY <2>1, <2>3, AllSupplied
    <3>2. CASE new = reg[d]
      BY <2>1, <2>3, <3>2, AllSupplied
    <3>3. CASE new = FromKids(d) /\ cur \in Children(d)
      <4>1. new[1] = FromChildren(d, 1)
        BY <3>1, <3>3 DEF FromKids
      <4> QED BY <2>1, <2>3, <3>3, <4>1, KeptByChildren
    <3>4. ASSUME NEW role \in {"Child", "User"}, new = FromKin(d, role), cur \in Statements,
                 role = "Child" => d \in Children(cur)
          PROVE  /\ new[1] # {} /\ \A x \in new[1] : Supplied(d, x)
                 /\ \A M : IsMatch(M) => M[d] \subseteq IdsOf(new[1])
      <4>1. new[1] = Accepted(d, 1, role)
        BY <3>1, <3>4 DEF FromKin
      <4> QED BY <2>1, <2>3, <3>4, <4>1, KeptByParent
    <3> QED BY <2>1, <3>2, <3>3, <3>4
  <2> QED BY <2>1, <2>2, <2>3, CompleteUpdate DEF Complete
<1> QED BY <1>1, <1>2, <1>3, <1>4, <1>5, Steps

LEMMA CompleteInvariance == Spec => []Complete
<1>1. Typing /\ RowsLoaded /\ Complete /\ [Next]_vars => Complete'
  BY CompleteNext
<1> QED BY <1>1, CompleteInit, ExecutorTyped, RowsAreLoaded, PTL DEF Spec

-----------------------------------------------------------------------------
(* Trees of names: the answer.                                             *)

\* The recursive functions of Supported and Reached exist: both take more
\* nodes for more nodes, so the union of all that support themselves is one.
LEMMA SupportedIs ==
  ASSUME NEW calls, NEW holds, NEW f, f = Supported(calls, holds)
  PROVE  f = [s \in Statements |->
                {i \in Matching(s) : Children(s) = {} \/
                   \E c \in Children(s) : \E b \in f[c] : Related(q.rel[c], calls, holds, i, b)}]
<1> DEFINE Grow(g) == [s \in Statements |->
                {i \in Matching(s) : Children(s) = {} \/
                   \E c \in Children(s) : \E b \in g[c] : Related(q.rel[c], calls, holds, i, b)}]
           Families == [Statements -> SUBSET CurrentRows(Visible(eph))]
           Closed == {M \in Families : \A s \in Statements : M[s] \subseteq Grow(M)[s]}
           most == [s \in Statements |-> UNION {M[s] : M \in Closed}]
<1>1. \A g : Grow(g) \in Families
  BY DEF Matching
<1>2. ASSUME NEW g, NEW h, \A s \in Statements : g[s] \subseteq h[s], NEW s \in Statements
      PROVE  Grow(g)[s] \subseteq Grow(h)[s]
  BY <1>2 DEF Children
<1>4. \A M \in Closed : \A s \in Statements : M[s] \subseteq most[s] /\ M[s] \subseteq Grow(M)[s]
  OBVIOUS
<1>5. \A s \in Statements : \A i \in most[s] : \E M \in Closed : i \in M[s]
  OBVIOUS
<1>6. DOMAIN most = Statements /\ most = [s \in Statements |-> most[s]]
  OBVIOUS
<1>7. \A g : DOMAIN Grow(g) = Statements /\ Grow(g) = [s \in Statements |-> Grow(g)[s]]
  OBVIOUS
<1>8. \A g : g \in Families /\ (\A s \in Statements : g[s] \subseteq Grow(g)[s]) => g \in Closed
  OBVIOUS
<1>9. Supported(calls, holds) = CHOOSE g : g = Grow(g)
  BY DEF Supported
<1> HIDE DEF Grow, Families, Closed, most
<1>10. \A s \in Statements : most[s] \subseteq Grow(most)[s]
  BY <1>2, <1>4, <1>5
<1>11. Grow(most) \in Closed
  BY <1>1, <1>2, <1>8, <1>10
<1>12. \A s \in Statements : most[s] = Grow(most)[s]
  BY <1>4, <1>10, <1>11
<1>13. most = Grow(most)
  BY <1>6, <1>7, <1>12
<1>14. f = Grow(f)
  BY <1>9, <1>13
<1> QED BY <1>14 DEF Grow

LEMMA ReachedIs ==
  ASSUME WellFormed(q), NEW calls, NEW holds, NEW supported, NEW f, f = Reached(calls, holds, supported)
  PROVE  f = [s \in Statements |->
                {i \in supported[s] : q.parent[s] = 0 \/
                   \E a \in f[q.parent[s]] : Related(q.rel[s], calls, holds, a, i)}]
<1> DEFINE Grow(g) == [s \in Statements |->
                {i \in supported[s] : q.parent[s] = 0 \/
                   \E a \in g[q.parent[s]] : Related(q.rel[s], calls, holds, a, i)}]
           Families == [Statements -> SUBSET UNION {supported[s] : s \in Statements}]
           Closed == {M \in Families : \A s \in Statements : M[s] \subseteq Grow(M)[s]}
           most == [s \in Statements |-> UNION {M[s] : M \in Closed}]
<1>1. \A g : Grow(g) \in Families
  OBVIOUS
<1>2. ASSUME NEW g, NEW h, \A s \in Statements : g[s] \subseteq h[s], NEW s \in Statements
      PROVE  Grow(g)[s] \subseteq Grow(h)[s]
  <2>1. q.parent[s] = 0 \/ q.parent[s] \in Statements
    BY DEF WellFormed, Statements
  <2> QED BY <1>2, <2>1
<1>4. \A M \in Closed : \A s \in Statements : M[s] \subseteq most[s] /\ M[s] \subseteq Grow(M)[s]
  OBVIOUS
<1>5. \A s \in Statements : \A i \in most[s] : \E M \in Closed : i \in M[s]
  OBVIOUS
<1>6. DOMAIN most = Statements /\ most = [s \in Statements |-> most[s]]
  OBVIOUS
<1>7. \A g : DOMAIN Grow(g) = Statements /\ Grow(g) = [s \in Statements |-> Grow(g)[s]]
  OBVIOUS
<1>8. \A g : g \in Families /\ (\A s \in Statements : g[s] \subseteq Grow(g)[s]) => g \in Closed
  OBVIOUS
<1>9. Reached(calls, holds, supported) = CHOOSE g : g = Grow(g)
  BY DEF Reached
<1> HIDE DEF Grow, Families, Closed, most
<1>10. \A s \in Statements : most[s] \subseteq Grow(most)[s]
  BY <1>2, <1>4, <1>5
<1>11. Grow(most) \in Closed
  BY <1>1, <1>2, <1>8, <1>10
<1>12. \A s \in Statements : most[s] = Grow(most)[s]
  BY <1>4, <1>10, <1>11
<1>13. most = Grow(most)
  BY <1>6, <1>7, <1>12
<1>14. f = Grow(f)
  BY <1>9, <1>13
<1> QED BY <1>14 DEF Grow

\* The worklist computes what a match is: a tree of names answers with the
\* nodes that take part in one, no more because every node that is left has
\* support, no fewer because no scope that compute_roots captures and no
\* constraint drops a node of a match.
THEOREM TreesAreExact == Spec => []TreeIsExact
<1>1. Typing /\ Complete /\ EveryNodeIsRelated => TreeIsExact
  <2> SUFFICES ASSUME Typing, Complete, EveryNodeIsRelated, pc = "done", Named,
                      NEW supported, supported = Supported(CallPairs, HasRows(Visible(eph))),
                      NEW reached, reached = Reached(CallPairs, HasRows(Visible(eph)), supported)
               PROVE  \A s \in Statements : Nodes(s) = reached[s]
    BY DEF TreeIsExact, Named
  <2>1. WellFormed(q) /\ q.n \in Nat
    BY DEF Typing, TypedPlan, WellFormed
  <2>2. \A s \in Statements : supported[s] =
          {i \in Matching(s) : Children(s) = {} \/ \E c \in Children(s) : \E b \in supported[c] : Linked(c, i, b)}
    <3>1. supported = [s \in Statements |->
            {i \in Matching(s) : Children(s) = {} \/
               \E c \in Children(s) : \E b \in supported[c] :
                 Related(q.rel[c], CallPairs, HasRows(Visible(eph)), i, b)}]
      BY SupportedIs
    <3> QED BY <3>1 DEF Linked
  <2>3. \A s \in Statements : reached[s] =
          {i \in supported[s] : q.parent[s] = 0 \/ \E a \in reached[q.parent[s]] : Linked(s, a, i)}
    <3> DEFINE calls == CallPairs
               holds == HasRows(Visible(eph))
    <3>1. reached = Reached(calls, holds, supported)
      OBVIOUS
    <3> HIDE DEF calls, holds
    <3>2. reached = [s \in Statements |->
            {i \in supported[s] : q.parent[s] = 0 \/
               \E a \in reached[q.parent[s]] : Related(q.rel[s], calls, holds, a, i)}]
      BY <2>1, <3>1, ReachedIs
    <3> QED BY <3>2 DEF Linked, calls, holds
  <2>4. \A s \in Statements : /\ Nodes(s) \subseteq Matching(s) /\ GetSelection(s) # {}
                              /\ \A M : IsMatch(M) => M[s] \subseteq Nodes(s)
    BY AllSupplied, OptionalType DEF Supplied
  <2>5. ASSUME NEW p \in Statements, NEW s \in Children(p)
        PROVE  /\ s \in Statements /\ q.parent[s] = p /\ p # 0 /\ p < s
               /\ \A i \in Nodes(s) : \E a \in Nodes(p) : Linked(s, a, i)
               /\ \A a \in Nodes(p) : \E c \in Children(p) : \E i \in Nodes(c) : Linked(c, a, i)
    <3>1. s \in Statements /\ q.parent[s] = p /\ p # 0 /\ p < s
      BY <2>1 DEF Children, WellFormed, Statements
    <3>2. \A c \in Children(p) : q.rel[c] = q.rel[s]
      BY <2>1, <3>1 DEF Children, WellFormed, Statements
    <3>3. weak = {} /\ ~Echoes(s)
      BY AllSupplied DEF Echoes
    <3>4. OneSelector({"name", "unit", "bare", "namespace"})
      BY <2>1, NamedIsPlain DEF Plain
    <3>5. /\ \A i \in Nodes(s) : \E a \in Nodes(p) : Linked(s, a, i)
          /\ \A a \in Nodes(p) : \E c \in Children(p) : \E i \in Nodes(c) : Linked(s, a, i)
      BY <2>4, <3>1, <3>3, <3>4 DEF EveryNodeIsRelated, Linked
    <3> QED BY <3>1, <3>2, <3>5 DEF Linked
  <2>6. \A s \in Statements : Nodes(s) \subseteq supported[s]
    <3> DEFINE Bad == {n \in Nat : \E s \in Statements : n = q.n - s /\ ~(Nodes(s) \subseteq supported[s])}
    <3>1. ASSUME NEW n \in Bad
          PROVE  \E m \in Bad : ~(n <= m)
      <4>1. PICK s \in Statements : n = q.n - s /\ ~(Nodes(s) \subseteq supported[s])
        OBVIOUS
      <4>2. PICK i \in Nodes(s) : i \notin supported[s]
        BY <4>1
      <4>3. Children(s) # {} /\ \A c \in Children(s) : \A b \in supported[c] : ~Linked(c, i, b)
        BY <2>2, <2>4, <4>2
      <4>4. PICK c \in Children(s) : \E b \in Nodes(c) : Linked(c, i, b)
        BY <2>5, <4>2, <4>3
      <4>5. c \in Statements /\ s < c /\ ~(Nodes(c) \subseteq supported[c])
        BY <2>5, <4>3, <4>4
      <4>6. q.n - c \in Nat /\ ~(n <= q.n - c)
        BY <2>1, <4>1, <4>5 DEF Statements
      <4> QED BY <4>5, <4>6
    <3>2. Bad = {}
      <4> HIDE DEF Bad
      <4>1. Bad \subseteq Nat
        BY DEF Bad
      <4> QED BY <3>1, <4>1, LeastNat
    <3>3. \A s \in Statements : q.n - s \in Nat
      BY <2>1 DEF Statements
    <3>4. ASSUME NEW s \in Statements, ~(Nodes(s) \subseteq supported[s])
          PROVE  q.n - s \in Bad
      BY <3>3, <3>4
    <3> HIDE DEF Bad
    <3> QED BY <3>2, <3>4
  <2>7. \A s \in Statements : Nodes(s) \subseteq reached[s]
    <3> DEFINE Bad == {s \in Statements : ~(Nodes(s) \subseteq reached[s])}
    <3>1. ASSUME NEW s \in Bad
          PROVE  \E p \in Bad : ~(s <= p)
      <4>1. PICK i \in Nodes(s) : i \notin reached[s]
        OBVIOUS
      <4> PICK p : p = q.parent[s]
        OBVIOUS
      <4>2. p # 0 /\ \A a \in reached[p] : ~Linked(s, a, i)
        BY <2>3, <2>6, <4>1
      <4>3. p \in Statements /\ s \in Children(p)
        BY <2>1, <4>2 DEF WellFormed, Statements, Children
      <4>4. p < s /\ \E a \in Nodes(p) : Linked(s, a, i)
        BY <2>5, <4>1, <4>3
      <4>5. ~(Nodes(p) \subseteq reached[p]) /\ ~(s <= p)
        BY <2>1, <4>2, <4>3, <4>4 DEF Statements
      <4> QED BY <4>3, <4>5
    <3>2. Bad = {}
      <4>1. Bad \subseteq Nat
        BY <2>1 DEF Statements
      <4> HIDE DEF Bad
      <4> QED BY <3>1, <4>1, LeastNat
    <3> QED BY <3>2
  <2>8. IsMatch(reached)
    <3>1. ASSUME NEW s \in Statements, NEW i \in reached[s]
          PROVE  /\ i \in Matching(s)
                 /\ q.parent[s] # 0 => \E a \in reached[q.parent[s]] : Linked(s, a, i)
                 /\ Children(s) # {} => \E c \in Children(s) : \E b \in reached[c] : Linked(c, i, b)
      <4>1. i \in Matching(s) /\ q.parent[s] # 0 => \E a \in reached[q.parent[s]] : Linked(s, a, i)
        BY <2>3
      <4>2. i \in supported[s] /\ i \in Matching(s)
        BY <2>2, <2>3
      <4>3. ASSUME Children(s) # {}
            PROVE  \E c \in Children(s) : \E b \in reached[c] : Linked(c, i, b)
        <5>1. PICK c \in Children(s) : \E b \in supported[c] : Linked(c, i, b)
          BY <2>2, <4>2, <4>3
        <5>2. PICK b \in supported[c] : Linked(c, i, b)
          BY <5>1
        <5>3. c \in Statements /\ q.parent[c] = s
          BY <2>5
        <5>4. b \in reached[c]
          BY <2>3, <3>1, <5>2, <5>3
        <5> QED BY <5>2, <5>4
      <4> QED BY <4>1, <4>2, <4>3
    <3> QED BY <3>1 DEF IsMatch
  <2> QED BY <2>4, <2>7, <2>8
<1> QED BY <1>1, ExecutorTyped, CompleteInvariance, FixpointReached, PTL

-----------------------------------------------------------------------------
(* Containment: the index under a chain of layers.                         *)

\* The layers of the first m statements.  Whatever is captured or
\* materialised is such a chain.
Chain(m) == {Layer(l) : l \in {k \in 1 .. m : HasLayerSpec(k)}}
Chains == {Chain(m) : m \in 0 .. q.n}

\* What is computed is a prefix of the query, and what is queued has captured
\* all of its layers.
Batched ==
  /\ \E m \in 0 .. q.n : computed = 1 .. m
  /\ \A p \in pending : p.eph = eph

\* The statements whose layers have been filled.
Filled ==
  {s \in Statements : HasLayerSpec(s) /\
     (s \in computed \/ (pc = "drain" /\ \E p \in pending : p.st = s))}

\* The index holds the rows it began with and those of the filled layers.
Stored ==
  pc \in {"roots", "drain", "work", "done"} =>
    \E case \in Cases :
      /\ q = case.q /\ DOMAIN case.db.sym \subseteq DOMAIN db.sym
      /\ \A r \in DOMAIN db.sym : r \in DOMAIN case.db.sym \/ \E s \in Filled : r \in DOMAIN q.rows[s].sym
      /\ \A r \in DOMAIN db.inst : r \in DOMAIN case.db.inst \/ \E s \in Filled : r \in DOMAIN q.rows[s].inst
      /\ \A s \in Filled : DOMAIN q.rows[s].sym \subseteq DOMAIN db.sym
      /\ \A i \in DOMAIN db.inst : SymOf(i) \in DOMAIN db.sym

\* The containments of a selection are those of the layers L, and each of its
\* nodes was found under a chain all of whose containments around the node
\* the selection has.
Contained(x, L) ==
  /\ x.hp \subseteq HasRows(Visible(L)) /\ x.hc \subseteq HasRows(Visible(L))
  /\ \A i \in x.nodes : \E E \in Chains :
       /\ E \subseteq L /\ i \in CurrentRows(Visible(E))
       /\ \A h \in HasRows(Visible(E)) : (h.child = i => h \in x.hp) /\ (h.parent = i => h \in x.hc)

AllContained ==
  LayersInSequence =>
    \A s \in Statements : \A k \in Keys(s) : \A x \in reg[s][k] \cup once[s][k] : Contained(x, eph)

\* A table with rows under new ids.
LEMMA MergeKeeps ==
  ASSUME NEW f, NEW maps, \A m \in maps : DOMAIN m \cap DOMAIN f = {}
  PROVE  /\ \A x \in DOMAIN f : x \in DOMAIN Merge(f, maps) /\ Merge(f, maps)[x] = f[x]
         /\ \A x \in DOMAIN Merge(f, maps) \ DOMAIN f :
              \E m \in maps : x \in DOMAIN m /\ Merge(f, maps)[x] = m[x]
         /\ \A m \in maps : DOMAIN m \subseteq DOMAIN Merge(f, maps)
<1>1. DOMAIN Merge(f, maps) = UNION {DOMAIN m : m \in maps \cup {f}}
  BY DEF Merge
<1>2. ASSUME NEW x \in DOMAIN Merge(f, maps)
      PROVE  \E m \in maps \cup {f} : x \in DOMAIN m /\ Merge(f, maps)[x] = m[x]
  BY <1>1, <1>2 DEF Merge
<1> QED BY <1>1, <1>2

\* What a batch that fills its layers does to the index.
LEMMA RowsOfBatch ==
  ASSUME Typing, Stored, Materialise
  PROVE  /\ \A r \in DOMAIN db.sym : r \in DOMAIN db'.sym /\ db'.sym[r] = db.sym[r]
         /\ \A r \in DOMAIN db.inst : r \in DOMAIN db'.inst /\ db'.inst[r] = db.inst[r]
         /\ \A r \in DOMAIN db'.sym \ DOMAIN db.sym :
              \E s \in Filled' : r \in DOMAIN q.rows[s].sym
         /\ \A r \in DOMAIN db'.inst \ DOMAIN db.inst :
              \E s \in Filled' : /\ s \notin computed /\ r \in DOMAIN q.rows[s].inst
                                 /\ db'.inst[r] = q.rows[s].inst[r]
         /\ \A s \in Filled' \ Filled : DOMAIN q.rows[s].sym \subseteq DOMAIN db'.sym
         /\ Filled \subseteq Filled' /\ Filled' = {s \in 1 .. nxt - 1 : HasLayerSpec(s)}
<1> DEFINE fillers == {p \in pending : HasLayerSpec(p.st)}
           syms == {q.rows[p.st].sym : p \in fillers}
           insts == {Emitted(p, q.rows[p.st].inst, "sym") : p \in fillers}
           sym == Merge(db.sym, syms)
           inst == Merge(db.inst, insts)
           ref == Merge(db.ref, {Emitted(p, q.rows[p.st].ref, "to") : p \in fillers})
<1>1. /\ db' = [db EXCEPT !.sym = sym, !.inst = inst, !.ref = ref]
      /\ pc = "roots" /\ pc' = "drain" /\ UNCHANGED <<plan, pending, computed>> /\ q' = q
  BY DEF Materialise, plan
<1>2. {"sym", "inst", "ref"} \subseteq DOMAIN db
  BY DEF Typing, TypedPlan
<1>3. db'.sym = sym /\ db'.inst = inst
  <2> HIDE DEF sym, inst, ref
  <2> QED BY <1>1, <1>2
<1>4. PICK case \in Cases :
        /\ q = case.q
        /\ \A r \in DOMAIN db.sym : r \in DOMAIN case.db.sym \/ \E s \in Filled : r \in DOMAIN q.rows[s].sym
        /\ \A r \in DOMAIN db.inst : r \in DOMAIN case.db.inst \/ \E s \in Filled : r \in DOMAIN q.rows[s].inst
  BY <1>1 DEF Stored
<1>5. \A p \in fillers : p.st \in Statements /\ p.st \notin computed /\ p \in pending /\ HasLayerSpec(p.st)
  BY DEF Typing, TypedRoots, TypedPlan, WellFormed, Statements
<1>6. Filled \subseteq computed
  BY <1>1 DEF Filled
<1>7. \A s \in Statements : \A r \in DOMAIN q.rows[s].sym :
        r \notin DOMAIN case.db.sym /\ \A t \in Statements : r \in DOMAIN q.rows[t].sym => t = s
  BY <1>4, CasesAssumption DEF Inserts, Statements
<1>8. \A s \in Statements : \A r \in DOMAIN q.rows[s].inst :
        r \notin DOMAIN case.db.inst /\ \A t \in Statements : r \in DOMAIN q.rows[t].inst => t = s
  BY <1>4, CasesAssumption DEF Inserts, Statements
<1>9. Filled \subseteq Statements
  BY DEF Filled
<1>10. \A m \in syms : DOMAIN m \cap DOMAIN db.sym = {}
  <2> SUFFICES ASSUME NEW p \in fillers, NEW r \in DOMAIN q.rows[p.st].sym, r \in DOMAIN db.sym
               PROVE  FALSE
    OBVIOUS
  <2> QED BY <1>4, <1>5, <1>6, <1>7, <1>9
<1>11. \A p \in fillers : LET e == Emitted(p, q.rows[p.st].inst, "sym")
                         IN /\ DOMAIN e \subseteq DOMAIN q.rows[p.st].inst
                            /\ \A r \in DOMAIN e : e[r] = q.rows[p.st].inst[r]
  BY DEF Emitted, Restrict
<1>12. \A m \in insts : DOMAIN m \cap DOMAIN db.inst = {}
  <2> SUFFICES ASSUME NEW p \in fillers, NEW r \in DOMAIN q.rows[p.st].inst, r \in DOMAIN db.inst
               PROVE  FALSE
    BY <1>11
  <2> QED BY <1>4, <1>5, <1>6, <1>8, <1>9
<1>13. \A p \in fillers : p.st \in Filled'
  BY <1>1, <1>5, SameQuery DEF Filled
<1>14. \A s \in Filled' \ Filled : \E p \in fillers : p.st = s
  BY <1>1, SameQuery DEF Filled
<1>15. Filled \subseteq Filled'
  BY <1>1, SameQuery DEF Filled
<1>16. Filled' = {s \in 1 .. nxt - 1 : HasLayerSpec(s)}
  <2>1. computed \cup {p.st : p \in pending} = 1 .. nxt - 1 /\ nxt \in 1 .. q.n + 1 /\ q.n \in Nat
    BY DEF Typing, TypedRoots, TypedPlan, WellFormed
  <2>2. Filled' = {s \in Statements : HasLayerSpec(s) /\ (s \in computed \/ \E p \in pending : p.st = s)}
    BY <1>1, SameQuery DEF Filled
  <2>3. \A s : s \in 1 .. nxt - 1 <=> s \in computed \/ \E p \in pending : p.st = s
    BY <2>1
  <2>4. 1 .. nxt - 1 \subseteq Statements
    BY <2>1 DEF Statements
  <2> QED BY <2>2, <2>3, <2>4
<1>17. /\ \A r \in DOMAIN db.sym : r \in DOMAIN db'.sym /\ db'.sym[r] = db.sym[r]
       /\ \A r \in DOMAIN db'.sym \ DOMAIN db.sym : \E m \in syms : r \in DOMAIN m
       /\ \A m \in syms : DOMAIN m \subseteq DOMAIN db'.sym
  <2> HIDE DEF syms
  <2> QED BY <1>3, <1>10, MergeKeeps
<1>18. /\ \A r \in DOMAIN db.inst : r \in DOMAIN db'.inst /\ db'.inst[r] = db.inst[r]
       /\ \A r \in DOMAIN db'.inst \ DOMAIN db.inst :
            \E m \in insts : r \in DOMAIN m /\ db'.inst[r] = m[r]
  <2> HIDE DEF insts
  <2> QED BY <1>3, <1>12, MergeKeeps
<1>19. ASSUME NEW r \in DOMAIN db'.inst \ DOMAIN db.inst
       PROVE  \E s \in Filled' : /\ s \notin computed /\ r \in DOMAIN q.rows[s].inst
                                 /\ db'.inst[r] = q.rows[s].inst[r]
  <2>1. PICK p \in fillers : LET e == Emitted(p, q.rows[p.st].inst, "sym")
                             IN r \in DOMAIN e /\ db'.inst[r] = e[r]
    BY <1>18
  <2> QED BY <1>5, <1>11, <1>13, <2>1
<1>20. \A r \in DOMAIN db'.sym \ DOMAIN db.sym : \E s \in Filled' : r \in DOMAIN q.rows[s].sym
  BY <1>13, <1>17
<1>21. \A s \in Filled' \ Filled : DOMAIN q.rows[s].sym \subseteq DOMAIN db'.sym
  BY <1>14, <1>17
<1> HIDE DEF fillers, syms, insts, sym, inst, ref
<1> QED BY <1>15, <1>16, <1>17, <1>18, <1>19, <1>20, <1>21

LEMMA StoredInit == Init => Stored
<1> SUFFICES ASSUME Init PROVE Stored
  OBVIOUS
<1>1. PICK case \in Cases : q = case.q /\ db = case.db
  BY DEF Init
<1>2. \A i \in DOMAIN db.inst : SymOf(i) \in DOMAIN db.sym
  BY <1>1, CasesAssumption DEF Inserts, SymOf
<1>3. Filled = {}
  BY DEF Init, Filled
<1> QED BY <1>1, <1>2, <1>3 DEF Stored

LEMMA StoredMaterialise ==
  ASSUME Typing, Stored, Materialise
  PROVE  Stored'
<1>1. pc = "roots" /\ q' = q
  BY DEF Materialise, plan
<1>2. PICK case \in Cases :
        /\ q = case.q /\ DOMAIN case.db.sym \subseteq DOMAIN db.sym
        /\ \A r \in DOMAIN db.sym : r \in DOMAIN case.db.sym \/ \E s \in Filled : r \in DOMAIN q.rows[s].sym
        /\ \A r \in DOMAIN db.inst : r \in DOMAIN case.db.inst \/ \E s \in Filled : r \in DOMAIN q.rows[s].inst
        /\ \A s \in Filled : DOMAIN q.rows[s].sym \subseteq DOMAIN db.sym
        /\ \A i \in DOMAIN db.inst : SymOf(i) \in DOMAIN db.sym
  BY <1>1 DEF Stored
<1>3. DOMAIN case.db.sym \subseteq DOMAIN db'.sym
  BY <1>2, RowsOfBatch
<1>4. \A r \in DOMAIN db'.sym : r \in DOMAIN case.db.sym \/ \E s \in Filled' : r \in DOMAIN q.rows[s].sym
  BY <1>2, RowsOfBatch
<1>5. \A r \in DOMAIN db'.inst : r \in DOMAIN case.db.inst \/ \E s \in Filled' : r \in DOMAIN q.rows[s].inst
  BY <1>2, RowsOfBatch
<1>6. \A s \in Filled' : DOMAIN q.rows[s].sym \subseteq DOMAIN db'.sym
  BY <1>2, RowsOfBatch
<1>7. ASSUME NEW i \in DOMAIN db'.inst
      PROVE  db'.inst[i].sym \in DOMAIN db'.sym
  <2>1. CASE i \in DOMAIN db.inst
    BY <1>2, <2>1, RowsOfBatch DEF SymOf
  <2>2. CASE i \notin DOMAIN db.inst
    <3>1. PICK s \in Filled' : i \in DOMAIN q.rows[s].inst /\ db'.inst[i] = q.rows[s].inst[i]
      BY <2>2, RowsOfBatch
    <3>2. s \in 1 .. nxt - 1 /\ s \in Statements /\ 1 .. nxt - 1 \subseteq Statements /\ q.n \in Nat
      <4>1. nxt \in 1 .. q.n + 1 /\ q.n \in Nat
        BY DEF Typing, TypedRoots, TypedPlan, WellFormed
      <4>2. s \in 1 .. nxt - 1
        BY <3>1, RowsOfBatch
      <4> QED BY <4>1, <4>2 DEF Statements
    <3>3. \/ q.rows[s].inst[i].sym \in DOMAIN case.db.sym
          \/ \E l \in 1 .. s : q.rows[s].inst[i].sym \in DOMAIN q.rows[l].sym
      BY <1>2, <3>1, <3>2, CasesAssumption DEF Inserts, Statements
    <3>4. CASE q.rows[s].inst[i].sym \in DOMAIN case.db.sym
      BY <1>3, <3>1, <3>4
    <3>5. CASE \E l \in 1 .. s : q.rows[s].inst[i].sym \in DOMAIN q.rows[l].sym
      <4>1. PICK l \in 1 .. s : q.rows[s].inst[i].sym \in DOMAIN q.rows[l].sym
        BY <3>5
      <4>2. l \in 1 .. nxt - 1 /\ l \in Statements
        <5>1. nxt \in 1 .. q.n + 1 /\ q.n \in Nat
          BY DEF Typing, TypedRoots, TypedPlan, WellFormed
        <5> QED BY <3>2, <5>1 DEF Statements
      <4>3. HasLayerSpec(l)
        <5>1. \E k \in DOMAIN q.sel[l] : q.sel[l][k].kind = "layer"
          <6>1. l \in 1 .. q.n /\ Inserts(q, case.db)
            BY <1>2, <4>2, CasesAssumption DEF Statements
          <6>2. \A t \in 1 .. q.n : \A r \in DOMAIN q.rows[t].sym :
                  \E k \in DOMAIN q.sel[t] : q.sel[t][k].kind = "layer"
            BY <6>1 DEF Inserts
          <6> QED BY <4>1, <6>1, <6>2
        <5> QED BY <5>1 DEF HasLayerSpec, Keys, Kind
      <4>4. l \in Filled'
        BY <4>2, <4>3, RowsOfBatch
      <4> QED BY <1>6, <3>1, <4>1, <4>4
    <3> QED BY <3>3, <3>4, <3>5
  <2> QED BY <2>1, <2>2
<1> QED BY <1>1, <1>2, <1>3, <1>4, <1>5, <1>6, <1>7 DEF Stored, SymOf

LEMMA StoredNext ==
  ASSUME Typing, Stored, [Next]_vars
  PROVE  Stored'
<1>1. ASSUME UNCHANGED <<db, plan>>, pc' \in {"roots", "drain", "work", "done"} => 
               pc \in {"roots", "drain", "work", "done"} /\ Filled' = Filled
      PROVE  Stored'
  <2>1. q' = q /\ db' = db
    BY <1>1 DEF plan
  <2>2. \A i : SymOf(i)' = SymOf(i)
    BY <2>1 DEF SymOf
  <2> QED BY <1>1, <2>1, <2>2 DEF Stored
<1>2. CASE Push
  BY <1>1, <1>2, SameQuery DEF Push, Filled
<1>3. CASE Materialise
  BY <1>3, StoredMaterialise
<1>4. CASE Drain
  <2>1. computed' = computed \cup {p.st : p \in pending} /\ pc = "drain" /\ pc' = "roots" /\ UNCHANGED <<db, plan>>
    BY <1>4 DEF Drain
  <2>2. Filled' = Filled
    BY <2>1, SameQuery DEF Filled
  <2> QED BY <1>1, <2>1, <2>2
<1>5. CASE Seed
  BY <1>1, <1>5, SameQuery DEF Seed, Filled
<1>6. CASE PopNext
  BY <1>1, <1>6, SameQuery DEF PopNext, Filled
<1>7. CASE NotifyParent \/ NotifyOther
  <2>1. pc = "work" /\ pc' = "work" /\ UNCHANGED <<db, plan, computed>>
    BY <1>7, ParentSteps, KinSteps DEF Notified
  <2> QED BY <1>1, <2>1, SameQuery DEF Filled
<1>8. CASE Outcome
  <2>1. UNCHANGED <<db, plan, computed, pending>>
    BY <1>8, OutcomeFrame
  <2>2. UNCHANGED pc \/ (pc' = "done" /\ pc = "work") \/ pc' \in {"failed", "panicked"}
    BY <1>8 DEF Outcome, PushPanics, UseUnresolved, Finish, FinishWithoutImplicit, Answer, Dry, Abort, vars
  <2>3. pc' \in {"roots", "drain", "work", "done"} => pc \in {"roots", "drain", "work", "done"}
    BY <2>2
  <2>4. pc' \in {"roots", "drain", "work", "done"} => (pc' = "drain" <=> pc = "drain")
    BY <2>2
  <2>5. pc' \in {"roots", "drain", "work", "done"} => Filled' = Filled
    BY <2>1, <2>4, SameQuery DEF Filled
  <2> QED BY <1>1, <2>1, <2>3, <2>5
<1> QED BY <1>2, <1>3, <1>4, <1>5, <1>6, <1>7, <1>8, Steps

\* What was visible stays as it was while a batch fills its layers.
LEMMA BatchIsInvisible ==
  ASSUME Typing, Stored, Materialise, NEW E, E \subseteq eph
  PROVE  /\ CurrentRows(Visible(E))' = CurrentRows(Visible(E))
         /\ HasRows(Visible(E))' = HasRows(Visible(E))
<1> DEFINE vis == Visible(E)
<1>1. \A i \in DOMAIN db.inst : SymOf(i) \in DOMAIN db.sym
  BY DEF Stored, Materialise
<1>2. \A i \in DOMAIN db.inst : /\ i \in DOMAIN db'.inst /\ db'.inst[i] = db.inst[i]
                                /\ db'.sym[db.inst[i].sym] = db.sym[db.inst[i].sym]
  BY <1>1, RowsOfBatch DEF SymOf
<1>3. ASSUME NEW i \in DOMAIN db'.inst \ DOMAIN db.inst
      PROVE  db'.inst[i].layer \notin vis
  <2>1. PICK s \in Filled' : s \notin computed /\ i \in DOMAIN q.rows[s].inst /\ db'.inst[i] = q.rows[s].inst[i]
    BY <1>3, RowsOfBatch
  <2>2. s \in Statements /\ q.n \in Nat
    BY SameQuery DEF Filled, Typing, TypedPlan, WellFormed, Materialise
  <2>3. PICK case \in Cases : q = case.q
    BY DEF Stored, Materialise
  <2>4. q.rows[s].inst[i].layer = - s
    BY <2>1, <2>2, <2>3, CasesAssumption DEF Inserts, Statements
  <2>5. s \in Nat /\ s > 0
    BY <2>2 DEF Statements
  <2>6. - s \notin Roots
    BY <2>5, RootsAssumption
  <2>7. - s \notin eph
    <3>1. eph = {Layer(t) : t \in {u \in computed : HasLayerSpec(u)}} /\ computed \subseteq Nat
      BY DEF Typing, TypedRoots, TypedPlan, WellFormed
    <3>2. \A t \in computed : - t # - s
      BY <2>1, <2>5, <3>1
    <3> QED BY <3>1, <3>2 DEF Layer
  <2> QED BY <2>1, <2>4, <2>6, <2>7 DEF Visible
<1> HIDE DEF vis
<1>4. CurrentRows(vis)' = CurrentRows(vis)
  <2>1. CurrentRows(vis)' = {i \in DOMAIN db'.inst : db'.inst[i].layer \in vis /\ db'.sym[db'.inst[i].sym].layer \in vis}
    BY DEF CurrentRows, SymOf, vis, Visible
  <2> QED BY <1>2, <1>3, <2>1 DEF CurrentRows, SymOf
<1>5. \A i \in CurrentRows(vis) : /\ db'.inst[i] = db.inst[i] /\ LevelOf(i)' = LevelOf(i)
  BY <1>2 DEF CurrentRows, LevelOf, SymOf
<1>6. HasRows(vis)' = HasRows(vis)
  <2>1. HasRows(vis)' = {h \in [parent : CurrentRows(vis), child : CurrentRows(vis)] :
          /\ h.parent # h.child /\ Covers(db'.inst[h.parent], db'.inst[h.child])
          /\ LevelOf(h.parent)' >= LevelOf(h.child)'}
    BY <1>4 DEF HasRows, vis, Visible
  <2> QED BY <1>5, <2>1 DEF HasRows
<1> QED BY <1>4, <1>6 DEF vis, Visible

LEMMA StoredInvariance == Spec => []Stored
BY StoredInit, StoredNext, ExecutorTyped, PTL DEF Spec

\* Batches follow one another.
LEMMA BatchedNext ==
  ASSUME Typing, Batched, [Next]_vars
  PROVE  Batched'
<1>1. CASE UNCHANGED <<plan, pending, computed, eph>>
  BY <1>1 DEF Batched, plan
<1>2. CASE Push
  <2>1. UNCHANGED <<plan, computed, eph>> /\ q' = q /\ pending' = pending \cup {Queued(nxt)} /\ Queued(nxt).eph = eph
    BY <1>2 DEF Push, plan, Queued
  <2> QED BY <2>1 DEF Batched
<1>3. CASE Drain
  <2>1. computed' = 1 .. nxt - 1 /\ pending' = {} /\ q' = q
    BY <1>3, DrainResult DEF Drain, plan, Typing
  <2>2. nxt - 1 \in 0 .. q.n
    BY DEF Typing, TypedRoots, TypedPlan, WellFormed
  <2> QED BY <2>1, <2>2 DEF Batched
<1>4. CASE Materialise \/ Seed \/ PopNext
  BY <1>1, <1>4 DEF Materialise, Seed, PopNext
<1>5. CASE NotifyParent \/ NotifyOther
  BY <1>1, <1>5, ParentSteps, KinSteps DEF Notified
<1>6. CASE Outcome
  BY <1>1, <1>6, OutcomeFrame
<1> QED BY <1>2, <1>3, <1>4, <1>5, <1>6, Steps

LEMMA BatchedInit == Init => Batched
<1> SUFFICES ASSUME Init PROVE Batched
  OBVIOUS
<1>1. q.n \in Nat
  BY CasesAssumption DEF Init, WellFormed
<1>2. 0 \in 0 .. q.n /\ 1 .. 0 = {}
  BY <1>1
<1> QED BY <1>2 DEF Init, Batched

\* Of two chains one is part of the other.
LEMMA ChainsNest ==
  ASSUME WellFormed(q), NEW A \in Chains, NEW B \in Chains
  PROVE  A \subseteq B \/ B \subseteq A
<1>1. PICK a \in 0 .. q.n : A = Chain(a)
  BY DEF Chains
<1>2. PICK b \in 0 .. q.n : B = Chain(b)
  BY DEF Chains
<1>3. q.n \in Nat
  BY DEF WellFormed
<1>4. CASE a <= b
  <2>1. 1 .. a \subseteq 1 .. b
    BY <1>3, <1>4
  <2> QED BY <1>1, <1>2, <2>1 DEF Chain
<1>5. CASE b <= a
  <2>1. 1 .. b \subseteq 1 .. a
    BY <1>3, <1>5
  <2> QED BY <1>1, <1>2, <2>1 DEF Chain
<1> QED BY <1>3, <1>4, <1>5

\* The chain of a request.
LEMMA EphIsChain ==
  ASSUME Typing, Batched
  PROVE  eph \in Chains
<1>1. PICK m \in 0 .. q.n : computed = 1 .. m
  BY DEF Batched
<1>2. eph = Chain(m)
  BY <1>1 DEF Typing, TypedRoots, Chain
<1> QED BY <1>2 DEF Chains

\* The chain that a query of the batch sees.
LEMMA LocalIsChain ==
  ASSUME Typing, Batched, LayersFirst, LayersInSequence, NEW p \in pending
  PROVE  LocalEph(p) \in Chains /\ Ephemeral(LocalEph(p)) /\ p.st \in Statements
<1>1. p.eph = eph
  BY DEF Batched
<1>2. p.st \in Statements /\ q.n \in Nat /\ p.st \notin computed
  BY DEF Typing, TypedRoots, TypedPlan, WellFormed, Statements
<1>3. Ephemeral(LocalEph(p))
  <2>1. Layer(p.st) \in {l \in Int : l < 0}
    BY <1>2 DEF Statements, Layer
  <2> QED BY <1>1, <2>1, LayersAreEphemeral DEF LocalEph, Ephemeral
<1>4. CASE ~HasLayerSpec(p.st)
  BY <1>1, <1>2, <1>3, <1>4, EphIsChain DEF LocalEph
<1>5. CASE HasLayerSpec(p.st)
  <2>1. \A l \in 1 .. p.st - 1 : HasLayerSpec(l) => Layer(l) \in eph
    <3> SUFFICES ASSUME NEW l \in 1 .. p.st - 1, HasLayerSpec(l) PROVE Layer(l) \in eph
      OBVIOUS
    <3>1. l \in Statements /\ l < p.st
      BY <1>2 DEF Statements
    <3>2. q.parent[l] = 0 /\ l < Root(p.st)
      BY <1>2, <1>5, <3>1 DEF LayersInSequence
    <3>3. Root(p.st) \in Statements /\ Root(p.st) <= p.st /\ q.parent[Root(p.st)] = 0
      BY <1>2, RootType DEF Typing, TypedPlan
    <3> QED BY <1>1, <3>1, <3>2, <3>3 DEF LayersFirst
  <2>2. PICK m \in 0 .. q.n : computed = 1 .. m
    BY DEF Batched
  <2>3. 1 .. m \subseteq 1 .. p.st - 1
    BY <1>2, <2>2 DEF Statements
  <2>4. eph = Chain(m)
    BY <2>2 DEF Typing, TypedRoots, Chain
  <2>5. eph \subseteq Chain(p.st - 1)
    BY <2>3, <2>4 DEF Chain
  <2>6. eph = Chain(p.st - 1)
    BY <2>1, <2>5 DEF Chain
  <2>7. 1 .. p.st = (1 .. p.st - 1) \cup {p.st}
    BY <1>2 DEF Statements
  <2>8. LocalEph(p) = Chain(p.st)
    BY <1>1, <1>5, <2>6, <2>7 DEF LocalEph, Chain
  <2>9. p.st \in 0 .. q.n
    BY <1>2 DEF Statements
  <2> QED BY <1>2, <1>3, <2>8, <2>9 DEF Chains
<1> QED BY <1>4, <1>5

-----------------------------------------------------------------------------
(* Containment: what makes a selection keeps it contained.                 *)

LEMMA MoreLayersContain ==
  ASSUME NEW x, NEW A, NEW B, A \subseteq B, Contained(x, A)
  PROVE  Contained(x, B)
<1>1. HasRows(Visible(A)) \subseteq HasRows(Visible(B))
  BY MoreLayersMoreRows DEF Visible
<1> QED BY <1>1 DEF Contained

LEMMA NoRowsContained == \A L : Contained(NoRows, L)
BY DEF Contained, NoRows

\* find_symbol loads every containment around what it finds, under its chain.
LEMMA FindSymbolContains ==
  ASSUME NEW E \in Chains, Ephemeral(E), NEW L, E \subseteq L, NEW matching, NEW parents, NEW children
  PROVE  Contained(FindSymbol(matching, parents, children, E), L)
<1> DEFINE rows == [vis \in Views(E) |-> HasRows(vis)]
           has == LoadHas(E, FALSE, rows)
           current == matching \cap LoadCurrent(E)
           x == FindSymbol(matching, parents, children, E)
<1>1. /\ x.nodes = current
      /\ x.hp = has \cap [parent : DOMAIN db.inst, child : current]
      /\ x.hc = has \cap [parent : current, child : DOMAIN db.inst]
  BY DEF FindSymbol
<1>2. current \subseteq CurrentRows(Visible(E))
  BY CurrentIsWhole
<1>3. has = HasRows(Visible(E))
  <2>1. rows[Visible(E)] = HasRows(Visible(E)) /\ rows[Roots] = HasRows(Roots)
    BY DEF Views
  <2>2. HasRows(Roots) \subseteq HasRows(Visible(E))
    BY MoreLayersMoreRows DEF Visible
  <2> HIDE DEF rows
  <2> QED BY <2>1, <2>2, HasIsWhole
<1> HIDE DEF has, current, x
<1>4. \A h \in HasRows(Visible(E)) :
        /\ h = [parent |-> h.parent, child |-> h.child]
        /\ h.parent \in DOMAIN db.inst /\ h.child \in DOMAIN db.inst
  BY DEF HasRows, CurrentRows
<1>5. \A i \in current : \A h \in HasRows(Visible(E)) :
        (h.child = i => h \in x.hp) /\ (h.parent = i => h \in x.hc)
  BY <1>1, <1>3, <1>4
<1>6. HasRows(Visible(E)) \subseteq HasRows(Visible(L))
  BY MoreLayersMoreRows DEF Visible
<1>7. Contained(x, L)
  BY <1>1, <1>2, <1>3, <1>5, <1>6 DEF Contained
<1> QED BY <1>7 DEF x

LEMMA ConstraintContains ==
  ASSUME NEW sel \in Selections, NEW L, Contained(sel, L),
         NEW dep, NEW role \in {"Parent", "Child", "User"}, NEW rel
  PROVE  Contained(ConstrainSelection(sel, dep, role, rel), L)
<1>1. ASSUME NEW nodes, nodes \subseteq sel.nodes
      PROVE  Contained([sel EXCEPT !.nodes = nodes], L)
  <2> DEFINE new == [sel EXCEPT !.nodes = nodes]
  <2>1. new.nodes \subseteq sel.nodes /\ new.hp = sel.hp /\ new.hc = sel.hc
    BY <1>1 DEF Selections
  <2> HIDE DEF new
  <2>2. Contained(new, L)
    BY <2>1 DEF Contained
  <2> QED BY <2>2 DEF new
<1>2. CASE role = "Parent"
  BY <1>1, <1>2 DEF ConstrainSelection, ConstrainByChild
<1>3. CASE role = "Child"
  BY <1>1, <1>3 DEF ConstrainSelection, ConstrainByParent
<1>4. CASE role = "User"
  BY <1>1, <1>4 DEF ConstrainSelection, ConstrainByOwner
<1> QED BY <1>2, <1>3, <1>4

LEMMA SelectionContains ==
  ASSUME NEW s, NEW R, NEW L, \A k \in Keys(s) : \A x \in R[s][k] : Contained(x, L)
  PROVE  \A x \in Selection(s, R) : Contained(x, L)
<1> DEFINE parts == UNION {R[s][k] : k \in Gathered(s, R)}
<1>1. \A x \in parts : Contained(x, L)
  BY DEF Gathered
<1> HIDE DEF parts
<1>2. Contained(Extend(parts), L)
  BY <1>1 DEF Contained, Extend
<1> QED BY <1>2 DEF Selection, parts

LEMMA SameChains ==
  ASSUME UNCHANGED plan
  PROVE  LayersInSequence' = LayersInSequence /\ Chains' = Chains
<1>1. q' = q
  BY DEF plan
<1>2. \A s : Root(s)' = Root(s)
  BY <1>1 DEF Root, Statements
<1> QED BY <1>1, <1>2, SameQuery DEF LayersInSequence, Chains, Chain

\* A selection stays contained as long as the index does.
LEMMA SameContained ==
  ASSUME UNCHANGED <<db, plan>>
  PROVE  \A x, L : Contained(x, L)' = Contained(x, L)
<1>1. db' = db /\ Chains' = Chains
  BY SameChains
<1>2. \A i : SymOf(i)' = SymOf(i) /\ LevelOf(i)' = LevelOf(i)
  BY <1>1 DEF SymOf, LevelOf
<1>3. \A L : CurrentRows(Visible(L))' = CurrentRows(Visible(L))
  BY <1>1, <1>2 DEF CurrentRows, Visible
<1>4. \A L : HasRows(Visible(L))' = HasRows(Visible(L))
  BY <1>1, <1>2, <1>3 DEF HasRows, Visible
<1> QED BY <1>1, <1>3, <1>4 DEF Contained

\* ... and while a batch fills its layers.
LEMMA BatchContains ==
  ASSUME Typing, Stored, Materialise, NEW x, Contained(x, eph)
  PROVE  Contained(x, eph)'
<1> PICK e : e = eph
  OBVIOUS
<1>1. eph' = e /\ Chains' = Chains
  BY SameChains DEF Materialise
<1>2. \A E : E \subseteq e => /\ CurrentRows(Visible(E))' = CurrentRows(Visible(E))
                              /\ HasRows(Visible(E))' = HasRows(Visible(E))
  BY BatchIsInvisible
<1>3. HasRows(Visible(e))' = HasRows(Visible(e))
  BY <1>2
<1>4. Contained(x, e)' = Contained(x, e)
  BY <1>1, <1>2, <1>3 DEF Contained
<1>5. Contained(x, eph)' = Contained(x, e)'
  BY <1>1 DEF Contained, Visible
<1> QED BY <1>4, <1>5

\* What a notification stores.
LEMMA NotificationContains ==
  ASSUME Typing, Batched, LayersInSequence, AllContained, cur \in Statements, GetSelection(cur) # {},
         NEW d \in Statements, NEW k \in Keys(d)
  PROVE  /\ \A x \in FromChildren(d, k) : Contained(x, eph)
         /\ \A role \in {"Child", "User"} : \A x \in Accepted(d, k, role) : Contained(x, eph)
         /\ \A x \in GetSelection(cur) : Contained(x, eph)
<1>1. /\ reg[d][k] \in Optional /\ \A x \in reg[d][k] : Contained(x, eph)
      /\ once[d][k] \in Optional /\ \A x \in once[d][k] : Contained(x, eph)
  BY DEF Typing, TypedRegistry, Registry, AllContained
<1>2. /\ reg[d][k] # {} => Only(reg[d][k]) \in Selections /\ Contained(Only(reg[d][k]), eph)
      /\ once[d][k] # {} => Only(once[d][k]) \in Selections /\ Contained(Only(once[d][k]), eph)
  BY <1>1, OptionalType
<1>3. ASSUME NEW ids, NEW parents, NEW children
      PROVE  Contained(ById(ids, d, parents, children), eph)
  BY EphIsChain, LayersAreEphemeral, FindSymbolContains DEF ById, CommandFilter
<1>4. \A x \in GetSelection(cur) : Contained(x, eph)
  BY SelectionContains DEF GetSelection, AllContained
<1>5. \A x \in FromChildren(d, k) : Contained(x, eph)
  BY <1>2, <1>3, ConstraintContains DEF FromChildren
<1>6. ASSUME NEW role \in {"Child", "User"}, NEW x \in Accepted(d, k, role)
      PROVE  Contained(x, eph)
  <2>1. CASE Constrained(d, k, role)
    <3>1. reg[d][k] # {}
      BY <2>1 DEF Constrained, Derives
    <3>2. x = ConstrainSelection(Only(reg[d][k]), Only(GetSelection(cur)), role,
                IF role = "Child" THEN q.rel[d] ELSE q.rel[cur])
      BY <1>6, <2>1 DEF Accepted
    <3> QED BY <1>2, <3>1, <3>2, ConstraintContains
  <2>2. CASE ~Constrained(d, k, role) /\ ~Derives(d, k, role)
    BY <1>1, <1>6, <2>2 DEF Accepted
  <2>3. CASE ~Constrained(d, k, role) /\ Derives(d, k, role) /\ role = "Child"
    <3>1. x = FromParent(d, k)
      BY <1>6, <2>3 DEF Accepted
    <3>2. CASE Kind(d, k) \notin {"forced", "useForced"}
      BY <1>3, <3>1, <3>2 DEF FromParent
    <3>3. CASE Kind(d, k) \in {"forced", "useForced"} /\ once[d][k] = {}
      BY <3>1, <3>3, NoRowsContained DEF FromParent
    <3>4. CASE Kind(d, k) \in {"forced", "useForced"} /\ once[d][k] # {}
      <4> DEFINE o == Only(once[d][k])
                 forced == ForcedRows(IdsOf(GetSelection(cur)), o.nodes)
      <4>1. x = [o EXCEPT !.parents = forced] /\ o \in Selections /\ Contained(o, eph)
        BY <1>2, <3>1, <3>4 DEF FromParent, CommandFilter
      <4> HIDE DEF o, forced
      <4>2. x.nodes = o.nodes /\ x.hp = o.hp /\ x.hc = o.hc
        BY <4>1 DEF Selections
      <4> QED BY <4>1, <4>2 DEF Contained
    <3> QED BY <3>2, <3>3, <3>4
  <2>4. CASE ~Constrained(d, k, role) /\ Derives(d, k, role) /\ role = "User"
    <3>1. x \in FromProvider(d, k)
      BY <1>6, <2>4 DEF Accepted
    <3>2. x = Only(GetSelection(cur))
      BY <3>1 DEF FromProvider, CommandFilter
    <3> QED BY <1>4, <3>2 DEF Only
  <2> QED BY <2>1, <2>2, <2>3, <2>4
<1> QED BY <1>4, <1>5, <1>6

LEMMA ContainedUpdate ==
  ASSUME AllContained, UNCHANGED <<db, plan, eph>>,
         LayersInSequence => \A s \in Statements : \A k \in Keys(s) :
           \A x \in reg'[s][k] \cup once'[s][k] : Contained(x, eph)
  PROVE  AllContained'
<1> PICK e : e = eph
  OBVIOUS
<1>1. \A x : Contained(x, eph)' = Contained(x, e)'
  BY DEF Contained, Visible
<1>2. \A x : Contained(x, eph)' = Contained(x, eph)
  BY <1>1, SameContained
<1> QED BY <1>2, SameChains, SameQuery DEF AllContained

\* The results of a batch, each under the chain its statement captured.
LEMMA ContainedDrain ==
  ASSUME Typing, Batched, LayersFirst, AllContained, Drain
  PROVE  AllContained'
<1> PICK e : e = eph'
  OBVIOUS
<1>1. UNCHANGED <<db, plan>> /\ eph \subseteq e
  BY DEF Drain
<1> SUFFICES ASSUME LayersInSequence, NEW s \in Statements, NEW k \in Keys(s),
                    NEW x \in reg'[s][k] \cup once'[s][k]
             PROVE  Contained(x, e)
  <2>1. \A x : Contained(x, eph)' = Contained(x, e)'
    BY DEF Contained, Visible
  <2>2. \A x : Contained(x, eph)' = Contained(x, e)
    BY <1>1, <2>1, SameContained
  <2> QED BY <1>1, <2>2, SameChains, SameQuery DEF AllContained
<1>2. ASSUME x \in reg[s][k] \cup once[s][k]
      PROVE  Contained(x, e)
  BY <1>1, <1>2, MoreLayersContain DEF AllContained
<1>3. CASE \A p \in pending : p.st # s
  <2>1. reg'[s] = reg[s]
    BY <1>3, DrainResult DEF Typing
  <2>2. once'[s][k] = once[s][k]
    BY <1>3 DEF Drain
  <2> QED BY <1>2, <2>1, <2>2
<1>4. ASSUME NEW p \in pending, p.st = s
      PROVE  Contained(x, e)
  <2>1. LocalEph(p) \in Chains /\ Ephemeral(LocalEph(p))
    BY LocalIsChain
  <2>2. LocalEph(p) \subseteq e
    <3>1. p.eph = eph /\ e = eph \cup {Layer(t) : t \in {u \in {o.st : o \in pending} : HasLayerSpec(u)}}
      BY DEF Batched, Drain
    <3> QED BY <3>1 DEF LocalEph
  <2>3. \A matching : Contained(FindSymbol(matching, p.parents, p.children, LocalEph(p)), e)
    BY <2>1, <2>2, FindSymbolContains
  <2>4. \A y \in Computed(p, k) : Contained(y, e)
    <3>1. Kind(p.st, k) \in Kinds
      BY <1>4 DEF Typing, TypedPlan, WellFormed, Statements, Keys, Kind
    <3>2. \A y \in Computed(p, k) :
            y = NoRows \/ \E matching : y = FindSymbol(matching, p.parents, p.children, LocalEph(p))
      BY <3>1 DEF Kinds, Computed, Query, OwnLayer, CommandFilter
    <3> QED BY <2>3, <3>2, NoRowsContained
  <2>5. reg'[s][k] = Computed(p, k)
    BY <1>4, DrainResult DEF Typing
  <2>6. \A y \in once'[s][k] : y \in once[s][k] \/ y = Query(p, NameFilter(s, k))
    <3> DEFINE Of(t) == CHOOSE o \in pending : o.st = t
               sts == {o.st : o \in pending}
    <3>1. once' = [t \in Statements |-> [j \in Keys(t) |->
                      IF t \in sts /\ Kind(t, j) = "forced"
                      THEN {Query(Of(t), NameFilter(t, j))} ELSE once[t][j]]]
      BY DEF Drain
    <3>2. Of(s) = p
      BY <1>4 DEF Typing, TypedRoots
    <3> HIDE DEF Of, sts
    <3>3. once'[s][k] = IF s \in sts /\ Kind(s, k) = "forced"
                        THEN {Query(p, NameFilter(s, k))} ELSE once[s][k]
      BY <3>1, <3>2
    <3> QED BY <3>3
  <2>7. Contained(Query(p, NameFilter(s, k)), e)
    BY <2>3 DEF Query
  <2> QED BY <1>2, <2>4, <2>5, <2>6, <2>7
<1> QED BY <1>3, <1>4

LEMMA ContainedNext ==
  ASSUME Typing, Batched, LayersFirst, Stored, AllContained, [Next]_vars
  PROVE  AllContained'
<1>1. CASE UNCHANGED <<db, plan, eph, reg, once>>
  BY <1>1, ContainedUpdate DEF AllContained
<1>2. CASE Push \/ Seed
  BY <1>1, <1>2 DEF Push, Seed
<1>3. CASE Materialise
  <2>1. UNCHANGED <<plan, reg, once>>
    BY <1>3 DEF Materialise
  <2> QED BY <1>3, <2>1, BatchContains, SameChains, SameQuery DEF AllContained
<1>4. CASE Drain
  BY <1>4, ContainedDrain
<1>5. CASE PopNext
  <2>1. UNCHANGED <<db, plan, eph, once>>
    BY <1>5 DEF PopNext
  <2>2. PICK t \in Statements :
          /\ reg' = [reg EXCEPT ![t] = Refreshed(t)]
          /\ DOMAIN Refreshed(t) = Keys(t)
    BY <1>5, PopResult
  <2>3. DOMAIN reg = Statements
    BY DEF Typing, TypedRegistry, Registry
  <2>4. ASSUME NEW s \in Statements, NEW k \in Keys(s), NEW x \in reg'[s][k]
        PROVE  x \in reg[s][k] \cup once[s][k]
    <3>1. CASE s # t
      BY <2>2, <2>3, <2>4, <3>1
    <3>2. CASE s = t
      <4>1. reg'[s][k] = Refreshed(t)[k]
        BY <2>2, <2>3, <3>2
      <4> QED BY <2>4, <3>2, <4>1 DEF Refreshed
    <3> QED BY <3>1, <3>2
  <2> QED BY <2>1, <2>4, ContainedUpdate DEF AllContained
<1>6. CASE NotifyParent
  <2>1. PICK p \in Statements :
          /\ p = Dependent.st /\ cur # 0
          /\ Notified(reg[p], FALSE, {})
             \/ Notified(FromKids(p), KidsChange(p), {k \in Keys(p) : reg[p][k] # {}})
          /\ UNCHANGED once
    BY <1>6, ParentSteps
  <2>2. PICK new \in {reg[p], FromKids(p)} : reg' = [reg EXCEPT ![p] = new]
    BY <2>1 DEF Notified
  <2>3. UNCHANGED <<db, plan, eph, once>>
    BY <2>1 DEF Notified
  <2>4. DOMAIN reg = Statements /\ cur \in Statements /\ GetSelection(cur) # {}
    BY <2>1 DEF Typing, TypedRegistry, Registry, TypedWork
  <2>5. ASSUME LayersInSequence, NEW s \in Statements, NEW k \in Keys(s), NEW x \in reg'[s][k]
        PROVE  Contained(x, eph)
    <3>1. CASE s # p \/ new = reg[p]
      <4>1. reg'[s] = reg[s]
        BY <2>2, <2>4, <3>1
      <4> QED BY <2>5, <4>1 DEF AllContained
    <3>2. CASE s = p /\ new = FromKids(p)
      <4>1. reg'[s][k] = FromChildren(p, k)
        BY <2>2, <2>4, <3>2 DEF FromKids
      <4> QED BY <2>4, <2>5, <3>2, <4>1, NotificationContains
    <3> QED BY <2>2, <3>1, <3>2
  <2>6. LayersInSequence => \A s \in Statements : \A k \in Keys(s) : \A x \in once'[s][k] : Contained(x, eph)
    BY <2>3 DEF AllContained
  <2> QED BY <2>3, <2>5, <2>6, ContainedUpdate
<1>7. CASE NotifyOther
  <2>1. PICK d \in Statements, role \in {"Child", "User"} :
          /\ d = Dependent.st /\ cur # 0
          /\ Notified(FromKin(d, role), KinChange(d, role),
                      {k \in Keys(d) : Constrained(d, k, role) /\ ~Uses(d, k)})
          /\ once' = [once EXCEPT ![d] = [k \in Keys(d) |->
               IF role = "User" /\ Derives(d, k, role) /\ Kind(d, k) = "useForced" /\ @[k] = {}
               THEN GetSelection(cur) ELSE @[k]]]
    BY <1>7, KinSteps
  <2>2. reg' = [reg EXCEPT ![d] = FromKin(d, role)] /\ UNCHANGED <<db, plan, eph>>
    BY <2>1 DEF Notified
  <2>3. DOMAIN reg = Statements /\ DOMAIN once = Statements /\ cur \in Statements /\ GetSelection(cur) # {}
    BY <2>1 DEF Typing, TypedRegistry, Registry, TypedWork
  <2>4. ASSUME LayersInSequence, NEW s \in Statements, NEW k \in Keys(s), NEW x \in reg'[s][k] \cup once'[s][k]
        PROVE  Contained(x, eph)
    <3>1. CASE s # d
      <4>1. reg'[s] = reg[s] /\ once'[s] = once[s]
        BY <2>1, <2>2, <2>3, <3>1
      <4> QED BY <2>4, <4>1 DEF AllContained
    <3>2. CASE s = d
      <4>1. reg'[s][k] = Accepted(d, k, role)
        BY <2>2, <2>3, <3>2 DEF FromKin
      <4>2. once'[s][k] = once[s][k] \/ once'[s][k] = GetSelection(cur)
        BY <2>1, <2>3, <3>2
      <4>3. x \in Accepted(d, k, role) \/ x \in once[d][k] \/ x \in GetSelection(cur)
        BY <2>4, <3>2, <4>1, <4>2
      <4> QED BY <2>3, <2>4, <3>2, <4>3, NotificationContains DEF AllContained
    <3> QED BY <3>1, <3>2
  <2> QED BY <2>2, <2>4, ContainedUpdate
<1>8. CASE Outcome
  BY <1>1, <1>8, OutcomeFrame
<1> QED BY <1>2, <1>3, <1>4, <1>5, <1>6, <1>7, <1>8, Steps

LEMMA ContainedInvariance == Spec => []AllContained /\ []Batched
<1>1. Init => LayersFirst
  BY DEF Init, LayersFirst, Statements
<1>2. Init => AllContained
  BY DEF Init, AllContained
<1> DEFINE Inv == Batched /\ LayersFirst /\ AllContained
<1>3. Init => Inv
  BY <1>1, <1>2, BatchedInit
<1>4. Typing /\ Stored /\ Inv /\ [Next]_vars => Inv'
  BY BatchedNext, LayersFirstNext, ContainedNext
<1>5. Inv => AllContained /\ Batched
  OBVIOUS
<1> HIDE DEF Inv
<1> QED BY <1>3, <1>4, <1>5, ExecutorTyped, StoredInvariance, PTL DEF Spec

\* Between nodes of the answer the statements have loaded every containment:
\* the node that saw the longer chain has it.
LEMMA ContainmentsAreLoaded ==
  ASSUME Typing, AllContained, LayersInSequence,
         NEW h, h.parent \in AllNodes, h.child \in AllNodes
  PROVE  h \in UNION {RowsOf(s, "hc") \cup RowsOf(s, "hp") : s \in Statements}
           <=> h \in HasRows(Visible(eph))
<1>1. \A s \in Statements : \A x \in GetSelection(s) : Contained(x, eph)
  BY SelectionContains DEF GetSelection, AllContained
<1>2. ASSUME NEW s \in Statements, h \in RowsOf(s, "hc") \cup RowsOf(s, "hp")
      PROVE  h \in HasRows(Visible(eph))
  BY <1>1, <1>2 DEF RowsOf, Contained
<1>3. ASSUME h \in HasRows(Visible(eph))
      PROVE  \E s \in Statements : h \in RowsOf(s, "hc") \cup RowsOf(s, "hp")
  <2>1. PICK s \in Statements : \E x \in GetSelection(s) : h.parent \in x.nodes
    BY DEF AllNodes, IdsOf
  <2>2. PICK x \in GetSelection(s) : h.parent \in x.nodes
    BY <2>1
  <2>3. PICK A \in Chains :
          /\ h.parent \in CurrentRows(Visible(A))
          /\ \A g \in HasRows(Visible(A)) : g.parent = h.parent => g \in x.hc
    BY <1>1, <2>2 DEF Contained
  <2>4. PICK t \in Statements : \E y \in GetSelection(t) : h.child \in y.nodes
    BY DEF AllNodes, IdsOf
  <2>5. PICK y \in GetSelection(t) : h.child \in y.nodes
    BY <2>4
  <2>6. PICK C \in Chains :
          /\ h.child \in CurrentRows(Visible(C))
          /\ \A g \in HasRows(Visible(C)) : g.child = h.child => g \in y.hp
    BY <1>1, <2>5 DEF Contained
  <2>7. \A E : h.parent \in CurrentRows(Visible(E)) /\ h.child \in CurrentRows(Visible(E))
                 => h \in HasRows(Visible(E))
    BY <1>3 DEF HasRows
  <2>8. CASE A \subseteq C
    <3>1. h.parent \in CurrentRows(Visible(C))
      BY <2>3, <2>8, MoreLayersMoreRows DEF Visible
    <3>2. h \in y.hp
      BY <2>6, <2>7, <3>1
    <3> QED BY <2>4, <2>5, <3>2 DEF RowsOf
  <2>9. CASE C \subseteq A
    <3>1. h.child \in CurrentRows(Visible(A))
      BY <2>6, <2>9, MoreLayersMoreRows DEF Visible
    <3>2. h \in x.hc
      BY <2>3, <2>7, <3>1
    <3> QED BY <2>1, <2>2, <3>2 DEF RowsOf
  <2> QED BY <2>8, <2>9, ChainsNest DEF Typing, TypedPlan
<1> QED BY <1>2, <1>3

\* The containments of the index between some nodes, the tightest ones.
Around(nodes, c) == {a \in nodes : [parent |-> a, child |-> c] \in HasRows(Visible(eph))}
Tightest(nodes) ==
  {[child |-> c, parents |-> {a \in Around(nodes, c) : \A o \in Around(nodes, c) : Span(a) <= Span(o)}] :
     c \in {i \in nodes : Around(nodes, i) # {}}}

\* collect_has_edges over the rows that were loaded.
LEMMA EdgesAreTightest ==
  ASSUME Typing, AllContained, LayersInSequence
  PROVE  HasEdges = Tightest(AllNodes)
<1> DEFINE all == UNION {RowsOf(s, "hc") \cup RowsOf(s, "hp") : s \in Statements}
           rows == {h \in all : h.parent \in AllNodes /\ h.child \in AllNodes}
           Above(c) == {h.parent : h \in {r \in rows : r.child = c}}
<1>1. HasEdges = {[child |-> c, parents |-> {p \in Above(c) : \A o \in Above(c) : Span(p) <= Span(o)}] :
                    c \in {h.child : h \in rows}}
  BY DEF HasEdges
<1>2. rows = {h \in HasRows(Visible(eph)) : h.parent \in AllNodes /\ h.child \in AllNodes}
  BY ContainmentsAreLoaded
<1> HIDE DEF rows
<1>3. \A h \in HasRows(Visible(eph)) : h = [parent |-> h.parent, child |-> h.child]
  BY DEF HasRows
<1>4. \A c \in AllNodes : Above(c) = Around(AllNodes, c)
  BY <1>2, <1>3 DEF Around
<1>5. {h.child : h \in rows} = {i \in AllNodes : Around(AllNodes, i) # {}}
  <2>1. \A h \in rows : h.child \in AllNodes /\ h.parent \in Around(AllNodes, h.child)
    BY <1>2, <1>3 DEF Around
  <2>2. ASSUME NEW i \in AllNodes, NEW a \in Around(AllNodes, i)
        PROVE  \E h \in rows : h.child = i
    <3>1. [parent |-> a, child |-> i] \in rows
      BY <1>2, <2>2 DEF Around
    <3> QED BY <3>1
  <2> QED BY <2>1, <2>2
<1> HIDE DEF Above
<1> QED BY <1>1, <1>4, <1>5 DEF Tightest

\* The containment edges of the answer are those of the index between its
\* nodes, to the tightest of them (collect_has_edges), although each
\* statement loads rows under the layers it captured: of two nodes, the one
\* with the longer chain has seen what is between them.
THEOREM ContainersAreNearest == Spec => []NearestContainer
<1> DEFINE Nearest == pc = "done" /\ LayersInSequence => result.has = Tightest(result.nodes)
<1>1. Nearest => NearestContainer
  BY DEF NearestContainer, Tightest, Around
<1>2. Init => Nearest
  BY DEF Init
<1>3. ASSUME Typing, AllContained, Nearest, [Next]_vars
      PROVE  Nearest'
  <2>1. CASE pc' # "done"
    BY <2>1
  <2>2. ASSUME UNCHANGED <<db, eph, plan>>
        PROVE  LayersInSequence' = LayersInSequence /\ \A nodes : Tightest(nodes)' = Tightest(nodes)
    <3>1. HasRows(Visible(eph))' = HasRows(Visible(eph)) /\ LayersInSequence' = LayersInSequence
      BY <2>2, SameRows, SameChains
    <3>2. \A i : Span(i)' = Span(i)
      BY <2>2 DEF Span
    <3>3. \A nodes, c : Around(nodes, c)' = Around(nodes, c)
      BY <3>1 DEF Around
    <3> QED BY <3>1, <3>2, <3>3 DEF Tightest
  <2>3. CASE UNCHANGED vars
    <3>1. UNCHANGED <<db, eph, plan, pc, result>>
      BY <2>3, SameVars
    <3> PICK r : r = result
      OBVIOUS
    <3> QED BY <1>3, <2>2, <3>1
  <2>4. ASSUME NEW implicit, NEW lost, Answer(implicit, lost)
        PROVE  Nearest'
    <3> PICK nodes, has : nodes = AllNodes /\ has = HasEdges
      OBVIOUS
    <3>1. UNCHANGED <<db, eph, plan>> /\ result'.nodes = nodes /\ result'.has = has
      BY <2>4 DEF Answer
    <3>2. LayersInSequence => has = Tightest(nodes)
      BY <1>3, EdgesAreTightest
    <3> QED BY <2>2, <3>1, <3>2
  <2> QED BY <1>3, <2>1, <2>3, <2>4, DoneSteps, ExecutorTyped DEF Finish, FinishWithoutImplicit
<1> HIDE DEF Nearest
<1> QED BY <1>1, <1>2, <1>3, ExecutorTyped, ContainedInvariance, PTL DEF Spec
=============================================================================
