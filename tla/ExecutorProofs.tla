--------------------------- MODULE ExecutorProofs ---------------------------
(***************************************************************************)
(* The executor proved for every query, index and set of layers.           *)
(***************************************************************************)
EXTENDS Executor, CodeGraphProofs, SequenceTheorems, FunctionTheorems

\* Selections.
RefSpace == [ref : DOMAIN db.ref \cup {0}, from : DOMAIN db.inst, to : DOMAIN db.inst]
HasSpace == [parent : DOMAIN db.inst, child : DOMAIN db.inst]
Selections == [nodes : SUBSET DOMAIN db.inst, parents : SUBSET RefSpace, children : SUBSET RefSpace,
               hp : SUBSET HasSpace, hc : SUBSET HasSpace]
Optional == {o \in SUBSET Selections : \A x, y \in o : x = y}

Registry(R) ==
  /\ DOMAIN R = Statements
  /\ \A s \in Statements : DOMAIN R[s] = Keys(s) /\ \A k \in Keys(s) : R[s][k] \in Optional

ScopeKinds == {"skip", "unscoped", "scope"}

\* Once the roots are done there is nothing left to queue.
Rooted == pending = {} /\ nxt = q.n + 1

\* The full types of the variables.
TypedPlan ==
  /\ WellFormed(q)
  /\ {"sym", "inst", "ref"} \subseteq DOMAIN db /\ Table(db.inst)
  /\ deps = [s \in Statements |-> DependentsOf(s)]

TypedRoots ==
  /\ nxt \in 1 .. q.n + 1
  /\ computed \cup {p.st : p \in pending} = 1 .. nxt - 1
  /\ \A p \in pending : p.st \notin computed
                        /\ p.parents.kind \in ScopeKinds /\ p.children.kind \in ScopeKinds
  /\ \A p, o \in pending : p.st = o.st => p = o
  /\ eph = {Layer(s) : s \in {t \in computed : HasLayerSpec(t)}}

TypedRegistry == Registry(reg) /\ Registry(once)

TypedWork ==
  /\ work \in Seq(Statements) /\ IsInjective(work)
  /\ cur \in Statements \cup {0}
  /\ IF cur = 0 THEN left = {}
     ELSE left # {} /\ left \subseteq deps[cur] /\ GetSelection(cur) # {}

TypedPhases ==
  /\ pc \in {"roots", "drain", "work"} \cup Final
  /\ pc \in {"roots", "drain"} => cur = 0 /\ work = <<>>
  /\ pc \in {"work", "done"} => Rooted
  /\ pc = "done" => work = <<>> /\ cur = 0

TypedReports ==
  /\ err \in {"none", "circular", "aborted"}
  /\ \A w \in warned : w \in [st : Statements, k : Keys(w.st), kind : {"NoMatch", "Note"}]

Typing == TypedPlan /\ TypedRoots /\ TypedRegistry /\ TypedWork /\ TypedPhases /\ TypedReports

\* The worklist starts only when no statement borrows its own state.
NoBorrow == pc = "panicked" \/ \A s \in Statements : ~BorrowsTwice(s)

\* A layer is computed before a later top-level statement is queued, and
\* what was queued since then has captured it.
LayersFirst ==
  \A l, t \in Statements :
    q.parent[l] = 0 /\ HasLayerSpec(l) /\ q.parent[t] = 0 /\ l < t =>
      /\ t < nxt => l \in computed
      /\ \A p \in pending : t <= p.st => Layer(l) \in p.eph

\* A selection reported empty is there and empty; one that is empty is
\* reported.
ReportedIsEmpty ==
  \A w \in warned :
    ~Uses(w.st, w.k) =>
      w.st \in computed /\ reg[w.st][w.k] # {} /\ IdsOf(reg[w.st][w.k]) = {}
EmptyIsReported ==
  OneSelector({"name"}) =>
    \A s \in computed :
      /\ reg[s][1] # {}
      /\ IdsOf(reg[s][1]) = {} => \E w \in warned : w.st = s /\ w.k = 1

\* A use is within a statement of its label, or the notification that will
\* see to it is still to come.
Provides(l, s, k) == Kind(s, k) = "use" /\ q.sel[s][k].label \in q.labels[l]
Due(l, s, k) == [st |-> s, role |-> "User", at |-> <<s, k>>] \in left /\ cur = l
Within(s, k, l) == reg[s][k] # {} /\ IdsOf(reg[s][k]) \subseteq Nodes(l)
UsesFollow ==
  pc \in {"work", "done"} =>
    \A s, l \in Statements : \A k \in Keys(s) :
      Provides(l, s, k) /\ GetSelection(l) # {} =>
        l \in ToSet(work) \/ Due(l, s, k) \/ Within(s, k, l)

-----------------------------------------------------------------------------
(* Selections and the loads that fill them.                                *)

\* What the loads return are rows of the tables.
LEMMA LoadsAreTyped ==
  ASSUME NEW layers
  PROVE  LoadCurrent(layers) \subseteq DOMAIN db.inst
<1> DEFINE rows == [vis \in Views(layers) |-> CurrentRows(vis)]
<1>1. \A vis : CurrentRows(vis) \subseteq DOMAIN db.inst
  BY DEF CurrentRows
<1>2. rows[Roots] \subseteq DOMAIN db.inst /\ rows[Visible(layers)] \subseteq DOMAIN db.inst
  BY <1>1 DEF Views
<1> QED
  BY <1>2 DEF LoadCurrent, CachedLoad, Branches

LEMMA ScopedIsPart ==
  ASSUME NEW rows, NEW scope, scope.kind \in ScopeKinds, NEW end
  PROVE  Scoped(rows, scope, end) \subseteq rows
BY DEF Scoped, ScopeKinds

\* find_symbol answers a selection of instances it was asked for.
LEMMA FindSymbolType ==
  ASSUME NEW matching, NEW parents, NEW children, NEW layers,
         parents.kind \in ScopeKinds, children.kind \in ScopeKinds
  PROVE  /\ FindSymbol(matching, parents, children, layers) \in Selections
         /\ FindSymbol(matching, parents, children, layers).nodes \subseteq matching
<1> DEFINE refs == LoadRefs(layers, FALSE, [vis \in Views(layers) |-> RefRows(vis)])
           has == LoadHas(layers, FALSE, [vis \in Views(layers) |-> HasRows(vis)])
           current == matching \cap LoadCurrent(layers)
<1>1. FindSymbol(matching, parents, children, layers) =
        [nodes |-> current,
         parents |-> Scoped(RefsInto(refs, current), parents, "from"),
         children |-> Scoped(RefsOutOf(refs, current), children, "to"),
         hp |-> has \cap [parent : DOMAIN db.inst, child : current],
         hc |-> has \cap [parent : current, child : DOMAIN db.inst]]
  BY DEF FindSymbol
<1>2. current \subseteq DOMAIN db.inst /\ current \subseteq matching
  BY LoadsAreTyped
<1> HIDE DEF refs, has, current
<1>3. Scoped(RefsInto(refs, current), parents, "from") \subseteq RefSpace
  <2>1. RefsInto(refs, current) \subseteq RefSpace
    BY <1>2 DEF RefsInto, RefSpace
  <2> QED BY <2>1, ScopedIsPart
<1>4. Scoped(RefsOutOf(refs, current), children, "to") \subseteq RefSpace
  <2>1. RefsOutOf(refs, current) \subseteq RefSpace
    BY <1>2 DEF RefsOutOf, RefSpace
  <2> QED BY <2>1, ScopedIsPart
<1>5. /\ has \cap [parent : DOMAIN db.inst, child : current] \subseteq HasSpace
      /\ has \cap [parent : current, child : DOMAIN db.inst] \subseteq HasSpace
  BY <1>2 DEF HasSpace
<1> QED
  BY <1>1, <1>2, <1>3, <1>4, <1>5 DEF Selections

\* A union of selections is one.
LEMMA ExtendType ==
  ASSUME NEW sels, sels \subseteq Selections
  PROVE  Extend(sels) \in Selections /\ Extend(sels).nodes = IdsOf(sels)
<1>1. /\ UNION {x.nodes : x \in sels} \subseteq DOMAIN db.inst
      /\ UNION {x.parents : x \in sels} \subseteq RefSpace
      /\ UNION {x.children : x \in sels} \subseteq RefSpace
      /\ UNION {x.hp : x \in sels} \subseteq HasSpace
      /\ UNION {x.hc : x \in sels} \subseteq HasSpace
  BY DEF Selections
<1> QED
  BY <1>1 DEF Extend, Selections, IdsOf

\* The combined selection of a statement.
LEMMA SelectionType ==
  ASSUME NEW s \in Statements, NEW R, \A k \in Keys(s) : R[s][k] \in Optional
  PROVE  /\ Selection(s, R) \in Optional
         /\ IdsOf(Selection(s, R)) = UNION {IdsOf(R[s][k]) : k \in Gathered(s, R)}
<1> DEFINE parts == UNION {R[s][k] : k \in Gathered(s, R)}
<1>1. Gathered(s, R) \subseteq Keys(s)
  BY DEF Gathered
<1>2. parts \subseteq Selections
  BY <1>1 DEF Optional
<1>3. IdsOf(parts) = UNION {IdsOf(R[s][k]) : k \in Gathered(s, R)}
  BY DEF IdsOf
<1>4. Extend(parts) \in Selections /\ Extend(parts).nodes = IdsOf(parts)
  BY <1>2, ExtendType
<1>5. Selection(s, R) = IF Gathered(s, R) = {} THEN {} ELSE {Extend(parts)}
  BY DEF Selection
<1> HIDE DEF parts
<1>6. CASE Gathered(s, R) = {}
  BY <1>5, <1>6 DEF Optional, IdsOf
<1>7. CASE Gathered(s, R) # {}
  <2>1. IdsOf({Extend(parts)}) = Extend(parts).nodes
    BY DEF IdsOf
  <2> QED BY <1>3, <1>4, <1>5, <1>7, <2>1 DEF Optional
<1> QED BY <1>6, <1>7

\* The scopes that compute_roots captures and notifications build.
LEMMA CapturedScopes ==
  ASSUME NEW s
  PROVE  ParentScope(s).kind \in ScopeKinds /\ ChildrenScope(s).kind \in ScopeKinds
BY DEF ParentScope, ChildrenScope, Scope, Skip, Unscoped, ScopeKinds

\* A constraint only takes nodes away.
LEMMA ConstraintType ==
  ASSUME NEW sel \in Selections, NEW dep, NEW role \in {"Parent", "Child", "User"}, NEW rel
  PROVE  /\ ConstrainSelection(sel, dep, role, rel) \in Selections
         /\ ConstrainSelection(sel, dep, role, rel).nodes \subseteq sel.nodes
<1>1. ASSUME NEW nodes, nodes \subseteq sel.nodes
      PROVE  [sel EXCEPT !.nodes = nodes] \in Selections /\ [sel EXCEPT !.nodes = nodes].nodes = nodes
  BY <1>1 DEF Selections
<1>2. CASE role = "Parent"
  BY <1>1, <1>2 DEF ConstrainSelection, ConstrainByChild
<1>3. CASE role = "Child"
  BY <1>1, <1>3 DEF ConstrainSelection, ConstrainByParent
<1>4. CASE role = "User"
  BY <1>1, <1>4 DEF ConstrainSelection, ConstrainByOwner
<1> QED BY <1>2, <1>3, <1>4

-----------------------------------------------------------------------------
(* The choices of the worklist are made among what is there.               *)

\* What a statement notifies.
LEMMA DependentsType ==
  ASSUME WellFormed(q), NEW s \in Statements, NEW d \in DependentsOf(s)
  PROVE  /\ d.st \in Statements /\ d.role \in {"Parent", "Child", "User"}
         /\ d.role = "Parent" => d.st = q.parent[s] /\ d.at = <<s, 0>>
         /\ d.role = "Child" => d.st \in Children(s) /\ d.at = <<s, d.st>>
         /\ d.role = "User" => /\ d.st # s
                               /\ \E k \in Keys(d.st) : d.at = <<d.st, k>>
         /\ \E a, b \in Nat : d.at = <<a, b>>
<1>1. s \in Nat /\ q.parent[s] \in Nat /\ q.parent[s] <= s /\ s <= q.n /\ q.n \in Nat
  BY DEF WellFormed, Statements
<1>2. CASE d \in {[st |-> p, role |-> "Parent", at |-> <<s, 0>>] : p \in {q.parent[s]} \ {0}}
  BY <1>1, <1>2 DEF Statements
<1>3. CASE d \in {[st |-> c, role |-> "Child", at |-> <<s, c>>] : c \in Children(s)}
  <2>1. Children(s) \subseteq Statements /\ Statements \subseteq Nat
    BY DEF Children, Statements
  <2> QED BY <1>1, <1>3, <2>1
<1>4. ASSUME NEW v \in Statements \ {s},
             d \in {[st |-> v, role |-> "User", at |-> <<v, k>>] :
                 k \in {j \in Keys(v) : Uses(v, j) /\ q.sel[v][j].label \in q.labels[s]}}
      PROVE  /\ d.st = v /\ d.role = "User"
             /\ \E k \in Keys(v) : d.at = <<v, k>>
             /\ \E a, b \in Nat : d.at = <<a, b>>
  <2>1. Keys(v) \subseteq Nat /\ v \in Nat
    BY DEF Keys, WellFormed, Statements
  <2> QED BY <1>4, <2>1
<1> QED
  BY <1>2, <1>3, <1>4 DEF DependentsOf

\* The next dependent is one of those left.
LEMMA DependentIsLeft ==
  ASSUME Typing, cur # 0
  PROVE  Dependent \in left /\ Dependent \in DependentsOf(cur) /\ cur \in Statements
<1>1. left # {} /\ left \subseteq DependentsOf(cur) /\ cur \in Statements /\ WellFormed(q)
  BY DEF Typing, TypedPlan, TypedRegistry, TypedWork
<1>2. \A d \in left : d.at[1] \in Nat /\ d.at[2] \in Nat
  BY <1>1, DependentsType
<1> DEFINE places == {d.at[1] : d \in left}
<1>3. PICK a \in places : \A b \in places : a <= b
  BY <1>1, <1>2, LeastNat
<1> DEFINE ranks == {d.at[2] : d \in {e \in left : e.at[1] = a}}
<1>4. PICK r \in ranks : \A b \in ranks : r <= b
  BY <1>2, <1>3, LeastNat
<1>5. PICK d \in left : d.at[1] = a /\ d.at[2] = r
  BY <1>4
<1>6. \A e \in left : Earlier(d.at, e.at)
  <2> TAKE e \in left
  <2>1. a <= e.at[1]
    BY <1>3
  <2>2. CASE e.at[1] = a
    BY <1>4, <1>5, <2>2 DEF Earlier
  <2>3. CASE e.at[1] # a
    BY <1>2, <1>5, <2>1, <2>3 DEF Earlier
  <2> QED BY <2>2, <2>3
<1>7. Dependent \in left
  BY <1>5, <1>6 DEF Dependent
<1> QED
  BY <1>1, <1>7

\* A priority is a number: what a statement selects is finite.
LEMMA PriorityType ==
  ASSUME WellFormed(q), Table(db.inst), Registry(reg), NEW s \in Statements
  PROVE  Priority(s) \in Nat
<1> DEFINE nodes == UNION {{k} \X IdsOf(reg[s][k]) : k \in Gathered(s, reg)}
<1>1. Keys(s) = 1 .. Len(q.sel[s]) /\ Len(q.sel[s]) \in Nat
  BY DEF WellFormed, Keys, Statements
<1>2. \A k \in Keys(s) : IdsOf(reg[s][k]) \subseteq DOMAIN db.inst
  BY DEF Registry, Optional, Selections, IdsOf
<1>3. nodes \subseteq Keys(s) \X DOMAIN db.inst
  BY <1>2 DEF Gathered
<1>4. IsFiniteSet(Keys(s) \X DOMAIN db.inst)
  <2>1. IsFiniteSet(Keys(s)) /\ IsFiniteSet(DOMAIN db.inst)
    <3>1. IsFiniteSet(1 .. Len(q.sel[s]))
      BY <1>1, FS_Interval
    <3> QED BY <1>1, <3>1 DEF Table
  <2> QED BY <2>1, FS_Product
<1>5. IsFiniteSet(nodes)
  BY <1>3, <1>4, FS_Subset
<1>6. Cardinality(nodes) \in Nat
  BY <1>5, FS_CardinalityType
<1> QED
  BY <1>6 DEF Priority, Unranked

\* The statement that is popped is one of the worklist.
LEMMA PopIndexType ==
  ASSUME Typing, work # <<>>
  PROVE  PopIndex \in DOMAIN work /\ DOMAIN work = 1 .. Len(work) /\ Len(work) \in Nat \ {0}
<1>1. DOMAIN work = 1 .. Len(work) /\ Len(work) \in Nat \ {0} /\ \A i \in DOMAIN work : work[i] \in Statements
  <2>1. work \in Seq(Statements)
    BY DEF Typing, TypedPlan, TypedRegistry, TypedWork
  <2> QED BY <2>1, EmptySeq, LenProperties
<1>2. \A i \in DOMAIN work : Priority(work[i]) \in Nat
  BY <1>1, PriorityType DEF Typing, TypedPlan, TypedRegistry, TypedWork
<1> DEFINE priorities == {Priority(work[i]) : i \in DOMAIN work}
<1>3. PICK m \in priorities : \A o \in priorities : m <= o
  <2>1. priorities \subseteq Nat
    BY <1>2
  <2>2. 1 \in DOMAIN work
    BY <1>1
  <2>3. priorities # {}
    BY <2>2
  <2> HIDE DEF priorities
  <2> QED BY <2>1, <2>3, LeastNat
<1> DEFINE first == {i \in DOMAIN work : Priority(work[i]) = m}
<1>4. PICK i \in first : \A j \in first : i <= j
  <2>1. first \subseteq Nat /\ first # {}
    BY <1>1, <1>3
  <2> HIDE DEF first
  <2> QED BY <2>1, LeastNat
<1>5. \A j \in DOMAIN work :
        /\ Priority(work[i]) <= Priority(work[j])
        /\ j < i => Priority(work[i]) < Priority(work[j])
  <2> TAKE j \in DOMAIN work
  <2>1. Priority(work[i]) = m /\ m <= Priority(work[j])
    BY <1>3, <1>4
  <2>2. ASSUME j < i
        PROVE  Priority(work[j]) # m
    BY <1>1, <1>4, <2>2
  <2> QED BY <1>2, <1>4, <2>1, <2>2
<1>6. PopIndex \in DOMAIN work
  BY <1>4, <1>5 DEF PopIndex
<1> QED
  BY <1>1, <1>6

\* Taking one statement off the worklist.
LEMMA SwapRemoveType ==
  ASSUME work \in Seq(Statements), IsInjective(work), NEW i \in 1 .. Len(work)
  PROVE  /\ SwapRemove(i) \in Seq(Statements) /\ IsInjective(SwapRemove(i))
         /\ ToSet(SwapRemove(i)) = ToSet(work) \ {work[i]}
<1> DEFINE n == Len(work)
           w == SwapRemove(i)
<1>1. n \in Nat /\ DOMAIN work = 1 .. n /\ \A j \in 1 .. n : work[j] \in Statements
  BY LenProperties
<1>2. DOMAIN w = 1 .. n - 1 /\ \A j \in 1 .. n - 1 : w[j] = IF j = i THEN work[n] ELSE work[j]
  BY DEF SwapRemove
<1>3. \A j \in 1 .. n - 1 : w[j] \in Statements
  BY <1>1, <1>2
<1>4. \A j, k \in 1 .. n : work[j] = work[k] => j = k
  BY <1>1 DEF IsInjective
<1>5. w \in Seq(Statements)
  <2>1. n - 1 \in Nat
    BY <1>1
  <2>2. w \in [1 .. n - 1 -> Statements]
    BY <1>3 DEF SwapRemove
  <2> HIDE DEF w
  <2> QED BY <2>1, <2>2, SeqDef
<1> HIDE DEF w, n
<1>6. IsInjective(w)
  BY <1>1, <1>2, <1>4 DEF IsInjective
<1>7. ToSet(w) = ToSet(work) \ {work[i]}
  <2>3. i \in 1 .. n
    BY DEF n
  <2>1. ASSUME NEW j \in 1 .. n, j # i
        PROVE  \E k \in 1 .. n - 1 : w[k] = work[j]
    <3>1. CASE j = n
      <4>1. i \in 1 .. n - 1
        BY <1>1, <2>1, <2>3, <3>1
      <4>2. w[i] = work[j]
        BY <1>2, <3>1, <4>1
      <4> QED BY <4>1, <4>2
    <3>2. CASE j # n
      BY <1>1, <1>2, <2>1, <3>2
    <3> QED BY <3>1, <3>2
  <2>2. ASSUME NEW k \in 1 .. n - 1
        PROVE  \E j \in 1 .. n : w[k] = work[j] /\ j # i
    <3>1. CASE k = i
      BY <1>1, <1>2, <2>2, <3>1
    <3>2. CASE k # i
      BY <1>1, <1>2, <2>2, <3>2
    <3> QED BY <3>1, <3>2
  <2>4. ToSet(w) = {w[k] : k \in 1 .. n - 1} /\ ToSet(work) = {work[j] : j \in 1 .. n}
    BY <1>1, <1>2 DEF ToSet
  <2>5. \A j \in 1 .. n : j # i => work[j] # work[i]
    BY <1>4, <2>3
  <2>6. ASSUME NEW x \in ToSet(w)
        PROVE  x \in ToSet(work) /\ x # work[i]
    BY <2>2, <2>4, <2>5
  <2>7. ASSUME NEW x \in ToSet(work), x # work[i]
        PROVE  x \in ToSet(w)
    BY <2>1, <2>4, <2>7
  <2> QED BY <2>6, <2>7
<1> QED BY <1>5, <1>6, <1>7 DEF w

\* Putting one on it.
LEMMA ScheduleType ==
  ASSUME work \in Seq(Statements), IsInjective(work), NEW s \in Statements
  PROVE  /\ Schedule(s) \in Seq(Statements) /\ IsInjective(Schedule(s))
         /\ ToSet(Schedule(s)) = ToSet(work) \cup {s}
<1>1. CASE s \in ToSet(work)
  BY <1>1 DEF Schedule
<1>2. CASE s \notin ToSet(work)
  <2> DEFINE n == Len(work)
             w == Append(work, s)
  <2>1. n \in Nat /\ DOMAIN work = 1 .. n
    BY LenProperties
  <2>2. /\ w \in Seq(Statements) /\ Len(w) = n + 1
        /\ \A j \in 1 .. n : w[j] = work[j]
        /\ w[n + 1] = s
    BY AppendProperties
  <2>3. DOMAIN w = 1 .. n + 1
    BY <2>2, LenProperties
  <2>4. Schedule(s) = w
    BY <1>2 DEF Schedule
  <2> HIDE DEF n, w
  <2>5. \A j \in 1 .. n : work[j] # s
    BY <1>2, <2>1 DEF ToSet
  <2>6. IsInjective(w)
    <3> SUFFICES ASSUME NEW a \in 1 .. n + 1, NEW b \in 1 .. n + 1, w[a] = w[b]
                 PROVE  a = b
      BY <2>3 DEF IsInjective
    <3>1. a \in 1 .. n \/ a = n + 1
      BY <2>1
    <3>2. b \in 1 .. n \/ b = n + 1
      BY <2>1
    <3> QED BY <2>1, <2>2, <2>5, <3>1, <3>2 DEF IsInjective
  <2>7. ToSet(w) = ToSet(work) \cup {s}
    BY <2>1, <2>2, <2>3 DEF ToSet
  <2> QED BY <2>2, <2>4, <2>6, <2>7
<1> QED BY <1>1, <1>2

\* The numbers up to n that are in S can be put in order.
LEMMA Sortable ==
  ASSUME NEW n \in Nat, NEW S \in SUBSET (1 .. n)
  PROVE  \E w \in [1 .. Cardinality(S) -> S] : \A i, j \in DOMAIN w : i < j => w[i] < w[j]
<1> DEFINE Sorted(T) == \E w \in [1 .. Cardinality(T) -> T] :
                          \A i, j \in DOMAIN w : i < j => w[i] < w[j]
           Bad == {m \in Nat : \E T \in SUBSET (1 .. m) : ~Sorted(T)}
<1> SUFFICES ASSUME Bad # {} PROVE FALSE
  OBVIOUS
<1>1. PICK m \in Bad : \A o \in Bad : m <= o
  <2>1. Bad \subseteq Nat
    OBVIOUS
  <2> HIDE DEF Bad
  <2> QED BY <2>1, LeastNat
<1>2. PICK T \in SUBSET (1 .. m) : ~Sorted(T)
  BY <1>1
<1>3. IsFiniteSet(T) /\ Cardinality(T) \in Nat
  <2>1. IsFiniteSet(1 .. m)
    BY <1>1, FS_Interval
  <2> QED BY <1>2, <2>1, FS_Subset, FS_CardinalityType
<1>4. m \in T
  <2> SUFFICES ASSUME m \notin T PROVE FALSE
    OBVIOUS
  <2>1. CASE m = 0
    <3>0. T = {}
      BY <1>2, <2>1
    <3>1. T = {} /\ Cardinality(T) = 0
      BY <3>0, FS_EmptySet
    <3>2. <<>> \in [1 .. Cardinality(T) -> T] /\ DOMAIN <<>> = {}
      BY <3>1
    <3>3. Sorted(T)
      BY <3>2
    <3> QED BY <1>2, <3>3
  <2>2. CASE m # 0
    <3>1. m - 1 \in Nat /\ T \in SUBSET (1 .. m - 1)
      BY <1>1, <1>2, <2>2
    <3>2. m - 1 \in Bad
      BY <1>2, <3>1
    <3>3. m <= m - 1 /\ m \in Nat
      BY <1>1, <3>2
    <3> QED BY <3>3
  <2> QED BY <2>1, <2>2
<1> DEFINE U == T \ {m}
           c == Cardinality(U)
<1>5. IsFiniteSet(U) /\ c \in Nat /\ Cardinality(T) = c + 1
  <2>1. IsFiniteSet(U) /\ c = Cardinality(T) - 1
    BY <1>3, <1>4, FS_RemoveElement
  <2> QED BY <1>3, <2>1, FS_CardinalityType
<1>6. Sorted(U)
  <2>1. m - 1 \in Nat /\ U \in SUBSET (1 .. m - 1)
    BY <1>1, <1>2, <1>4
  <2>2. m - 1 \notin Bad
    <3> SUFFICES ASSUME m - 1 \in Bad PROVE FALSE
      OBVIOUS
    <3>1. m <= m - 1 /\ m \in Nat
      BY <1>1
    <3> QED BY <3>1
  <2> QED BY <2>1, <2>2
<1>7. PICK w \in [1 .. c -> U] : \A i, j \in 1 .. c : i < j => w[i] < w[j]
  BY <1>6
<1> DEFINE v == [i \in 1 .. c + 1 |-> IF i = c + 1 THEN m ELSE w[i]]
<1>m. m \in Nat
  BY <1>1
<1>u. \A x \in U : x \in 1 .. m /\ x # m /\ x \in Int
  BY <1>2
<1> HIDE DEF c, Bad, U
<1>8. v \in [1 .. Cardinality(T) -> T]
  BY <1>4, <1>5, <1>7 DEF U
<1>9. ASSUME NEW i \in 1 .. c + 1, NEW j \in 1 .. c + 1, i < j
      PROVE  v[i] < v[j]
  <2>0. i \in 1 .. c
    BY <1>5, <1>9
  <2>1. i \in 1 .. c /\ w[i] \in 1 .. m /\ w[i] # m
    BY <1>7, <1>u, <2>0
  <2>2. CASE j = c + 1
    BY <1>m, <1>5, <2>1, <2>2
  <2>3. CASE j # c + 1
    BY <1>5, <1>7, <1>9, <2>1, <2>3
  <2> QED BY <2>2, <2>3
<1>10. Sorted(T)
  BY <1>8, <1>9
<1> QED BY <1>2, <1>10

\* The worklist that run_worklist starts from.
LEMMA InOrderType ==
  ASSUME q.n \in Nat, NEW S, S \subseteq Statements
  PROVE  /\ InOrder(S) \in Seq(Statements) /\ IsInjective(InOrder(S))
         /\ ToSet(InOrder(S)) = S
<1> DEFINE w == InOrder(S)
           c == Cardinality(S)
<1>1. w \in [1 .. c -> S] /\ \A i, j \in DOMAIN w : i < j => w[i] < w[j]
  <2>1. \E v \in [1 .. c -> S] : \A i, j \in DOMAIN v : i < j => v[i] < v[j]
    BY Sortable DEF Statements
  <2> QED BY <2>1 DEF InOrder
<1> HIDE DEF w
<1>2. IsFiniteSet(S) /\ c \in Nat
  <2>1. IsFiniteSet(Statements)
    BY FS_Interval DEF Statements
  <2> QED BY <2>1, FS_Subset, FS_CardinalityType
<1>3. \A i, j \in 1 .. c : w[i] = w[j] => i = j
  <2>0. \A x \in S : x \in Int
    BY DEF Statements
  <2> HIDE DEF c
  <2>1. DOMAIN w = 1 .. c /\ \A i \in 1 .. c : w[i] \in Int
    BY <1>1, <2>0
  <2> QED BY <1>1, <1>2, <2>1
<1>4. w \in Injection(1 .. c, S)
  BY <1>1, <1>3, Fun_IsInj
<1>5. w \in Surjection(1 .. c, S)
  <2>1. Cardinality(1 .. c) = c
    BY <1>2, FS_Interval
  <2> QED BY <1>2, <1>4, <2>1, FS_Injection
<1>6. ToSet(w) = S
  <2>1. DOMAIN w = 1 .. c /\ \A i \in 1 .. c : w[i] \in S
    BY <1>1
  <2>2. \A x \in S : \E i \in 1 .. c : w[i] = x
    BY <1>5 DEF Surjection
  <2> QED BY <2>1, <2>2 DEF ToSet
<1>7. IsInjective(w)
  BY <1>1, <1>3 DEF IsInjective
<1>8. w \in Seq(Statements)
  <2>1. w \in [1 .. c -> Statements]
    BY <1>1
  <2> QED BY <1>2, <2>1, SeqDef
<1> QED BY <1>6, <1>7, <1>8 DEF w

-----------------------------------------------------------------------------
(* What the handlers store is a selection or none.                         *)

LEMMA OptionalType ==
  /\ {} \in Optional
  /\ \A x \in Selections : {x} \in Optional /\ IdsOf({x}) = x.nodes
  /\ \A o \in Optional : o # {} => Only(o) \in Selections /\ o = {Only(o)} /\ IdsOf(o) = Only(o).nodes
  /\ IdsOf({}) = {}
BY DEF Optional, IdsOf, Only

LEMMA NoRowsType == NoRows \in Selections
BY DEF NoRows, Selections

\* What compute_selected stores.
LEMMA ComputedType ==
  ASSUME WellFormed(q), NEW p, p.st \in Statements, NEW k \in Keys(p.st),
         p.parents.kind \in ScopeKinds, p.children.kind \in ScopeKinds
  PROVE  /\ Computed(p, k) \in Optional
         /\ \A filter : Query(p, filter) \in Selections
         /\ \A x \in Computed(p, k) : x.nodes = {} <=> IdsOf(Computed(p, k)) = {}
         /\ Kind(p.st, k) = "name" => Computed(p, k) # {}
<1>1. \A filter : Query(p, filter) \in Selections
  BY FindSymbolType DEF Query
<1>2. OwnLayer(p) \in Selections
  BY FindSymbolType DEF OwnLayer
<1>3. Kind(p.st, k) \in Kinds
  BY DEF WellFormed, Kind, Keys, Statements
<1>4. Computed(p, k) \in Optional
  BY <1>1, <1>2, <1>3, NoRowsType, OptionalType DEF Computed, Kinds, CommandFilter
<1>5. \A x \in Computed(p, k) : x.nodes = {} <=> IdsOf(Computed(p, k)) = {}
  BY <1>4 DEF Optional, IdsOf
<1>6. Kind(p.st, k) = "name" => Computed(p, k) # {}
  BY DEF Computed
<1> QED BY <1>1, <1>4, <1>5, <1>6

\* find_symbol of ids.
LEMMA ByIdType ==
  ASSUME NEW ids, NEW s, NEW parents, NEW children,
         parents.kind \in ScopeKinds, children.kind \in ScopeKinds
  PROVE  ById(ids, s, parents, children) \in Selections
BY FindSymbolType DEF ById, CommandFilter

\* What a parent stores when its children notify it.
LEMMA FromChildrenType ==
  ASSUME Registry(reg), NEW p \in Statements, NEW k \in Keys(p)
  PROVE  /\ FromChildren(p, k) \in Optional /\ FromChildren(p, k) # {}
         /\ reg[p][k] # {} => IdsOf(FromChildren(p, k)) \subseteq IdsOf(reg[p][k])
<1> DEFINE kids == Merged(p)
           ids == FindParentInstanceIds(kids.nodes, q.rel[cur], q.unnest[p], eph)
<1>1. FromChildren(p, k) =
        IF reg[p][k] # {} THEN {ConstrainSelection(Only(reg[p][k]), kids, "Parent", q.rel[cur])}
        ELSE {ById(ids, p, ParentScope(p), Scope(kids.nodes, {}))}
  BY DEF FromChildren
<1>2. CASE reg[p][k] # {}
  <2>1. Only(reg[p][k]) \in Selections /\ IdsOf(reg[p][k]) = Only(reg[p][k]).nodes
    BY <1>2, OptionalType DEF Registry
  <2> DEFINE new == ConstrainSelection(Only(reg[p][k]), kids, "Parent", q.rel[cur])
  <2>2. new \in Selections /\ new.nodes \subseteq Only(reg[p][k]).nodes
    BY <2>1, ConstraintType
  <2>3. FromChildren(p, k) = {new}
    BY <1>1, <1>2
  <2> HIDE DEF new
  <2> QED BY <2>1, <2>2, <2>3, OptionalType
<1>3. CASE reg[p][k] = {}
  <2>1. Scope(kids.nodes, {}).kind \in ScopeKinds
    BY DEF Scope, ScopeKinds
  <2>2. ById(ids, p, ParentScope(p), Scope(kids.nodes, {})) \in Selections
    BY <2>1, ByIdType, CapturedScopes
  <2> QED BY <1>1, <1>3, <2>2, OptionalType
<1> QED BY <1>2, <1>3

\* What a statement stores when its parent or a statement of its label
\* notifies it.
LEMMA FromParentType ==
  ASSUME Registry(reg), Registry(once), NEW d \in Statements, NEW k \in Keys(d),
         cur \in Statements
  PROVE  FromParent(d, k) \in Selections
<1> DEFINE ids == IdsOf(GetSelection(cur))
<1>1. GetSelection(cur) \in Optional
  BY SelectionType DEF GetSelection, Registry
<1>2. ids \subseteq DOMAIN db.inst
  BY <1>1 DEF Optional, IdsOf, Selections
<1>3. CASE Kind(d, k) \in {"forced", "useForced"} /\ once[d][k] # {}
  <2>1. Only(once[d][k]) \in Selections
    BY <1>3, OptionalType DEF Registry
  <2> DEFINE sel == Only(once[d][k])
             rows == ForcedRows(ids, sel.nodes)
  <2>2. rows \subseteq RefSpace
    BY <1>2, <2>1 DEF ForcedRows, RefSpace, Selections
  <2>3. FromParent(d, k) = [sel EXCEPT !.parents = rows]
    BY <1>3 DEF FromParent, CommandFilter
  <2> HIDE DEF rows, sel
  <2> QED BY <2>1, <2>2, <2>3 DEF Selections, sel
<1>4. CASE Kind(d, k) \in {"forced", "useForced"} /\ once[d][k] = {}
  BY <1>4, NoRowsType DEF FromParent
<1>5. CASE Kind(d, k) \notin {"forced", "useForced"}
  BY <1>5, ByIdType, CapturedScopes DEF FromParent
<1> QED BY <1>3, <1>4, <1>5

LEMMA AcceptedType ==
  ASSUME Registry(reg), Registry(once), NEW d \in Statements, NEW k \in Keys(d),
         cur \in Statements, GetSelection(cur) # {}, NEW role \in {"Child", "User"}
  PROVE  /\ Accepted(d, k, role) \in Optional
         /\ ~Derives(d, k, role) => /\ IdsOf(Accepted(d, k, role)) \subseteq IdsOf(reg[d][k])
                                    /\ reg[d][k] # {} <=> Accepted(d, k, role) # {}
<1>1. GetSelection(cur) \in Optional /\ Only(GetSelection(cur)) \in Selections
  BY SelectionType, OptionalType DEF GetSelection, Registry
<1>2. CASE Constrained(d, k, role)
  <2>1. ~Derives(d, k, role) /\ reg[d][k] # {}
    BY <1>2 DEF Constrained, Derives
  <2>2. Only(reg[d][k]) \in Selections /\ IdsOf(reg[d][k]) = Only(reg[d][k]).nodes
    BY <2>1, OptionalType DEF Registry
  <2> DEFINE rel == IF role = "Child" THEN q.rel[d] ELSE q.rel[cur]
             new == ConstrainSelection(Only(reg[d][k]), Only(GetSelection(cur)), role, rel)
  <2>3. new \in Selections /\ new.nodes \subseteq Only(reg[d][k]).nodes
    BY <2>2, ConstraintType
  <2>4. Accepted(d, k, role) = {new}
    BY <1>2 DEF Accepted
  <2> HIDE DEF new
  <2>5. {new} \in Optional /\ IdsOf({new}) = new.nodes
    BY <2>3, OptionalType
  <2>6. Accepted(d, k, role) # {} /\ IdsOf(Accepted(d, k, role)) \subseteq IdsOf(reg[d][k])
    BY <2>2, <2>3, <2>4, <2>5
  <2> QED BY <2>1, <2>4, <2>5, <2>6
<1>3. CASE ~Constrained(d, k, role) /\ ~Derives(d, k, role)
  BY <1>3 DEF Accepted, Registry
<1>4. CASE ~Constrained(d, k, role) /\ Derives(d, k, role) /\ role = "Child"
  BY <1>4, FromParentType, OptionalType DEF Accepted
<1>5. CASE ~Constrained(d, k, role) /\ Derives(d, k, role) /\ role = "User"
  BY <1>1, <1>5, OptionalType DEF Accepted, FromProvider, CommandFilter
<1> QED BY <1>2, <1>3, <1>4, <1>5

-----------------------------------------------------------------------------
(* The types are kept.                                                     *)

\* What is said of the query alone stays true of it.
LEMMA SameQuery ==
  ASSUME UNCHANGED plan
  PROVE  /\ Statements' = Statements
         /\ \A s : /\ Keys(s)' = Keys(s) /\ HasLayerSpec(s)' = HasLayerSpec(s)
                   /\ DependentsOf(s)' = DependentsOf(s) /\ Layer(s)' = Layer(s)
                   /\ Children(s)' = Children(s) /\ BorrowsTwice(s)' = BorrowsTwice(s)
                   /\ \A k : Kind(s, k)' = Kind(s, k) /\ Uses(s, k)' = Uses(s, k)
         /\ \A kinds : OneSelector(kinds)' = OneSelector(kinds)
<1>1. q' = q
  BY DEF plan
<1>2. Statements' = Statements
  BY <1>1 DEF Statements
<1>3. ASSUME NEW s
      PROVE  Keys(s)' = Keys(s) /\ Layer(s)' = Layer(s) /\ \A k : Kind(s, k)' = Kind(s, k)
  BY <1>1 DEF Keys, Kind, Layer
<1>4. \A s, k : Uses(s, k)' = Uses(s, k)
  BY <1>3 DEF Uses
<1>5. \A s : HasLayerSpec(s)' = HasLayerSpec(s)
  BY <1>3 DEF HasLayerSpec
<1>6. \A s : Children(s)' = Children(s)
  BY <1>1, <1>2 DEF Children
<1>7. ASSUME NEW s
      PROVE  DependentsOf(s)' = DependentsOf(s)
  BY <1>1, <1>2, <1>3, <1>4, <1>6 DEF DependentsOf
<1>8. ASSUME NEW s
      PROVE  BorrowsTwice(s)' = BorrowsTwice(s)
  <2>1. LabelDeps(s)' = LabelDeps(s)
    BY <1>1, <1>2, <1>3 DEF LabelDeps
  <2> QED BY <1>1, <1>3, <1>4, <2>1 DEF BorrowsTwice
<1>9. ASSUME NEW kinds
      PROVE  OneSelector(kinds)' = OneSelector(kinds)
  BY <1>1, <1>2, <1>3 DEF OneSelector
<1> QED BY <1>2, <1>3, <1>4, <1>5, <1>6, <1>7, <1>8, <1>9

\* And of the index.
LEMMA SameIndex ==
  ASSUME UNCHANGED <<db, plan>>
  PROVE  /\ TypedPlan => TypedPlan'
         /\ Selections' = Selections /\ Optional' = Optional
         /\ RefSpace' = RefSpace /\ HasSpace' = HasSpace
<1>1. q' = q /\ db' = db /\ deps' = deps
  BY DEF plan
<1>2. RefSpace' = RefSpace /\ HasSpace' = HasSpace
  BY <1>1 DEF RefSpace, HasSpace
<1>3. Selections' = Selections
  BY <1>1, <1>2 DEF Selections
<1>4. Optional' = Optional
  BY <1>3 DEF Optional
<1>5. TypedPlan => TypedPlan'
  <2>1. [s \in Statements |-> DependentsOf(s)]' = [s \in Statements |-> DependentsOf(s)]
    BY SameQuery
  <2> QED BY <1>1, <2>1 DEF TypedPlan
<1> QED BY <1>2, <1>3, <1>4, <1>5

\* A registry does not change with the rest.
LEMMA SameRegistry ==
  ASSUME UNCHANGED <<db, plan, reg>>
  PROVE  /\ Registry(reg)' = Registry(reg)
         /\ \A s : GetSelection(s)' = GetSelection(s) /\ Nodes(s)' = Nodes(s)
<1>1. Registry(reg)' = Registry(reg)
  BY SameQuery, SameIndex DEF Registry
<1>2. ASSUME NEW s
      PROVE  GetSelection(s)' = GetSelection(s)
  <2>1. Gathered(s, reg)' = Gathered(s, reg)
    BY SameQuery DEF Gathered
  <2> QED BY <2>1 DEF GetSelection, Selection
<1> QED BY <1>1, <1>2 DEF Nodes

LEMMA TypingInit == Init => Typing
<1> SUFFICES ASSUME Init PROVE Typing
  OBVIOUS
<1>1. TypedPlan
  BY CasesAssumption DEF Init, TypedPlan
<1>2. TypedRoots
  BY <1>1 DEF Init, TypedRoots, TypedPlan, WellFormed
<1>3. TypedRegistry
  <2>1. {} \in Optional
    BY OptionalType
  <2> QED BY <2>1 DEF Init, TypedRegistry, Registry
<1>4. TypedWork
  BY EmptySeq DEF Init, TypedWork, IsInjective
<1>5. TypedPhases /\ TypedReports
  BY DEF Init, TypedPhases, TypedReports, Final
<1> QED BY <1>1, <1>2, <1>3, <1>4, <1>5 DEF Typing

LEMMA TypingPush ==
  ASSUME Typing, Push
  PROVE  Typing'
<1>1. UNCHANGED <<db, plan, reg>>
  BY DEF Push
<1>2. TypedPlan' /\ TypedRegistry'
  <2>1. Registry(once)'
    BY SameQuery, SameIndex, <1>1 DEF Push, Typing, TypedRegistry, Registry
  <2> QED BY <1>1, <2>1, SameIndex, SameRegistry DEF Typing, TypedRegistry
<1>3. TypedRoots'
  <2> DEFINE new == Queued(nxt)
  <2>1. /\ new.st = nxt /\ new.parents.kind \in ScopeKinds /\ new.children.kind \in ScopeKinds
    BY CapturedScopes DEF Queued
  <2>2. /\ pending' = pending \cup {new} /\ nxt' = nxt + 1 /\ computed' = computed /\ eph' = eph
        /\ nxt \in Statements /\ q' = q
    BY DEF Push, Typing, TypedRoots, TypedPlan, WellFormed, Statements, plan
  <2>3. computed \cup {p.st : p \in pending} = 1 .. nxt - 1 /\ nxt \in 1 .. q.n + 1 /\ q.n \in Nat
    BY DEF Typing, TypedRoots, TypedPlan, WellFormed
  <2>4. nxt \notin computed /\ \A p \in pending : p.st # nxt
    BY <2>3
  <2>5. (computed \cup {p.st : p \in pending})' = 1 .. nxt' - 1
    <3>1. {p.st : p \in pending'} = {p.st : p \in pending} \cup {nxt}
      BY <2>1, <2>2
    <3>2. (1 .. nxt - 1) \cup {nxt} = 1 .. (nxt + 1) - 1
      BY <2>3
    <3> QED BY <2>2, <2>3, <3>1, <3>2
  <2>6. nxt' \in 1 .. q'.n + 1
    BY <2>2, <2>3 DEF Statements
  <2>7. eph' = {Layer(s)' : s \in {t \in computed' : HasLayerSpec(t)'}}
    <3>1. eph = {Layer(s) : s \in {t \in computed : HasLayerSpec(t)}}
      BY DEF Typing, TypedRoots
    <3> QED BY <2>2, <3>1, <1>1, SameQuery
  <2>8. /\ \A p \in pending' : p.st \notin computed' /\ p.parents.kind \in ScopeKinds
                                                  /\ p.children.kind \in ScopeKinds
        /\ \A p, o \in pending' : p.st = o.st => p = o
    <3> HIDE DEF new
    <3> QED BY <2>1, <2>2, <2>4 DEF Typing, TypedRoots
  <2> HIDE DEF new
  <2> QED BY <2>5, <2>6, <2>7, <2>8 DEF TypedRoots
<1>4. TypedWork'
  BY <1>1, SameQuery, SameRegistry DEF Push, Typing, TypedPhases, TypedWork
<1>5. TypedPhases' /\ TypedReports'
  BY <1>1, SameQuery DEF Push, Typing, TypedPhases, TypedReports
<1> QED BY <1>2, <1>3, <1>4, <1>5 DEF Typing

\* The tables of the statements and of the index are finite together.
LEMMA MergedIsTable ==
  ASSUME TypedPlan, NEW fillers, \A p \in fillers : p.st \in Statements
  PROVE  LET new == Merge(db.inst, {Emitted(p, q.rows[p.st].inst, "sym") : p \in fillers})
         IN Table(new) /\ DOMAIN db.inst \subseteq DOMAIN new
<1> DEFINE maps == {Emitted(p, q.rows[p.st].inst, "sym") : p \in fillers}
           new == Merge(db.inst, maps)
           rows == [s \in Statements |-> DOMAIN q.rows[s].inst]
           all == UNION {rows[s] : s \in Statements}
<1>1. DOMAIN new = UNION {DOMAIN m : m \in maps \cup {db.inst}}
  BY DEF Merge
<1>2. ASSUME NEW p \in fillers
      PROVE  DOMAIN Emitted(p, q.rows[p.st].inst, "sym") \subseteq rows[p.st]
  <2>1. p.st \in Statements
    BY <1>2
  <2> QED BY <2>1 DEF Emitted, Restrict
<1>3. DOMAIN db.inst \subseteq DOMAIN new
  BY <1>1
<1>4. DOMAIN new \subseteq DOMAIN db.inst \cup all
  <2> SUFFICES ASSUME NEW m \in maps PROVE DOMAIN m \subseteq all
    BY <1>1
  <2>1. PICK p \in fillers : m = Emitted(p, q.rows[p.st].inst, "sym")
    OBVIOUS
  <2>2. DOMAIN m \subseteq rows[p.st] /\ p.st \in Statements
    BY <1>2, <2>1
  <2> QED BY <2>2
<1>5. \A s \in Statements : IsFiniteSet(rows[s]) /\ rows[s] \subseteq Int
  BY DEF TypedPlan, WellFormed, Table, Statements
<1>6. IsFiniteSet(all) /\ all \subseteq Int
  <2>1. IsFiniteSet(Statements)
    <3>1. 1 \in Int /\ q.n \in Int
      BY DEF TypedPlan, WellFormed
    <3> QED BY <3>1, FS_Interval DEF Statements
  <2> DEFINE image == {rows[s] : s \in Statements}
  <2>2. rows \in Surjection(Statements, image)
    BY DEF Surjection
  <2>3. IsFiniteSet(image)
    <3> HIDE DEF image, rows
    <3> QED BY <2>1, <2>2, FS_Surjection
  <2>4. \A x \in image : IsFiniteSet(x) /\ x \subseteq Int
    BY <1>5
  <2> HIDE DEF image
  <2>5. IsFiniteSet(UNION image) /\ UNION image \subseteq Int
    BY <2>3, <2>4, FS_UNION
  <2> QED BY <2>5 DEF image
<1>7. IsFiniteSet(DOMAIN db.inst) /\ DOMAIN db.inst \subseteq Int
  BY DEF TypedPlan, Table
<1> DEFINE Columns(row) == row.sym \in Int /\ row.obj \in Int /\ row.lo \in Int
<1>8. \A x \in DOMAIN new : Columns(new[x])
  <2>1. ASSUME NEW m \in maps \cup {db.inst}, NEW x \in DOMAIN m
        PROVE  Columns(m[x])
    <3>1. CASE m = db.inst
      BY <2>1, <3>1 DEF TypedPlan, Table
    <3>2. CASE m \in maps
      <4>1. PICK p \in fillers : m = Emitted(p, q.rows[p.st].inst, "sym")
        BY <3>2
      <4> DEFINE f == q.rows[p.st].inst
      <4>2. p.st \in Statements /\ Table(f)
        BY <4>1 DEF TypedPlan, WellFormed, Statements
      <4>3. x \in DOMAIN f /\ m[x] = f[x]
        BY <2>1, <4>1 DEF Emitted, Restrict
      <4> QED BY <4>2, <4>3 DEF Table
    <3> QED BY <2>1, <3>1, <3>2
  <2> HIDE DEF maps, Columns
  <2>2. ASSUME NEW x \in DOMAIN new
        PROVE  \E m \in maps \cup {db.inst} : x \in DOMAIN m /\ new[x] = m[x]
    BY <1>1, <2>2 DEF Merge
  <2> QED BY <2>1, <2>2
<1> HIDE DEF all, new, maps, rows
<1>9. IsFiniteSet(DOMAIN db.inst \cup all)
  BY <1>6, <1>7, FS_Union
<1>10. IsFiniteSet(DOMAIN new) /\ DOMAIN new \subseteq Int
  BY <1>4, <1>6, <1>7, <1>9, FS_Subset
<1> QED BY <1>3, <1>8, <1>10 DEF Table, new, maps

\* Layers only add rows: a selection stays one.
LEMMA MaterialiseGrows ==
  ASSUME TypedPlan, TypedRoots, Materialise
  PROVE  /\ DOMAIN db.inst \subseteq DOMAIN db'.inst /\ Table(db'.inst)
         /\ {"sym", "inst", "ref"} \subseteq DOMAIN db'
         /\ Optional \subseteq Optional'
<1> DEFINE fillers == {p \in pending : HasLayerSpec(p.st)}
           sym == Merge(db.sym, {q.rows[p.st].sym : p \in fillers})
           inst == Merge(db.inst, {Emitted(p, q.rows[p.st].inst, "sym") : p \in fillers})
           ref == Merge(db.ref, {Emitted(p, q.rows[p.st].ref, "to") : p \in fillers})
<1>1. db' = [db EXCEPT !.sym = sym, !.inst = inst, !.ref = ref]
  BY DEF Materialise
<1>2. \A p \in fillers : p.st \in Statements
  BY DEF TypedRoots, TypedPlan, WellFormed, Statements
<1>3. Table(inst) /\ DOMAIN db.inst \subseteq DOMAIN inst
  BY <1>2, MergedIsTable
<1>4. DOMAIN db.ref \subseteq DOMAIN ref
  BY DEF Merge
<1>5. {"sym", "inst", "ref"} \subseteq DOMAIN db
  BY DEF TypedPlan
<1> HIDE DEF fillers, sym, inst, ref
<1>6. db'.inst = inst /\ db'.ref = ref /\ DOMAIN db' = DOMAIN db
  BY <1>1, <1>5
<1>7. RefSpace \subseteq RefSpace'
  BY <1>3, <1>4, <1>6 DEF RefSpace
<1>8. HasSpace \subseteq HasSpace'
  BY <1>3, <1>6 DEF HasSpace
<1>9. Selections \subseteq Selections'
  BY <1>3, <1>6, <1>7, <1>8 DEF Selections
<1>10. Optional \subseteq Optional'
  BY <1>9 DEF Optional
<1> QED BY <1>3, <1>5, <1>6, <1>10

LEMMA TypingMaterialise ==
  ASSUME Typing, Materialise
  PROVE  Typing'
<1>1. UNCHANGED <<plan, reg, once>> /\ q' = q /\ deps' = deps
  BY DEF Materialise, plan
<1>2. TypedPlan'
  <2>1. [s \in Statements |-> DependentsOf(s)]' = [s \in Statements |-> DependentsOf(s)]
    BY <1>1, SameQuery
  <2> QED BY <1>1, <2>1, MaterialiseGrows DEF Typing, TypedPlan
<1>3. TypedRegistry'
  BY <1>1, SameQuery, MaterialiseGrows DEF Typing, TypedRegistry, Registry
<1>4. TypedRoots'
  BY <1>1, SameQuery DEF Materialise, Typing, TypedRoots
<1>5. TypedWork'
  BY <1>1, SameQuery DEF Materialise, Typing, TypedPhases, TypedWork
<1>6. TypedPhases' /\ TypedReports'
  BY <1>1, SameQuery DEF Materialise, Typing, TypedPhases, TypedReports
<1> QED BY <1>2, <1>3, <1>4, <1>5, <1>6 DEF Typing

\* What the batch leaves in the registry.
LEMMA DrainResult ==
  ASSUME TypedPlan, TypedRoots, Drain
  PROVE  /\ \A p \in pending : /\ p.st \in Statements /\ p.st \notin computed
                               /\ p.parents.kind \in ScopeKinds /\ p.children.kind \in ScopeKinds
                               /\ reg'[p.st] = [k \in Keys(p.st) |-> Computed(p, k)]
         /\ \A s \in Statements : (\A p \in pending : p.st # s) => reg'[s] = reg[s]
         /\ computed' = computed \cup {p.st : p \in pending} /\ computed' = 1 .. nxt - 1
         /\ DOMAIN reg' = Statements
<1> DEFINE Of(s) == CHOOSE p \in pending : p.st = s
           sts == {p.st : p \in pending}
<1>1. reg' = [s \in Statements |-> IF s \in sts THEN [k \in Keys(s) |-> Computed(Of(s), k)]
                                   ELSE reg[s]]
  BY DEF Drain
<1>2. computed' = computed \cup sts
  BY DEF Drain
<1>3. \A p \in pending : /\ p.st \in Statements /\ p.st \notin computed
                         /\ p.parents.kind \in ScopeKinds /\ p.children.kind \in ScopeKinds
  BY DEF TypedRoots, TypedPlan, WellFormed, Statements
<1>4. \A p \in pending : Of(p.st) = p
  BY DEF TypedRoots
<1>5. computed \cup sts = 1 .. nxt - 1
  BY DEF TypedRoots
<1> QED BY <1>1, <1>2, <1>3, <1>4, <1>5

LEMMA TypingDrain ==
  ASSUME Typing, Drain
  PROVE  Typing'
<1>1. UNCHANGED <<db, plan>> /\ q' = q /\ pending' = {} /\ nxt' = nxt
  BY DEF Drain, plan
<1>2. TypedPlan'
  BY <1>1, SameIndex DEF Typing
<1>3. TypedPlan /\ TypedRoots /\ TypedRegistry /\ WellFormed(q)
  BY DEF Typing, TypedPlan
<1>4. Registry(reg)'
  <2>1. ASSUME NEW s \in Statements
        PROVE  DOMAIN reg'[s] = Keys(s) /\ \A k \in Keys(s) : reg'[s][k] \in Optional
    <3>1. CASE \A p \in pending : p.st # s
      BY <1>3, <3>1, DrainResult DEF TypedRegistry, Registry
    <3>2. ASSUME NEW p \in pending, p.st = s
          PROVE  DOMAIN reg'[s] = Keys(s) /\ \A k \in Keys(s) : reg'[s][k] \in Optional
      <4>1. /\ p.parents.kind \in ScopeKinds /\ p.children.kind \in ScopeKinds
            /\ reg'[s] = [k \in Keys(s) |-> Computed(p, k)]
        BY <1>3, <3>2, DrainResult
      <4>2. \A k \in Keys(s) : Computed(p, k) \in Optional
        BY <1>3, <3>2, <4>1, ComputedType
      <4> QED BY <4>1, <4>2
    <3> QED BY <3>1, <3>2
  <2>2. DOMAIN reg' = Statements
    BY <1>3, DrainResult
  <2> QED BY <1>1, <2>1, <2>2, SameQuery, SameIndex DEF Registry
<1>5. Registry(once)'
  <2> DEFINE Of(s) == CHOOSE p \in pending : p.st = s
             sts == {p.st : p \in pending}
  <2>1. once' = [s \in Statements |-> [k \in Keys(s) |->
                      IF s \in sts /\ Kind(s, k) = "forced"
                      THEN {Query(Of(s), NameFilter(s, k))} ELSE once[s][k]]]
    BY DEF Drain
  <2>2. ASSUME NEW s \in sts, NEW k \in Keys(s)
        PROVE  {Query(Of(s), NameFilter(s, k))} \in Optional
    <3>1. Of(s) \in pending /\ Of(s).st = s
      BY <2>2
    <3> HIDE DEF Of
    <3>2. /\ Of(s).parents.kind \in ScopeKinds /\ Of(s).children.kind \in ScopeKinds
          /\ s \in Statements
      BY <1>3, <3>1, DrainResult
    <3>3. Query(Of(s), NameFilter(s, k)) \in Selections
      BY <1>3, <3>1, <3>2, ComputedType
    <3> QED BY <3>3, OptionalType
  <2>3. \A s \in Statements : \A k \in Keys(s) : once[s][k] \in Optional
    BY <1>3 DEF TypedRegistry, Registry
  <2> HIDE DEF Of, sts
  <2>4. \A s \in Statements : DOMAIN once'[s] = Keys(s) /\ \A k \in Keys(s) : once'[s][k] \in Optional
    BY <2>1, <2>2, <2>3
  <2> QED BY <1>1, <2>1, <2>4, SameQuery, SameIndex DEF Registry
<1>6. TypedRoots'
  <2>1. computed' = computed \cup {p.st : p \in pending} /\ computed' = 1 .. nxt - 1
    BY <1>3, DrainResult
  <2>2. eph' = eph \cup {Layer(s) : s \in {t \in {p.st : p \in pending} : HasLayerSpec(t)}}
    BY DEF Drain
  <2>3. eph = {Layer(s) : s \in {t \in computed : HasLayerSpec(t)}}
    BY <1>3 DEF TypedRoots
  <2>4. eph' = {Layer(s) : s \in {t \in computed' : HasLayerSpec(t)}}
    BY <2>1, <2>2, <2>3
  <2>5. eph' = {Layer(s)' : s \in {t \in computed' : HasLayerSpec(t)'}}
    BY <1>1, <2>4, SameQuery
  <2> QED BY <1>1, <1>3, <2>1, <2>5 DEF TypedRoots
<1>7. TypedWork'
  BY <1>1, SameQuery DEF Drain, Typing, TypedPhases, TypedWork
<1>8. TypedPhases'
  BY <1>1 DEF Drain, Typing, TypedPhases, Final
<1>9. TypedReports'
  <2>1. \A p \in pending : p.st \in Statements
    BY <1>3, DrainResult
  <2>2. ASSUME NEW w \in NoMatches(pending)
        PROVE  w \in [st : Statements, k : Keys(w.st), kind : {"NoMatch", "Note"}]
    BY <2>1, <2>2 DEF NoMatches
  <2>3. warned' = warned \cup NoMatches(pending) /\ err' = err
    BY DEF Drain
  <2> QED BY <1>1, <2>2, <2>3, SameQuery DEF Typing, TypedReports
<1> QED BY <1>2, <1>4, <1>5, <1>6, <1>7, <1>8, <1>9 DEF Typing, TypedRegistry

LEMMA TypingSeed ==
  ASSUME Typing, Seed
  PROVE  Typing'
<1>1. UNCHANGED <<db, plan, reg, once>> /\ q' = q
  BY DEF Seed, plan
<1>2. TypedPlan' /\ TypedRegistry'
  BY <1>1, SameQuery, SameIndex DEF Typing, TypedRegistry, Registry
<1>3. TypedRoots'
  BY <1>1, SameQuery DEF Seed, Typing, TypedRoots
<1>4. TypedWork'
  <2>1. work' \in Seq(Statements) /\ IsInjective(work') /\ cur' = cur /\ left' = left
    BY InOrderType DEF Seed, Typing, TypedPlan, WellFormed
  <2> QED BY <1>1, <2>1, SameQuery DEF Seed, Typing, TypedPhases, TypedWork
<1>5. TypedPhases' /\ TypedReports'
  <2>1. nxt = q.n + 1
    BY DEF Seed, Typing, TypedRoots, TypedPlan, WellFormed
  <2> QED BY <1>1, <2>1, SameQuery DEF Seed, Typing, TypedPhases, TypedReports, Rooted
<1> QED BY <1>2, <1>3, <1>4, <1>5 DEF Typing

\* What a statement selects in the next state.
LEMMA SelectionIn ==
  ASSUME UNCHANGED plan
  PROVE  \A s : /\ GetSelection(s)' = Selection(s, reg')
                /\ Nodes(s)' = IdsOf(Selection(s, reg'))
<1>1. q' = q
  BY DEF plan
<1>2. ASSUME NEW s
      PROVE  GetSelection(s)' = Selection(s, reg')
  <2>1. {k \in Keys(s) : \A j \in Keys(s) : j >= k => reg[s][j] # {}}' = Gathered(s, reg')
    BY <1>1 DEF Gathered, Keys
  <2>2. (Gathered(s, reg))' = Gathered(s, reg')
    BY <2>1 DEF Gathered
  <2> QED BY <2>2 DEF GetSelection, Selection
<1> QED BY <1>2 DEF Nodes

\* The popped statement leaves the worklist and refreshes its selectors.
LEMMA PopResult ==
  ASSUME Typing, PopNext
  PROVE  \E s \in Statements :
           /\ reg' = [reg EXCEPT ![s] = Refreshed(s)]
           /\ \A k \in Keys(s) : Kind(s, k) # "useForced" \/ reg[s][k] # {} => Refreshed(s)[k] = reg[s][k]
           /\ DOMAIN Refreshed(s) = Keys(s) /\ \A k \in Keys(s) : Refreshed(s)[k] \in Optional
           /\ work' \in Seq(Statements) /\ IsInjective(work')
           /\ s \in ToSet(work) /\ ToSet(work') = ToSet(work) \ {s}
           /\ GetSelection(s)' = Selection(s, AtPop(s)) /\ reg' = AtPop(s)
           /\ IF GetSelection(s)' # {} /\ deps[s] # {} THEN cur' = s /\ left' = deps[s]
              ELSE cur' = 0 /\ left' = {}
<1> PICK s : s = work[PopIndex]
  OBVIOUS
<1>1. PopIndex \in 1 .. Len(work) /\ work \in Seq(Statements) /\ IsInjective(work)
  BY PopIndexType DEF PopNext, Typing, TypedWork
<1>2. s \in Statements /\ s \in ToSet(work)
  BY <1>1, LenProperties, ElementOfSeq DEF ToSet
<1>3. /\ work' \in Seq(Statements) /\ IsInjective(work')
      /\ ToSet(work') = ToSet(work) \ {s}
  BY <1>1, SwapRemoveType DEF PopNext
<1>4. reg' = AtPop(s)
  BY DEF PopNext
<1>5. AtPop(s) = [reg EXCEPT ![s] = Refreshed(s)]
  <2>1. [k \in Keys(s) |-> {CommandFilter(s, x) : x \in Refreshed(s)[k]}] = Refreshed(s)
    BY DEF CommandFilter, Refreshed
  <2> QED BY <2>1 DEF AtPop
<1>6. GetSelection(s)' = Selection(s, AtPop(s))
  <2>1. UNCHANGED plan
    BY DEF PopNext
  <2> QED BY <1>4, <2>1, SelectionIn
<1>7. /\ cur' = IF Selection(s, AtPop(s)) # {} /\ deps[s] # {} THEN s ELSE 0
      /\ left' = IF cur' = s THEN deps[s] ELSE {}
  BY DEF PopNext
<1>8. s # 0
  BY <1>2 DEF Statements
<1>9. /\ \A k \in Keys(s) : Kind(s, k) # "useForced" \/ reg[s][k] # {} => Refreshed(s)[k] = reg[s][k]
      /\ DOMAIN Refreshed(s) = Keys(s)
      /\ \A k \in Keys(s) : Refreshed(s)[k] \in Optional
  BY <1>2 DEF Refreshed, Typing, TypedRegistry, Registry
<1>10. IF GetSelection(s)' # {} /\ deps[s] # {} THEN cur' = s /\ left' = deps[s]
       ELSE cur' = 0 /\ left' = {}
  BY <1>6, <1>7, <1>8
<1> QED BY <1>2, <1>3, <1>4, <1>5, <1>6, <1>9, <1>10

\* A selection put in the registry keeps it one.
LEMMA RegistryUpdate ==
  ASSUME Registry(reg), UNCHANGED <<db, plan>>, NEW s \in Statements, NEW new,
         DOMAIN new = Keys(s), \A k \in Keys(s) : new[k] \in Optional,
         reg' = [reg EXCEPT ![s] = new]
  PROVE  Registry(reg)'
<1>1. /\ DOMAIN reg' = Statements
      /\ \A t \in Statements : reg'[t] = IF t = s THEN new ELSE reg[t]
  BY DEF Registry
<1> QED BY <1>1, SameQuery, SameIndex DEF Registry

LEMMA TypingPop ==
  ASSUME Typing, PopNext
  PROVE  Typing'
<1>1. UNCHANGED <<db, plan, once>> /\ q' = q /\ deps' = deps
  BY DEF PopNext, plan
<1>2. PICK s \in Statements :
           /\ reg' = [reg EXCEPT ![s] = Refreshed(s)]
           /\ DOMAIN Refreshed(s) = Keys(s) /\ \A k \in Keys(s) : Refreshed(s)[k] \in Optional
           /\ work' \in Seq(Statements) /\ IsInjective(work')
           /\ IF GetSelection(s)' # {} /\ deps[s] # {} THEN cur' = s /\ left' = deps[s]
              ELSE cur' = 0 /\ left' = {}
  BY PopResult
<1>3. TypedPlan'
  BY <1>1, SameIndex DEF Typing
<1>4. TypedRegistry'
  <2>1. Registry(reg)'
    BY <1>1, <1>2, RegistryUpdate DEF Typing, TypedRegistry
  <2>2. Registry(once)'
    BY <1>1, SameQuery, SameIndex DEF Typing, TypedRegistry, Registry
  <2> QED BY <2>1, <2>2 DEF TypedRegistry
<1>5. TypedRoots'
  BY <1>1, SameQuery DEF PopNext, Typing, TypedRoots
<1>6. TypedWork'
  <2>1. CASE GetSelection(s)' # {} /\ deps[s] # {}
    <3>1. s # 0 /\ cur' = s /\ left' = deps[s]
      BY <1>2, <2>1 DEF Statements
    <3> QED BY <1>1, <1>2, <2>1, <3>1, SameQuery DEF TypedWork
  <2>2. CASE ~(GetSelection(s)' # {} /\ deps[s] # {})
    <3>1. cur' = 0 /\ left' = {}
      BY <1>2, <2>2
    <3> QED BY <1>1, <1>2, <3>1, SameQuery DEF TypedWork
  <2> QED BY <2>1, <2>2
<1>7. TypedPhases' /\ TypedReports'
  BY <1>1, SameQuery DEF PopNext, Typing, TypedPhases, TypedReports, Rooted
<1> QED BY <1>3, <1>4, <1>5, <1>6, <1>7 DEF Typing

\* One notification changes the dependent only, which is another statement.
Updated(d, new, changed) ==
  /\ d \in Statements /\ d # cur /\ cur \in Statements
  /\ reg' = [reg EXCEPT ![d] = new] /\ DOMAIN reg = Statements
  /\ \A s \in Statements : s # d => /\ reg'[s] = reg[s]
                                    /\ GetSelection(s)' = GetSelection(s)
                                    /\ Nodes(s)' = Nodes(s)
  /\ work' \in Seq(Statements) /\ IsInjective(work')
  /\ ToSet(work') = ToSet(work) \cup (IF changed THEN {d} ELSE {})
  /\ left' = left \ {Dependent}
  /\ cur' = IF left' = {} THEN 0 ELSE cur

LEMMA NotifiedResult ==
  ASSUME Typing, cur # 0, NEW new, NEW changed \in BOOLEAN, NEW constrained,
         Notified(new, changed, constrained)
  PROVE  \E d : d = Dependent.st /\ Updated(d, new, changed)
<1> PICK d : d = Dependent.st
  OBVIOUS
<1>1. Dependent \in DependentsOf(cur) /\ cur \in Statements /\ WellFormed(q)
  BY DependentIsLeft DEF Typing, TypedPlan
<1>2. d \in Statements /\ d # cur
  <2>1. /\ d \in Statements /\ Dependent.role \in {"Parent", "Child", "User"}
        /\ Dependent.role = "Parent" => d = q.parent[cur]
        /\ Dependent.role = "Child" => d \in Children(cur)
        /\ Dependent.role = "User" => d # cur
    BY <1>1, DependentsType
  <2>2. \A s \in Statements : q.parent[s] # s
    BY <1>1 DEF WellFormed, Statements
  <2> QED BY <1>1, <2>1, <2>2 DEF Children
<1>3. /\ reg' = [reg EXCEPT ![d] = new]
      /\ work' = IF changed THEN Schedule(d) ELSE work
      /\ left' = left \ {Dependent}
      /\ cur' = IF left' = {} THEN 0 ELSE cur
      /\ UNCHANGED plan
  BY DEF Notified
<1>4. work \in Seq(Statements) /\ IsInjective(work) /\ DOMAIN reg = Statements
  BY DEF Typing, TypedWork, TypedRegistry, Registry
<1>5. /\ work' \in Seq(Statements) /\ IsInjective(work')
      /\ ToSet(work') = ToSet(work) \cup (IF changed THEN {d} ELSE {})
  BY <1>2, <1>3, <1>4, ScheduleType
<1>6. ASSUME NEW s \in Statements, s # d
      PROVE  /\ reg'[s] = reg[s] /\ GetSelection(s)' = GetSelection(s) /\ Nodes(s)' = Nodes(s)
  <2>1. reg'[s] = reg[s]
    BY <1>3, <1>4, <1>6
  <2>2. GetSelection(s)' = GetSelection(s)
    <3>1. Selection(s, reg') = Selection(s, reg)
      BY <2>1 DEF Selection, Gathered
    <3> QED BY <3>1, <1>3, SelectionIn DEF GetSelection
  <2> QED BY <2>1, <2>2 DEF Nodes
<1>7. d \in Statements /\ d # cur /\ cur \in Statements
  BY <1>1, <1>2
<1>8. Updated(d, new, changed)
  BY <1>3, <1>4, <1>5, <1>6, <1>7 DEF Updated
<1> QED BY <1>8

LEMMA TypingNotified ==
  ASSUME Typing, pc = "work", cur # 0, NEW new, NEW changed \in BOOLEAN, NEW constrained,
         Notified(new, changed, constrained),
         DOMAIN new = Keys(Dependent.st), \A k \in Keys(Dependent.st) : new[k] \in Optional,
         constrained \subseteq Keys(Dependent.st),
         Registry(once)'
  PROVE  Typing'
<1>1. UNCHANGED <<db, plan>> /\ q' = q /\ deps' = deps /\ pc' = pc
  BY DEF Notified, plan
<1>2. PICK d : d = Dependent.st /\ Updated(d, new, changed)
  BY NotifiedResult
<1>3. TypedPlan'
  BY <1>1, SameIndex DEF Typing
<1>4. TypedRegistry'
  BY <1>1, <1>2, RegistryUpdate DEF Typing, TypedRegistry, Updated
<1>5. TypedRoots'
  BY <1>1, SameQuery DEF Notified, Typing, TypedRoots
<1>6. TypedWork'
  <2>1. left \subseteq deps[cur] /\ GetSelection(cur) # {}
    BY <1>2 DEF Typing, TypedWork, Updated
  <2>2. CASE left' = {}
    BY <1>1, <1>2, <2>2, SameQuery DEF TypedWork, Updated
  <2>3. CASE left' # {}
    <3>1. cur' = cur /\ left' \subseteq deps'[cur'] /\ cur' \in Statements
      BY <1>1, <1>2, <2>1, <2>3 DEF Updated
    <3>3. (GetSelection(cur) # {})'
      BY <1>2, <2>1, <3>1 DEF Updated
    <3> QED BY <1>1, <1>2, <2>3, <3>1, <3>3, SameQuery DEF TypedWork, Updated
  <2> QED BY <2>2, <2>3
<1>7. TypedPhases'
  BY <1>1 DEF Notified, Typing, TypedPhases, Rooted
<1>8. TypedReports'
  <2>0. d \in Statements
    BY <1>2 DEF Updated
  <2>1. \A w \in Notes(d, constrained, new) :
          w \in [st : Statements, k : Keys(w.st), kind : {"NoMatch", "Note"}]
    BY <1>2, <2>0 DEF Notes
  <2>2. warned' = warned \cup Notes(d, constrained, new) /\ err' = err
    BY <1>2 DEF Notified
  <2> QED BY <1>1, <1>2, <2>1, <2>2, SameQuery DEF Typing, TypedReports, Updated
<1> QED BY <1>3, <1>4, <1>5, <1>6, <1>7, <1>8 DEF Typing

\* The two notifications, as updates of the registry.
FromKids(p) == [k \in Keys(p) |-> FromChildren(p, k)]
FromKin(d, role) == [k \in Keys(d) |-> Accepted(d, k, role)]
KidsChange(p) == \E k \in Keys(p) : reg[p][k] = {} \/ Narrower(p, k, FromKids(p)[k])
KinChange(d, role) ==
  \E k \in Keys(d) : Derives(d, k, role) \/ Narrower(d, k, FromKin(d, role)[k])

LEMMA ParentSteps ==
  ASSUME Typing, NotifyParent
  PROVE  \E p \in Statements :
           /\ p = Dependent.st /\ Dependent.role = "Parent" /\ cur # 0 /\ pc = "work"
           /\ \/ Notified(reg[p], FALSE, {})
              \/ Notified(FromKids(p), KidsChange(p), {k \in Keys(p) : reg[p][k] # {}})
           /\ UNCHANGED once
<1>1. cur # 0 /\ Dependent.role = "Parent" /\ pc = "work" /\ UNCHANGED once
  BY DEF NotifyParent
<1> PICK p : p = Dependent.st
  OBVIOUS
<1>2. p \in Statements
  BY <1>1, DependentIsLeft, DependentsType DEF Typing, TypedPlan
<1>3. IF Deferred(p) THEN Notified(reg[p], FALSE, {})
      ELSE Notified(FromKids(p), KidsChange(p), {k \in Keys(p) : reg[p][k] # {}})
  BY DEF NotifyParent, FromKids, KidsChange
<1> QED BY <1>1, <1>2, <1>3

LEMMA KinSteps ==
  ASSUME Typing, NotifyOther
  PROVE  \E d \in Statements, role \in {"Child", "User"} :
           /\ d = Dependent.st /\ role = Dependent.role /\ cur # 0 /\ pc = "work"
           /\ ~Circular(d, role)
           /\ Notified(FromKin(d, role), KinChange(d, role),
                       {k \in Keys(d) : Constrained(d, k, role) /\ ~Uses(d, k)})
           /\ once' = [once EXCEPT ![d] = [k \in Keys(d) |->
                IF role = "User" /\ Derives(d, k, role) /\ Kind(d, k) = "useForced" /\ @[k] = {}
                THEN GetSelection(cur) ELSE @[k]]]
<1>1. cur # 0 /\ Dependent.role # "Parent" /\ pc = "work"
  BY DEF NotifyOther
<1> PICK d, role : d = Dependent.st /\ role = Dependent.role
  OBVIOUS
<1>2. d \in Statements /\ role \in {"Child", "User"}
  BY <1>1, DependentIsLeft, DependentsType DEF Typing, TypedPlan
<1>3. /\ ~Circular(d, role)
      /\ Notified(FromKin(d, role), KinChange(d, role),
                  {k \in Keys(d) : Constrained(d, k, role) /\ ~Uses(d, k)})
      /\ once' = [once EXCEPT ![d] = [k \in Keys(d) |->
           IF role = "User" /\ Derives(d, k, role) /\ Kind(d, k) = "useForced" /\ @[k] = {}
           THEN GetSelection(cur) ELSE @[k]]]
  BY DEF NotifyOther, FromKin, KinChange
<1> QED BY <1>1, <1>2, <1>3

LEMMA TypingNotifyParent ==
  ASSUME Typing, NotifyParent
  PROVE  Typing'
<1>1. PICK p \in Statements :
           /\ p = Dependent.st /\ cur # 0 /\ pc = "work"
           /\ \/ Notified(reg[p], FALSE, {})
              \/ Notified(FromKids(p), KidsChange(p), {k \in Keys(p) : reg[p][k] # {}})
           /\ UNCHANGED once
  BY ParentSteps
<1>2. UNCHANGED <<db, plan>>
  BY <1>1 DEF Notified
<1>3. Registry(once)'
  BY <1>1, <1>2, SameQuery, SameIndex DEF Typing, TypedRegistry, Registry
<1>4. Registry(reg)
  BY DEF Typing, TypedRegistry
<1>5. CASE Notified(reg[p], FALSE, {})
  <2>1. DOMAIN reg[p] = Keys(p) /\ \A k \in Keys(p) : reg[p][k] \in Optional
    BY <1>4 DEF Registry
  <2> QED BY <1>1, <1>3, <1>5, <2>1, TypingNotified
<1>6. CASE Notified(FromKids(p), KidsChange(p), {k \in Keys(p) : reg[p][k] # {}})
  <2>1. DOMAIN FromKids(p) = Keys(p) /\ \A k \in Keys(p) : FromKids(p)[k] \in Optional
    BY <1>4, FromChildrenType DEF FromKids
  <2>2. KidsChange(p) \in BOOLEAN
    BY DEF KidsChange
  <2>3. {k \in Keys(p) : reg[p][k] # {}} \subseteq Keys(p)
    OBVIOUS
  <2> QED BY <1>1, <1>3, <1>6, <2>1, <2>2, <2>3, TypingNotified
<1> QED BY <1>1, <1>5, <1>6

LEMMA TypingNotifyOther ==
  ASSUME Typing, NotifyOther
  PROVE  Typing'
<1>1. PICK d \in Statements, role \in {"Child", "User"} :
           /\ d = Dependent.st /\ role = Dependent.role /\ cur # 0 /\ pc = "work"
           /\ Notified(FromKin(d, role), KinChange(d, role),
                       {k \in Keys(d) : Constrained(d, k, role) /\ ~Uses(d, k)})
           /\ once' = [once EXCEPT ![d] = [k \in Keys(d) |->
                IF role = "User" /\ Derives(d, k, role) /\ Kind(d, k) = "useForced" /\ @[k] = {}
                THEN GetSelection(cur) ELSE @[k]]]
  BY KinSteps
<1>2. UNCHANGED <<db, plan>>
  BY <1>1 DEF Notified
<1>3. Registry(reg) /\ Registry(once) /\ cur \in Statements /\ GetSelection(cur) # {}
  BY <1>1 DEF Typing, TypedRegistry, TypedWork
<1>4. Registry(once)'
  <2>1. GetSelection(cur) \in Optional
    BY <1>3, SelectionType DEF GetSelection, Registry
  <2> DEFINE new == [k \in Keys(d) |->
                IF role = "User" /\ Derives(d, k, role) /\ Kind(d, k) = "useForced" /\ once[d][k] = {}
                THEN GetSelection(cur) ELSE once[d][k]]
  <2>2. DOMAIN new = Keys(d) /\ \A k \in Keys(d) : new[k] \in Optional
    BY <1>3, <2>1 DEF Registry
  <2>3. once' = [once EXCEPT ![d] = new]
    BY <1>1
  <2> HIDE DEF new
  <2>4. /\ DOMAIN once' = Statements
        /\ \A t \in Statements : once'[t] = IF t = d THEN new ELSE once[t]
    BY <1>3, <2>3 DEF Registry
  <2> QED BY <1>2, <1>3, <2>2, <2>4, SameQuery, SameIndex DEF Registry
<1>5. DOMAIN FromKin(d, role) = Keys(d) /\ \A k \in Keys(d) : FromKin(d, role)[k] \in Optional
  BY <1>3, AcceptedType DEF FromKin
<1>6. KinChange(d, role) \in BOOLEAN
  BY DEF KinChange
<1>7. {k \in Keys(d) : Constrained(d, k, role) /\ ~Uses(d, k)} \subseteq Keys(d)
  OBVIOUS
<1> QED BY <1>1, <1>4, <1>5, <1>6, <1>7, TypingNotified

\* The steps that end the query leave everything but its outcome alone.
Outcome == PushPanics \/ UseUnresolved \/ Finish \/ FinishWithoutImplicit \/ Abort \/ UNCHANGED vars

LEMMA OutcomeFrame ==
  ASSUME Outcome
  PROVE  UNCHANGED <<db, plan, nxt, pending, eph, computed, reg, once, work, cur, left, warned>>
BY DEF Outcome, PushPanics, UseUnresolved, Finish, FinishWithoutImplicit, Answer, Abort, vars

LEMMA TypingOutcome ==
  ASSUME Typing, Outcome
  PROVE  Typing'
<1>1. /\ UNCHANGED <<db, plan, reg>> /\ UNCHANGED <<nxt, pending, eph, computed, once>>
      /\ UNCHANGED <<work, cur, left, warned>> /\ q' = q /\ deps' = deps
  BY OutcomeFrame DEF plan
<1>2. TypedPlan'
  BY <1>1, SameIndex DEF Typing
<1>3. TypedRegistry'
  BY <1>1, SameQuery, SameIndex DEF Typing, TypedRegistry, Registry
<1>4. TypedRoots'
  BY <1>1, SameQuery DEF Typing, TypedRoots
<1>5. TypedWork'
  BY <1>1, SameQuery, SameRegistry DEF Typing, TypedWork
<1>6. /\ pc' \in {"failed", "panicked"} \/ pc' = pc
         \/ (pc = "work" /\ cur = 0 /\ work = <<>> /\ pc' = "done")
      /\ err' \in {err, "circular", "aborted"}
  BY DEF Outcome, PushPanics, UseUnresolved, Finish, FinishWithoutImplicit, Answer, Abort, vars, Dry
<1>7. TypedPhases' /\ TypedReports'
  BY <1>1, <1>6, SameQuery DEF Typing, TypedPhases, TypedReports, Rooted, Final
<1> QED BY <1>2, <1>3, <1>4, <1>5, <1>7 DEF Typing

LEMMA Steps ==
  ASSUME [Next]_vars
  PROVE  Push \/ Materialise \/ Drain \/ Seed \/ PopNext \/ NotifyParent \/ NotifyOther \/ Outcome
BY DEF Next, Step, Outcome, Ended

LEMMA TypingNext ==
  ASSUME Typing, [Next]_vars
  PROVE  Typing'
BY Steps, TypingPush, TypingMaterialise, TypingDrain, TypingSeed, TypingPop, TypingNotifyParent,
   TypingNotifyOther, TypingOutcome

\* compute_roots, the worklist and the notifications keep every variable in
\* its full type: the registry holds, for each selector, no selection or one
\* over the rows of the index; what is queued is not computed; the layers of
\* the chain are those of the statements that created one.
THEOREM ExecutorTyped == Spec => []Typing
<1>1. Typing /\ [Next]_vars => Typing'
  BY TypingNext
<1> QED BY <1>1, TypingInit, PTL DEF Spec

\* Every variable of the executor stays in its type, the worklist holds a
\* statement at most once, and a statement selects rows of the index.
THEOREM TypeCorrect == Spec => []TypeOK
<1>1. Typing => TypeOK
  <2> SUFFICES ASSUME Typing PROVE TypeOK
    OBVIOUS
  <2>1. computed \subseteq Statements /\ nxt \in 1 .. q.n + 1
    BY DEF Typing, TypedRoots, TypedPlan, WellFormed, Statements
  <2>2. eph \subseteq {Layer(s) : s \in Statements}
    BY <2>1 DEF Typing, TypedRoots
  <2>3. ASSUME NEW o \in Optional
        PROVE  Cardinality(o) <= 1 /\ IdsOf(o) \subseteq DOMAIN db.inst
    <3>1. CASE o = {}
      <4>1. Cardinality(o) = 0
        BY <3>1, FS_EmptySet
      <4> QED BY <3>1, <4>1 DEF IdsOf
    <3>2. CASE o # {}
      <4>1. PICK x \in Selections : o = {x}
        BY <3>2 DEF Optional
      <4>2. Cardinality(o) = 1
        BY <4>1, FS_Singleton
      <4> QED BY <4>1, <4>2 DEF IdsOf, Selections
    <3> QED BY <3>1, <3>2
  <2>4. \A s \in Statements : \A k \in Keys(s) : reg[s][k] \in Optional /\ once[s][k] \in Optional
    BY DEF Typing, TypedRegistry, Registry
  <2>5. ToSet(work) \subseteq Statements /\ IsInjective(work)
    <3>1. work \in Seq(Statements) /\ IsInjective(work)
      BY DEF Typing, TypedWork
    <3>2. \A i \in DOMAIN work : work[i] \in Statements
      BY <3>1, LenProperties, ElementOfSeq
    <3> QED BY <3>1, <3>2 DEF ToSet
  <2> QED BY <2>1, <2>2, <2>3, <2>4, <2>5
          DEF Typing, TypedPhases, TypedWork, TypedReports, TypeOK
<1> QED BY <1>1, ExecutorTyped, PTL

-----------------------------------------------------------------------------
(* Propagation and loads.                                                  *)

\* Propagation only takes nodes away from a selection, whichever of the
\* dependents notifies: constrain_with_warning narrows, and a selector that
\* has a selection is not derived again unless it is a forced use.
THEOREM PropagationShrinks == Spec => OnlyShrinks
<1> DEFINE Shrinks == \A s \in Statements : \A k \in Keys(s) :
              pc = "work" /\ reg[s][k] # {} /\ Kind(s, k) # "useForced"
                => IdsOf(reg'[s][k]) \subseteq IdsOf(reg[s][k])
<1>1. Typing /\ [Next]_vars => [Shrinks]_vars
  <2> SUFFICES ASSUME Typing, [Next]_vars, NEW s \in Statements, NEW k \in Keys(s),
                      pc = "work", reg[s][k] # {}, Kind(s, k) # "useForced"
               PROVE  IdsOf(reg'[s][k]) \subseteq IdsOf(reg[s][k])
    OBVIOUS
  <2> USE DEF Typing, TypedRegistry
  <2>1. CASE PopNext
    <3>1. PICK t \in Statements :
            /\ reg' = [reg EXCEPT ![t] = Refreshed(t)]
            /\ \A j \in Keys(t) : Kind(t, j) # "useForced" \/ reg[t][j] # {} => Refreshed(t)[j] = reg[t][j]
      BY <2>1, PopResult
    <3>2. reg'[s] = IF s = t THEN Refreshed(t) ELSE reg[s]
      BY <3>1 DEF Registry
    <3> QED BY <3>1, <3>2
  <2>2. CASE NotifyParent
    <3>3. PICK d : d = Dependent.st /\ (reg' = [reg EXCEPT ![d] = reg[d]] \/ reg' = [reg EXCEPT ![d] = FromKids(d)])
      BY <2>2, ParentSteps DEF Notified
    <3>4. reg'[s] = reg[s] \/ (s = d /\ reg'[s] = FromKids(s))
      BY <3>3 DEF Registry
    <3>5. reg'[s] = FromKids(s) => reg'[s][k] = FromChildren(s, k)
      BY DEF FromKids
    <3> QED BY <3>4, <3>5, FromChildrenType
  <2>3. CASE NotifyOther
    <3>1. PICK d \in Statements, role \in {"Child", "User"} :
           /\ d = Dependent.st /\ cur # 0
           /\ reg' = [reg EXCEPT ![d] = FromKin(d, role)]
      BY <2>3, KinSteps DEF Notified
    <3>2. reg'[s] = reg[s] \/ (s = d /\ reg'[s] = FromKin(s, role))
      BY <3>1 DEF Registry
    <3>3. ~Derives(s, k, role)
      BY DEF Derives
    <3>4. cur \in Statements /\ GetSelection(cur) # {}
      BY <3>1 DEF TypedWork
    <3>5. IdsOf(Accepted(s, k, role)) \subseteq IdsOf(reg[s][k])
      BY <3>3, <3>4, AcceptedType
    <3>6. reg'[s] = FromKin(s, role) => reg'[s][k] = Accepted(s, k, role)
      BY DEF FromKin
    <3> QED BY <3>2, <3>5, <3>6
  <2>4. CASE Outcome
    BY <2>4, OutcomeFrame
  <2>5. ~(Push \/ Materialise \/ Drain \/ Seed)
    BY DEF Push, Materialise, Drain, Seed
  <2> QED BY <2>1, <2>2, <2>3, <2>4, <2>5, Steps
<1> QED BY <1>1, ExecutorTyped, PTL DEF Spec, OnlyShrinks

\* The layers of a query are ephemeral.
LEMMA LayersAreEphemeral ==
  ASSUME Typing
  PROVE  Ephemeral(eph)
<1>1. computed \subseteq Nat \ {0}
  BY DEF Typing, TypedRoots, TypedPlan, WellFormed
<1> QED BY <1>1 DEF Typing, TypedRoots, Ephemeral, Layer

\* cached_load_partitioned splits the load of a derive query by layer only
\* when that loses and adds nothing.
THEOREM LoadsAreWhole == Spec => []PartitionIsExact
<1>1. Typing => PartitionIsExact
  <2> SUFFICES ASSUME Typing, NEW s \in Statements, NEW rel \in {{"refs"}, {"has"}}
               PROVE  LET all == Visible(eph)
                          Has(ids, vis) == {h \in HasRows(vis) : h.parent \in ids /\ (q.unnest[s] \/ DirectChild(h, vis))}
                          Refs(ids, vis) == {e \in RefRows(vis) : e.from \in ids /\
                               (q.unnest[s] \/ (DirectRef(e, vis) /\ OuterParent(e, ids, vis)))}
                      IN FindChildInstanceIds(Nodes(s), rel, q.unnest[s], eph) =
                           IF rel = {"has"} THEN {h.child : h \in Has(Nodes(s), all)}
                           ELSE {e.to : e \in Refs(Nodes(s), all)}
    BY DEF PartitionIsExact
  <2>1. q.unnest[s] \in BOOLEAN
    BY DEF Typing, TypedPlan, WellFormed, Statements
  <2>2. FindChildInstanceIds(Nodes(s), rel, q.unnest[s], eph) =
           (IF "has" \in rel THEN {h.child : h \in WholeChildHas(Nodes(s), q.unnest[s], Visible(eph))} ELSE {})
           \cup (IF "refs" \in rel THEN {e.to : e \in WholeChildRefs(Nodes(s), q.unnest[s], Visible(eph))} ELSE {})
    BY <2>1, LayersAreEphemeral, FindChildrenIsWhole
  <2>3. CASE rel = {"has"}
    BY <2>2, <2>3 DEF WholeChildHas
  <2>4. CASE rel = {"refs"}
    BY <2>2, <2>4 DEF WholeChildRefs
  <2> QED BY <2>3, <2>4
<1> QED BY <1>1, ExecutorTyped, PTL

\* The instances of the answer are finitely many rows of the index.
LEMMA AnswerIsFinite ==
  ASSUME Typing
  PROVE  IsFiniteSet(AllNodes) /\ AllNodes \subseteq Int /\ AllNodes \subseteq DOMAIN db.inst
<1>1. ASSUME NEW s \in Statements
      PROVE  IdsOf(GetSelection(s)) \subseteq DOMAIN db.inst
  <2>1. GetSelection(s) \in Optional
    BY SelectionType DEF GetSelection, Typing, TypedRegistry, Registry
  <2> QED BY <2>1 DEF Optional, Selections, IdsOf
<1>2. AllNodes \subseteq DOMAIN db.inst
  BY <1>1 DEF AllNodes
<1>3. IsFiniteSet(DOMAIN db.inst) /\ DOMAIN db.inst \subseteq Int
  BY DEF Typing, TypedPlan, Table
<1> QED BY <1>2, <1>3, FS_Subset

\* find_edges_between answers one target for a reference, the least, though
\* each branch of its load picked one of its own.
THEOREM EdgesAreDistinct == Spec => []OneEdgePerReference
<1>1. Typing => OneEdgePerReference
  BY LayersAreEphemeral, AnswerIsFinite, LeastEdges DEF OneEdgePerReference
<1> QED BY <1>1, ExecutorTyped, PTL

-----------------------------------------------------------------------------
(* The snapshots of compute_roots.                                         *)

\* Going up from a statement ends at a top-level one, at or before it.
LEMMA RootType ==
  ASSUME WellFormed(q), NEW s \in Statements
  PROVE  Root(s) \in Statements /\ Root(s) <= s /\ q.parent[Root(s)] = 0
<1> DEFINE Tops(f, m) == f = [v \in 1 .. m |-> IF q.parent[v] = 0 THEN v ELSE f[q.parent[v]]]
<1>1. q.n \in Nat /\ \A v \in 1 .. q.n : q.parent[v] \in 0 .. v - 1
  BY DEF WellFormed
<1>2. \E f : Tops(f, q.n)
  <2> DEFINE Bad == {m \in 0 .. q.n : \A f : ~Tops(f, m)}
  <2> SUFFICES ASSUME Bad # {} PROVE FALSE
    BY <1>1
  <2>1. PICK m \in Bad : \A o \in Bad : m <= o
    <3>1. Bad \subseteq Nat
      BY <1>1
    <3> HIDE DEF Bad
    <3> QED BY <3>1, LeastNat
  <2>2. m # 0
    <3>1. Tops([v \in 1 .. 0 |-> v], 0)
      OBVIOUS
    <3> QED BY <2>1, <3>1
  <2>3. m \in 1 .. q.n /\ m - 1 \in 0 .. q.n
    BY <1>1, <2>1, <2>2
  <2>4. m - 1 \notin Bad
    <3> SUFFICES ASSUME m - 1 \in Bad PROVE FALSE
      OBVIOUS
    <3>1. m <= m - 1
      BY <2>1
    <3> QED BY <2>3, <3>1
  <2>5. PICK g : Tops(g, m - 1)
    BY <2>3, <2>4
  <2> DEFINE f == [v \in 1 .. m |-> IF v = m THEN (IF q.parent[m] = 0 THEN m ELSE g[q.parent[m]])
                                    ELSE g[v]]
             h == [v \in 1 .. m |-> IF q.parent[v] = 0 THEN v ELSE f[q.parent[v]]]
  <2>6. ASSUME NEW v \in 1 .. m
        PROVE  f[v] = h[v]
    <3>1. v \in 1 .. q.n /\ q.parent[v] \in 0 .. v - 1
      BY <1>1, <2>3
    <3>2. CASE q.parent[v] = 0
      <4>1. CASE v = m
        BY <3>2, <4>1
      <4>2. CASE v # m
        <5>1. v \in 1 .. m - 1
          BY <2>3, <4>2
        <5> QED BY <2>5, <3>2, <5>1
      <4> QED BY <4>1, <4>2
    <3>3. CASE q.parent[v] # 0
      <4>1. q.parent[v] \in 1 .. m - 1 /\ q.parent[v] \in 1 .. m /\ q.parent[v] # m
        BY <2>3, <3>1, <3>3
      <4>2. h[v] = g[q.parent[v]]
        BY <3>3, <4>1
      <4>3. CASE v = m
        BY <3>3, <4>2, <4>3
      <4>4. CASE v # m
        <5>1. v \in 1 .. m - 1
          BY <2>3, <4>4
        <5> QED BY <2>5, <3>3, <4>2, <5>1
      <4> QED BY <4>3, <4>4
    <3> QED BY <3>2, <3>3
  <2>7. f = h
    BY <2>6
  <2>8. Tops(f, m)
    BY <2>7
  <2> QED BY <2>1, <2>8
<1> DEFINE top == CHOOSE f : Tops(f, q.n)
<1>3. Tops(top, q.n)
  BY <1>2
<1>4. Root(s) = top[s]
  BY DEF Root, Statements
<1> HIDE DEF top
<1>5. \A v \in 1 .. q.n : top[v] = IF q.parent[v] = 0 THEN v ELSE top[q.parent[v]]
  BY <1>3
<1> DEFINE Bad == {v \in 1 .. q.n : ~ (top[v] \in 1 .. q.n /\ top[v] <= v /\ q.parent[top[v]] = 0)}
<1>6. Bad = {}
  <2> SUFFICES ASSUME Bad # {} PROVE FALSE
    OBVIOUS
  <2>1. PICK v \in Bad : \A u \in Bad : v <= u
    <3>1. Bad \subseteq Nat
      BY <1>1
    <3> HIDE DEF Bad
    <3> QED BY <3>1, LeastNat
  <2>2. v \in 1 .. q.n /\ q.parent[v] \in 0 .. v - 1
    BY <1>1, <2>1
  <2>3. q.parent[v] # 0
    BY <1>5, <2>1, <2>2
  <2>4. top[v] = top[q.parent[v]] /\ q.parent[v] \in 1 .. q.n /\ q.parent[v] < v
    BY <1>1, <1>5, <2>2, <2>3
  <2>5. q.parent[v] \notin Bad
    <3> SUFFICES ASSUME q.parent[v] \in Bad PROVE FALSE
      OBVIOUS
    <3>1. v <= q.parent[v]
      BY <2>1
    <3> QED BY <2>2, <2>4, <3>1
  <2>6. top[v] \in 1 .. q.n /\ top[v] <= q.parent[v] /\ q.parent[top[v]] = 0
    BY <2>4, <2>5
  <2>7. top[v] <= v
    BY <2>2, <2>4, <2>6
  <2> QED BY <2>1, <2>6, <2>7
<1> QED BY <1>4, <1>6 DEF Statements

\* LayersFirst at one place: only Push and Drain touch what it is about.
LEMMA LayersFirstNext ==
  ASSUME Typing, LayersFirst, [Next]_vars
  PROVE  LayersFirst'
<1>1. CASE UNCHANGED <<plan, nxt, pending, computed>>
  BY <1>1, SameQuery DEF LayersFirst, plan
<1>2. CASE Push
  <2>1. UNCHANGED plan /\ q' = q /\ nxt' = nxt + 1 /\ computed' = computed /\ pending' = pending \cup {Queued(nxt)}
    BY <1>2 DEF Push, plan
  <2>2. nxt \in Statements /\ nxt \in Nat /\ nxt <= q.n
    BY <1>2 DEF Push, Typing, TypedRoots, TypedPlan, WellFormed, Statements
  <2> SUFFICES ASSUME NEW l \in Statements, NEW t \in Statements,
                      q.parent[l] = 0, HasLayerSpec(l), q.parent[t] = 0, l < t
               PROVE  /\ t < nxt' => l \in computed
                      /\ \A p \in pending' : t <= p.st => Layer(l) \in p.eph
    BY <2>1, SameQuery DEF LayersFirst
  <2>3. l \in Nat /\ t \in Nat
    BY DEF Statements
  <2>4. t <= nxt => l \in computed
    <3>1. CASE t < nxt
      BY <3>1 DEF LayersFirst
    <3>2. CASE t = nxt
      <4>1. PreDrains(nxt)
        BY <2>3, <3>2 DEF PreDrains, SiblingDeps, Statements
      <4>2. pending = {}
        BY <1>2, <2>2, <4>1 DEF Push, MustDrain
      <4>3. computed = 1 .. nxt - 1
        BY <4>2 DEF Typing, TypedRoots
      <4> QED BY <2>2, <2>3, <3>2, <4>3 DEF Statements
    <3> QED BY <2>2, <2>3, <3>1, <3>2
  <2>5. l \in computed => Layer(l) \in eph
    BY DEF Typing, TypedRoots
  <2>6. Queued(nxt).st = nxt /\ Queued(nxt).eph = eph
    BY DEF Queued
  <2> QED BY <2>1, <2>2, <2>3, <2>4, <2>5, <2>6 DEF LayersFirst
<1>3. CASE Drain
  <2>1. /\ UNCHANGED plan /\ q' = q /\ nxt' = nxt /\ pending' = {} /\ computed \subseteq computed'
    BY <1>3 DEF Drain, plan
  <2> QED BY <2>1, SameQuery DEF LayersFirst
<1>4. CASE Materialise \/ Seed \/ PopNext
  BY <1>1, <1>4 DEF Materialise, Seed, PopNext
<1>5. CASE NotifyParent \/ NotifyOther
  BY <1>1, <1>5, ParentSteps, KinSteps DEF Notified
<1>6. CASE Outcome
  BY <1>1, <1>6, OutcomeFrame
<1> QED BY <1>2, <1>3, <1>4, <1>5, <1>6, Steps

\* compute_roots drains before it queues a statement that comes after a
\* layer creator, so a queued statement has captured every layer that the
\* top-level statements before its own create.
THEOREM SnapshotsComplete == Spec => []SnapshotComplete
<1>1. Init => LayersFirst
  BY DEF Init, LayersFirst, Statements
<1>2. Typing /\ LayersFirst => SnapshotComplete
  <2> SUFFICES ASSUME Typing, LayersFirst, NEW p \in pending, NEW l \in Statements,
                      q.parent[l] = 0, HasLayerSpec(l), l < Root(p.st)
               PROVE  Layer(l) \in p.eph
    BY DEF SnapshotComplete
  <2>1. p.st \in Statements /\ WellFormed(q)
    <3>1. p.st \in 1 .. nxt - 1 /\ nxt \in 1 .. q.n + 1 /\ q.n \in Nat /\ WellFormed(q)
      BY DEF Typing, TypedRoots, TypedPlan, WellFormed
    <3> QED BY <3>1 DEF Statements
  <2>2. Root(p.st) \in Statements /\ Root(p.st) <= p.st /\ q.parent[Root(p.st)] = 0
    BY <2>1, RootType
  <2> QED BY <2>2 DEF LayersFirst
<1> QED BY <1>1, <1>2, ExecutorTyped, LayersFirstNext, PTL DEF Spec

-----------------------------------------------------------------------------
(* The diagnostics.                                                        *)

\* Once the roots are done every statement has been computed.
LEMMA AllComputed ==
  ASSUME Typing, pc \in {"work", "done"}
  PROVE  computed = Statements
<1>1. pending = {} /\ nxt = q.n + 1 /\ q.n \in Nat /\ computed \cup {p.st : p \in pending} = 1 .. nxt - 1
  BY DEF Typing, TypedPhases, Rooted, TypedRoots, TypedPlan, WellFormed
<1>2. computed = 1 .. nxt - 1
  BY <1>1
<1>3. nxt - 1 = q.n
  BY <1>1
<1> QED BY <1>2, <1>3 DEF Statements

Reports == ReportedIsEmpty /\ EmptyIsReported

LEMMA OneKey ==
  ASSUME WellFormed(q), OneSelector({"name"}), NEW s \in Statements
  PROVE  Keys(s) = {1} /\ Kind(s, 1) = "name"
BY DEF OneSelector, WellFormed, Keys, Statements

\* A notification that narrows what it constrains reports what it empties.
LEMMA ReportsNotified ==
  ASSUME Typing, Reports, pc = "work", cur # 0,
         NEW d, d = Dependent.st, NEW new, NEW changed \in BOOLEAN, NEW constrained,
         Notified(new, changed, constrained), constrained \subseteq Keys(d),
         \A k \in Keys(d) : ~Uses(d, k) /\ reg[d][k] # {} =>
           /\ new[k] # {} /\ IdsOf(new[k]) \subseteq IdsOf(reg[d][k])
           /\ new[k] = reg[d][k] \/ k \in constrained,
         \A k \in constrained : ~Uses(d, k) => reg[d][k] # {}
  PROVE  Reports'
<1>1. Updated(d, new, changed)
  BY NotifiedResult
<1>2. /\ UNCHANGED plan /\ computed' = computed
      /\ warned' = warned \cup Notes(d, constrained, new)
      /\ d \in Statements
      /\ \A s \in Statements : reg'[s] = IF s = d THEN new ELSE reg[s]
  BY <1>1 DEF Notified, Updated
<1>3. computed = Statements /\ WellFormed(q)
  BY AllComputed DEF Typing, TypedPlan
<1>4. ReportedIsEmpty'
  <2> SUFFICES ASSUME NEW w \in warned', ~Uses(w.st, w.k)
               PROVE  w.st \in computed /\ reg'[w.st][w.k] # {} /\ IdsOf(reg'[w.st][w.k]) = {}
    BY <1>2, SameQuery DEF ReportedIsEmpty
  <2>1. CASE w \in warned
    <3>1. w.st \in Statements /\ w.k \in Keys(w.st) /\ reg[w.st][w.k] # {} /\ IdsOf(reg[w.st][w.k]) = {}
      BY <2>1 DEF Reports, ReportedIsEmpty, Typing, TypedReports
    <3> QED BY <1>2, <1>3, <3>1
  <2>2. CASE w \in Notes(d, constrained, new)
    <3>1. w.st = d /\ w.k \in constrained /\ IdsOf(new[w.k]) = {}
      BY <2>2 DEF Notes
    <3> QED BY <1>2, <1>3, <3>1
  <2> QED BY <1>2, <2>1, <2>2
<1>5. EmptyIsReported'
  <2> SUFFICES ASSUME OneSelector({"name"}), NEW s \in Statements
               PROVE  /\ reg'[s][1] # {}
                      /\ IdsOf(reg'[s][1]) = {} => \E w \in warned' : w.st = s /\ w.k = 1
    BY <1>2, <1>3, SameQuery DEF EmptyIsReported
  <2>1. /\ reg[s][1] # {}
        /\ IdsOf(reg[s][1]) = {} => \E w \in warned : w.st = s /\ w.k = 1
    BY <1>3 DEF Reports, EmptyIsReported
  <2>2. 1 \in Keys(s) /\ ~Uses(s, 1)
    BY <1>3, OneKey DEF Uses
  <2>3. CASE s # d
    BY <1>2, <2>1, <2>3
  <2>4. CASE s = d
    <3>1. reg'[s] = new /\ new[1] # {} /\ (new[1] = reg[s][1] \/ 1 \in constrained)
      BY <1>2, <2>1, <2>2, <2>4
    <3>2. ASSUME IdsOf(new[1]) = {}, IdsOf(reg[s][1]) # {}
          PROVE  \E w \in warned' : w.st = s /\ w.k = 1
      <4>1. 1 \in constrained /\ Narrower(d, 1, new[1])
        BY <2>4, <3>1, <3>2 DEF Narrower
      <4>2. [st |-> d, k |-> 1, kind |-> "Note"] \in Notes(d, constrained, new)
        BY <3>2, <4>1 DEF Notes
      <4> QED BY <1>2, <2>4, <4>2
    <3> QED BY <1>2, <2>1, <3>1, <3>2
  <2> QED BY <2>3, <2>4
<1> QED BY <1>4, <1>5 DEF Reports

LEMMA ReportsDrain ==
  ASSUME Typing, Reports, Drain
  PROVE  Reports'
<1>1. TypedPlan /\ TypedRoots /\ WellFormed(q)
  BY DEF Typing, TypedPlan
<1>2. UNCHANGED plan /\ warned' = warned \cup NoMatches(pending)
  BY DEF Drain
<1>3. /\ \A p \in pending : /\ p.st \in Statements /\ p.st \notin computed
                            /\ p.parents.kind \in ScopeKinds /\ p.children.kind \in ScopeKinds
                            /\ reg'[p.st] = [k \in Keys(p.st) |-> Computed(p, k)]
      /\ \A s \in Statements : (\A p \in pending : p.st # s) => reg'[s] = reg[s]
      /\ computed' = computed \cup {p.st : p \in pending} /\ computed' = 1 .. nxt - 1
  BY <1>1, DrainResult
<1>4. \A s \in computed : s \in Statements /\ reg'[s] = reg[s]
  <2>1. computed \subseteq Statements
    <3>1. nxt \in 1 .. q.n + 1 /\ q.n \in Nat /\ computed \subseteq 1 .. nxt - 1
      BY <1>1 DEF TypedRoots, WellFormed
    <3> QED BY <3>1 DEF Statements
  <2> QED BY <1>3, <2>1
<1>5. ReportedIsEmpty'
  <2> SUFFICES ASSUME NEW w \in warned', ~Uses(w.st, w.k)
               PROVE  w.st \in computed' /\ reg'[w.st][w.k] # {} /\ IdsOf(reg'[w.st][w.k]) = {}
    BY <1>2, SameQuery DEF ReportedIsEmpty
  <2>1. CASE w \in warned
    BY <1>3, <1>4, <2>1 DEF Reports, ReportedIsEmpty
  <2>2. CASE w \in NoMatches(pending)
    <3>1. PICK p \in pending : \E k \in Keys(p.st) :
            w = [st |-> p.st, k |-> k, kind |-> "NoMatch"] /\ \E x \in Computed(p, k) : x.nodes = {}
      BY <2>2 DEF NoMatches
    <3> PICK k \in Keys(p.st) :
            w = [st |-> p.st, k |-> k, kind |-> "NoMatch"] /\ \E x \in Computed(p, k) : x.nodes = {}
      BY <3>1
    <3>2. Computed(p, k) # {} /\ IdsOf(Computed(p, k)) = {}
      BY <1>1, <1>3, <3>1, ComputedType
    <3>3. w.st = p.st /\ w.k = k /\ reg'[p.st][k] = Computed(p, k) /\ p.st \in computed'
      BY <1>3, <3>1
    <3> QED BY <3>2, <3>3
  <2> QED BY <1>2, <2>1, <2>2
<1>6. EmptyIsReported'
  <2> SUFFICES ASSUME OneSelector({"name"}), NEW s \in computed'
               PROVE  /\ reg'[s][1] # {}
                      /\ IdsOf(reg'[s][1]) = {} => \E w \in warned' : w.st = s /\ w.k = 1
    BY <1>2, SameQuery DEF EmptyIsReported
  <2>1. CASE s \in computed
    BY <1>2, <1>4, <2>1 DEF Reports, EmptyIsReported
  <2>2. ASSUME NEW p \in pending, p.st = s
        PROVE  /\ reg'[s][1] # {}
               /\ IdsOf(reg'[s][1]) = {} => \E w \in warned' : w.st = s /\ w.k = 1
    <3>1. 1 \in Keys(s) /\ Kind(s, 1) = "name" /\ s \in Statements
      BY <1>1, <1>3, <2>2, OneKey
    <3>2. reg'[s][1] = Computed(p, 1)
      <4>1. reg'[s] = [k \in Keys(s) |-> Computed(p, k)]
        BY <1>3, <2>2
      <4> QED BY <3>1, <4>1
    <3>3. Computed(p, 1) # {} /\ (\A x \in Computed(p, 1) : x.nodes = {} <=> IdsOf(Computed(p, 1)) = {})
      BY <1>1, <1>3, <2>2, <3>1, ComputedType
    <3>4. ASSUME IdsOf(Computed(p, 1)) = {}
          PROVE  \E w \in warned' : w.st = s /\ w.k = 1
      <4>1. \E x \in Computed(p, 1) : x.nodes = {}
        BY <3>3, <3>4
      <4>2. [st |-> s, k |-> 1, kind |-> "NoMatch"] \in NoMatches(pending)
        BY <2>2, <3>1, <4>1 DEF NoMatches
      <4> QED BY <1>2, <4>2
    <3> QED BY <3>2, <3>3, <3>4
  <2> QED BY <1>3, <2>1, <2>2
<1> QED BY <1>5, <1>6 DEF Reports

LEMMA ReportsNext ==
  ASSUME Typing, Reports, [Next]_vars
  PROVE  Reports'
<1>1. CASE UNCHANGED <<plan, computed, reg, warned>>
  BY <1>1, SameQuery DEF Reports, ReportedIsEmpty, EmptyIsReported
<1>2. CASE Push \/ Materialise \/ Seed
  BY <1>1, <1>2 DEF Push, Materialise, Seed
<1>3. CASE Outcome
  BY <1>1, <1>3, OutcomeFrame
<1>4. CASE Drain
  BY <1>4, ReportsDrain
<1>5. CASE PopNext
  <2>1. UNCHANGED <<plan, computed, warned>> /\ pc = "work"
    BY <1>5 DEF PopNext
  <2>2. PICK t \in Statements :
          /\ reg' = [reg EXCEPT ![t] = Refreshed(t)]
          /\ \A k \in Keys(t) : Kind(t, k) # "useForced" \/ reg[t][k] # {} => Refreshed(t)[k] = reg[t][k]
    BY <1>5, PopResult
  <2>3. \A s \in Statements : reg'[s] = IF s = t THEN Refreshed(t) ELSE reg[s]
    BY <2>2 DEF Typing, TypedRegistry, Registry
  <2>4. \A s \in Statements : \A k \in Keys(s) : ~Uses(s, k) => reg'[s][k] = reg[s][k]
    BY <2>2, <2>3 DEF Uses
  <2>5. ReportedIsEmpty'
    <3>1. \A w \in warned : w.st \in Statements /\ w.k \in Keys(w.st)
      BY DEF Typing, TypedReports
    <3> QED BY <2>1, <2>4, <3>1, SameQuery DEF Reports, ReportedIsEmpty
  <2>6. EmptyIsReported'
    <3>1. OneSelector({"name"}) => \A s \in Statements : 1 \in Keys(s) /\ ~Uses(s, 1)
      BY OneKey DEF Typing, TypedPlan, Uses
    <3>2. computed = Statements
      BY <2>1, AllComputed
    <3> QED BY <2>1, <2>4, <3>1, <3>2, SameQuery DEF Reports, EmptyIsReported
  <2> QED BY <2>5, <2>6 DEF Reports
<1>6. CASE NotifyParent
  <2>1. PICK p \in Statements :
           /\ p = Dependent.st /\ cur # 0 /\ pc = "work"
           /\ \/ Notified(reg[p], FALSE, {})
              \/ Notified(FromKids(p), KidsChange(p), {k \in Keys(p) : reg[p][k] # {}})
    BY <1>6, ParentSteps
  <2>2. CASE Notified(reg[p], FALSE, {})
    <3>1. \A k \in Keys(p) : IdsOf(reg[p][k]) \subseteq IdsOf(reg[p][k])
      OBVIOUS
    <3> QED BY <2>1, <2>2, <3>1, ReportsNotified
  <2>3. CASE Notified(FromKids(p), KidsChange(p), {k \in Keys(p) : reg[p][k] # {}})
    <3> DEFINE constrained == {k \in Keys(p) : reg[p][k] # {}}
    <3>1. \A k \in Keys(p) : ~Uses(p, k) /\ reg[p][k] # {} =>
            /\ FromKids(p)[k] # {} /\ IdsOf(FromKids(p)[k]) \subseteq IdsOf(reg[p][k])
            /\ FromKids(p)[k] = reg[p][k] \/ k \in constrained
      BY FromChildrenType DEF FromKids, Typing, TypedRegistry
    <3>2. KidsChange(p) \in BOOLEAN /\ constrained \subseteq Keys(p)
      BY DEF KidsChange
    <3>3. \A k \in constrained : ~Uses(p, k) => reg[p][k] # {}
      OBVIOUS
    <3>4. Notified(FromKids(p), KidsChange(p), constrained)
      BY <2>3
    <3>5. p = Dependent.st /\ cur # 0 /\ pc = "work"
      BY <2>1
    <3> HIDE DEF constrained
    <3> QED BY <3>5, <3>1, <3>2, <3>3, <3>4, ReportsNotified
  <2> QED BY <2>1, <2>2, <2>3
<1>7. CASE NotifyOther
  <2>1. PICK d \in Statements, role \in {"Child", "User"} :
           /\ d = Dependent.st /\ cur # 0 /\ pc = "work"
           /\ Notified(FromKin(d, role), KinChange(d, role),
                       {k \in Keys(d) : Constrained(d, k, role) /\ ~Uses(d, k)})
    BY <1>7, KinSteps
  <2>2. cur \in Statements /\ GetSelection(cur) # {} /\ Registry(reg) /\ Registry(once)
    BY <2>1 DEF Typing, TypedWork, TypedRegistry
  <2>3. \A k \in Keys(d) : ~Uses(d, k) /\ reg[d][k] # {} =>
            /\ FromKin(d, role)[k] # {} /\ IdsOf(FromKin(d, role)[k]) \subseteq IdsOf(reg[d][k])
            /\ FromKin(d, role)[k] = reg[d][k]
               \/ k \in {j \in Keys(d) : Constrained(d, j, role) /\ ~Uses(d, j)}
    <3> SUFFICES ASSUME NEW k \in Keys(d), ~Uses(d, k), reg[d][k] # {}
                 PROVE  /\ Accepted(d, k, role) # {} /\ IdsOf(Accepted(d, k, role)) \subseteq IdsOf(reg[d][k])
                        /\ Accepted(d, k, role) = reg[d][k] \/ Constrained(d, k, role)
      BY DEF FromKin
    <3>1. ~Derives(d, k, role)
      BY DEF Derives, Uses
    <3> QED BY <2>1, <2>2, <3>1, AcceptedType DEF Accepted
  <2>4. \A k \in Keys(d) : Constrained(d, k, role) => reg[d][k] # {}
    BY DEF Constrained, Derives
  <2>5. KinChange(d, role) \in BOOLEAN
    BY DEF KinChange
  <2> QED BY <2>1, <2>3, <2>4, <2>5, ReportsNotified, SMTT(60)
<1> QED BY <1>2, <1>3, <1>4, <1>5, <1>6, <1>7, Steps

LEMMA ReportsInvariance == Spec => []Reports
<1>1. Init => Reports
  BY DEF Init, Reports, ReportedIsEmpty, EmptyIsReported
<1> QED BY <1>1, ExecutorTyped, ReportsNext, PTL DEF Spec

\* The combined selection of a statement with one selector is its own.
LEMMA OneSelection ==
  ASSUME Typing, OneSelector({"name"}), NEW s \in Statements
  PROVE  Nodes(s) = IdsOf(reg[s][1])
<1>1. Keys(s) = {1} /\ 1 >= 1
  BY OneKey DEF Typing, TypedPlan
<1>2. IdsOf(GetSelection(s)) = UNION {IdsOf(reg[s][k]) : k \in Gathered(s, reg)}
  BY SelectionType DEF GetSelection, Typing, TypedRegistry, Registry
<1>3. CASE reg[s][1] = {}
  <2>1. Gathered(s, reg) = {}
    BY <1>1, <1>3 DEF Gathered
  <2> QED BY <1>2, <1>3, <2>1 DEF Nodes, IdsOf
<1>4. CASE reg[s][1] # {}
  <2>1. Gathered(s, reg) = {1}
    BY <1>1, <1>4 DEF Gathered
  <2> QED BY <1>2, <2>1 DEF Nodes
<1> QED BY <1>3, <1>4

\* The step that answers, and those after it.
LEMMA DoneSteps ==
  ASSUME Typing, [Next]_vars, pc' = "done"
  PROVE  UNCHANGED vars \/ Finish \/ FinishWithoutImplicit
<1>1. ~(Push \/ Materialise \/ Drain \/ Seed \/ PopNext)
  BY DEF Push, Materialise, Drain, Seed, PopNext
<1>2. ~(NotifyParent \/ NotifyOther)
  BY ParentSteps, KinSteps DEF Notified
<1>3. ~(PushPanics \/ UseUnresolved \/ Abort)
  BY DEF PushPanics, UseUnresolved, Abort
<1> QED BY <1>1, <1>2, <1>3, Steps DEF Outcome

LEMMA SameVars ==
  ASSUME UNCHANGED vars
  PROVE  UNCHANGED <<db, plan, pc, eph, computed, reg, warned, result>>
BY DEF vars

\* A statement that names something and ends up with nothing is reported,
\* and what has been reported empty is: constrain_with_warning and
\* gather_warnings lose no diagnostic and keep none that is out of date.
THEOREM EmptyExplained == Spec => []EmptyIsExplained
<1>1. Init => EmptyIsExplained
  BY DEF Init, EmptyIsExplained
<1>2. ASSUME Typing, Reports, EmptyIsExplained, [Next]_vars
      PROVE  EmptyIsExplained'
  <2>1. CASE pc' # "done"
    BY <2>1 DEF EmptyIsExplained
  <2>2. CASE UNCHANGED vars
    <3>1. UNCHANGED <<db, plan, reg, pc, result>>
      BY <2>2, SameVars
    <3> QED BY <1>2, <3>1, SameQuery, SameRegistry DEF EmptyIsExplained
  <2>3. CASE Finish \/ FinishWithoutImplicit
    <3>1. /\ UNCHANGED <<db, plan, reg>> /\ pc = "work"
          /\ result'.warnings = Warnings
      BY <2>3 DEF Finish, FinishWithoutImplicit, Answer, Dry
    <3>2. computed = Statements
      BY <1>2, <3>1, AllComputed
    <3>3. ASSUME NEW w \in Warnings, ~Uses(w.st, w.k)
          PROVE  IdsOf(reg[w.st][w.k]) = {}
      BY <1>2, <3>3 DEF Warnings, Reports, ReportedIsEmpty
    <3>4. ASSUME OneSelector({"name"}), NEW s \in Statements, Nodes(s) = {}
          PROVE  \E w \in Warnings : w.st = s
      <4>1. IdsOf(reg[s][1]) = {}
        BY <1>2, <3>4, OneSelection
      <4>2. PICK w \in warned : w.st = s /\ w.k = 1
        BY <1>2, <3>2, <3>4, <4>1 DEF Reports, EmptyIsReported
      <4>3. w \in [st : Statements, k : Keys(w.st), kind : {"NoMatch", "Note"}]
        BY <1>2 DEF Typing, TypedReports
      <4> DEFINE v == [w EXCEPT !.kind = "NoMatch"]
      <4>4. v.st = s /\ v.kind = "NoMatch"
        BY <4>2, <4>3
      <4>5. CASE w \in Warnings
        BY <4>2, <4>5
      <4>6. CASE w \notin Warnings
        <5>1. v \in warned
          BY <4>2, <4>6 DEF Warnings
        <5>2. v.kind # "Note"
          BY <4>4
        <5>3. v \in Warnings
          BY <5>1, <5>2 DEF Warnings
        <5> QED BY <4>4, <5>3
      <4> QED BY <4>5, <4>6
    <3> QED BY <3>1, <3>3, <3>4, SameQuery, SameRegistry DEF EmptyIsExplained
  <2> QED BY <1>2, <2>1, <2>2, <2>3, DoneSteps
<1> QED BY <1>1, <1>2, ExecutorTyped, ReportsInvariance, PTL DEF Spec

-----------------------------------------------------------------------------
(* Uses follow their labels.                                               *)

\* A query in which a statement uses its own label panics at once, and a
\* panic is final.
LEMMA NoBorrowNext ==
  ASSUME Typing, NoBorrow, [Next]_vars
  PROVE  NoBorrow'
<1>1. UNCHANGED plan
  <2>1. CASE NotifyParent \/ NotifyOther
    BY <2>1, ParentSteps, KinSteps DEF Notified
  <2>2. CASE Outcome
    BY <2>2, OutcomeFrame
  <2>3. CASE Push \/ Materialise \/ Drain \/ Seed \/ PopNext
    BY <2>3 DEF Push, Materialise, Drain, Seed, PopNext
  <2> QED BY <2>1, <2>2, <2>3, Steps
<1>2. pc = "panicked" => pc' = "panicked"
  <2> SUFFICES ASSUME pc = "panicked" PROVE pc' = "panicked"
    OBVIOUS
  <2>1. ~(Push \/ Materialise \/ Drain \/ Seed \/ PopNext \/ NotifyParent \/ NotifyOther)
    BY DEF Push, Materialise, Drain, Seed, PopNext, NotifyParent, NotifyOther
  <2>2. Outcome
    BY <2>1, Steps
  <2> QED BY <2>2 DEF Outcome, PushPanics, UseUnresolved, Finish, FinishWithoutImplicit, Answer,
                      Abort, Dry, vars
<1> QED BY <1>1, <1>2, SameQuery DEF NoBorrow

\* A use and the statements of its label are different, and the latter count
\* it among their dependents.
LEMMA UseIsDependent ==
  ASSUME Typing, NoBorrow, pc # "panicked", NEW s \in Statements, NEW l \in Statements,
         NEW k \in Keys(s), Provides(l, s, k)
  PROVE  s # l /\ [st |-> s, role |-> "User", at |-> <<s, k>>] \in deps[l]
<1>1. Uses(s, k)
  BY DEF Provides, Uses
<1>2. s # l
  BY <1>1 DEF NoBorrow, BorrowsTwice, Provides
<1>3. k \in {j \in Keys(s) : Uses(s, j) /\ q.sel[s][j].label \in q.labels[l]}
  BY <1>1 DEF Provides
<1>4. [st |-> s, role |-> "User", at |-> <<s, k>>] \in DependentsOf(l)
  BY <1>2, <1>3 DEF DependentsOf
<1> QED BY <1>2, <1>4 DEF Typing, TypedPlan

\* A statement of which no selector changed in what it selects.
LEMMA SameNodes ==
  ASSUME NEW s \in Statements, NEW R, NEW T,
         \A k \in Keys(s) : /\ R[s][k] \in Optional /\ T[s][k] \in Optional
                            /\ (R[s][k] = {}) <=> (T[s][k] = {})
                            /\ IdsOf(R[s][k]) = IdsOf(T[s][k])
  PROVE  /\ Selection(s, R) = {} <=> Selection(s, T) = {}
         /\ IdsOf(Selection(s, R)) = IdsOf(Selection(s, T))
<1>1. Gathered(s, R) = Gathered(s, T)
  BY DEF Gathered
<1>2. Selection(s, R) = {} <=> Selection(s, T) = {}
  BY <1>1 DEF Selection
<1>3. Gathered(s, R) \subseteq Keys(s)
  BY DEF Gathered
<1>4. UNION {IdsOf(R[s][k]) : k \in Gathered(s, R)} = UNION {IdsOf(T[s][k]) : k \in Gathered(s, T)}
  BY <1>1, <1>3
<1> QED BY <1>2, <1>4, SelectionType

\* A notification that tells its dependent's dependents of every change, only
\* narrows a use that has a selection, and brings one that it addresses
\* within the statement that notifies.
LEMMA UsesFollowNotified ==
  ASSUME Typing, Typing', NoBorrow, UsesFollow, pc = "work", cur # 0,
         NEW d, d = Dependent.st, NEW new, NEW changed \in BOOLEAN, NEW constrained,
         Notified(new, changed, constrained),
         ~changed => \A k \in Keys(d) : /\ (new[k] = {}) <=> (reg[d][k] = {})
                                        /\ IdsOf(new[k]) = IdsOf(reg[d][k]),
         \A k \in Keys(d) : Kind(d, k) = "use" /\ reg[d][k] # {} =>
           new[k] # {} /\ IdsOf(new[k]) \subseteq IdsOf(reg[d][k]),
         \A k \in Keys(d) : Dependent.role = "User" /\ Provides(cur, d, k) =>
           new[k] # {} /\ IdsOf(new[k]) \subseteq Nodes(cur)
  PROVE  UsesFollow'
<1>1. Updated(d, new, changed)
  BY NotifiedResult
<1>2. UNCHANGED <<db, plan>> /\ q' = q
  BY DEF Notified, plan
<1>3. /\ d \in Statements /\ d # cur /\ ToSet(work) \subseteq ToSet(work')
      /\ changed => d \in ToSet(work')
      /\ \A s \in Statements : /\ reg'[s] = IF s = d THEN new ELSE reg[s]
                               /\ s # d => GetSelection(s)' = GetSelection(s) /\ Nodes(s)' = Nodes(s)
  BY <1>1 DEF Updated
<1>4. ASSUME ~changed
      PROVE  /\ GetSelection(d)' = {} <=> GetSelection(d) = {}
             /\ Nodes(d)' = Nodes(d)
  <2>1. \A k \in Keys(d) : /\ reg'[d][k] \in Optional /\ reg[d][k] \in Optional
                           /\ (reg'[d][k] = {}) <=> (reg[d][k] = {})
                           /\ IdsOf(reg'[d][k]) = IdsOf(reg[d][k])
    BY <1>2, <1>3, <1>4, SameQuery, SameIndex DEF Typing, TypedRegistry, Registry
  <2>2. /\ Selection(d, reg') = {} <=> Selection(d, reg) = {}
        /\ IdsOf(Selection(d, reg')) = IdsOf(Selection(d, reg))
    <3> PICK R, T : R = reg' /\ T = reg
      OBVIOUS
    <3>1. \A k \in Keys(d) : /\ R[d][k] \in Optional /\ T[d][k] \in Optional
                             /\ (R[d][k] = {}) <=> (T[d][k] = {})
                             /\ IdsOf(R[d][k]) = IdsOf(T[d][k])
      BY <2>1
    <3>2. d \in Statements
      BY <1>3
    <3>3. /\ Selection(d, R) = {} <=> Selection(d, T) = {}
          /\ IdsOf(Selection(d, R)) = IdsOf(Selection(d, T))
      BY ONLY <3>1, <3>2, SameNodes
    <3> QED BY <3>3
  <2>3. GetSelection(d)' = Selection(d, reg') /\ Nodes(d)' = IdsOf(Selection(d, reg'))
    BY <1>2, SelectionIn
  <2> QED BY <2>2, <2>3 DEF GetSelection, Nodes
<1> SUFFICES ASSUME NEW s \in Statements, NEW l \in Statements, NEW k \in Keys(s),
                    Provides(l, s, k), GetSelection(l)' # {}
             PROVE  \/ l \in ToSet(work')
                    \/ [st |-> s, role |-> "User", at |-> <<s, k>>] \in left' /\ cur' = l
                    \/ reg'[s][k] # {} /\ IdsOf(reg'[s][k]) \subseteq Nodes(l)'
  BY <1>2, SameQuery DEF UsesFollow, Provides, Due, Within
<1>5. s # l
  BY UseIsDependent
<1>6. CASE l = d
  <2>1. CASE changed
    BY <1>3, <1>6, <2>1
  <2>2. CASE ~changed
    <3>1. GetSelection(l) # {} /\ Nodes(l)' = Nodes(l)
      BY <1>4, <1>6, <2>2
    <3>2. l \in ToSet(work) \/ Within(s, k, l)
      BY <1>3, <1>6, <3>1 DEF UsesFollow, Due
    <3> QED BY <1>3, <1>5, <1>6, <3>1, <3>2 DEF Within
  <2> QED BY <2>1, <2>2
<1>7. CASE l # d
  <2>1. GetSelection(l) # {} /\ Nodes(l)' = Nodes(l)
    BY <1>3, <1>7
  <2>2. l \in ToSet(work) \/ Due(l, s, k) \/ Within(s, k, l)
    BY <2>1 DEF UsesFollow
  <2>3. CASE Within(s, k, l)
    <3>1. CASE s = d
      <4>1. Kind(d, k) = "use"
        BY <3>1 DEF Provides
      <4>2. new[k] # {} /\ IdsOf(new[k]) \subseteq IdsOf(reg[d][k])
        BY <2>3, <3>1, <4>1 DEF Within
      <4>3. reg'[s][k] = new[k] /\ IdsOf(reg[d][k]) \subseteq Nodes(l)
        BY <1>3, <2>3, <3>1 DEF Within
      <4> QED BY <2>1, <4>2, <4>3
    <3>2. CASE s # d
      BY <1>3, <2>1, <2>3, <3>2 DEF Within
    <3> QED BY <3>1, <3>2
  <2>4. CASE Due(l, s, k)
    <3> DEFINE entry == [st |-> s, role |-> "User", at |-> <<s, k>>]
    <3>1. entry \in left /\ cur = l
      BY <2>4 DEF Due
    <3>2. left' = left \ {Dependent} /\ cur' = IF left' = {} THEN 0 ELSE cur
      BY <1>1 DEF Updated
    <3>3. CASE entry # Dependent
      BY <3>1, <3>2, <3>3
    <3>4. CASE entry = Dependent
      <4>1. s = d /\ Dependent.role = "User" /\ Provides(cur, d, k)
        BY <3>1, <3>4
      <4>2. new[k] # {} /\ IdsOf(new[k]) \subseteq Nodes(l)
        BY <3>1, <4>1
      <4> QED BY <1>3, <2>1, <4>1, <4>2
    <3> QED BY <3>3, <3>4
  <2>5. CASE l \in ToSet(work)
    BY <1>3, <2>5
  <2> QED BY <2>2, <2>3, <2>4, <2>5
<1> QED BY <1>6, <1>7

LEMMA UsesFollowPop ==
  ASSUME Typing, NoBorrow, UsesFollow, PopNext
  PROVE  UsesFollow'
<1>1. UNCHANGED <<plan, db>> /\ q' = q /\ pc = "work" /\ cur = 0 /\ left = {}
  BY DEF PopNext, plan, Typing, TypedWork
<1>2. PICK t \in Statements :
        /\ reg' = [reg EXCEPT ![t] = Refreshed(t)]
        /\ \A k \in Keys(t) : Kind(t, k) # "useForced" \/ reg[t][k] # {} => Refreshed(t)[k] = reg[t][k]
        /\ ToSet(work') = ToSet(work) \ {t}
        /\ IF GetSelection(t)' # {} /\ deps[t] # {} THEN cur' = t /\ left' = deps[t]
           ELSE cur' = 0 /\ left' = {}
  BY PopResult
<1>3. \A s \in Statements : reg'[s] = IF s = t THEN Refreshed(t) ELSE reg[s]
  BY <1>2 DEF Typing, TypedRegistry, Registry
<1>4. ASSUME NEW s \in Statements, s # t
      PROVE  GetSelection(s)' = GetSelection(s) /\ Nodes(s)' = Nodes(s)
  <2>1. Selection(s, reg') = Selection(s, reg)
    BY <1>3, <1>4 DEF Selection, Gathered
  <2> QED BY <1>1, <2>1, SelectionIn DEF GetSelection, Nodes
<1> SUFFICES ASSUME NEW s \in Statements, NEW l \in Statements, NEW k \in Keys(s),
                    Provides(l, s, k), GetSelection(l)' # {}
             PROVE  \/ l \in ToSet(work')
                    \/ [st |-> s, role |-> "User", at |-> <<s, k>>] \in left' /\ cur' = l
                    \/ reg'[s][k] # {} /\ IdsOf(reg'[s][k]) \subseteq Nodes(l)'
  BY <1>1, SameQuery DEF UsesFollow, Provides, Due, Within
<1>5. [st |-> s, role |-> "User", at |-> <<s, k>>] \in deps[l]
  BY <1>1, UseIsDependent
<1>6. CASE l = t
  BY <1>2, <1>5, <1>6
<1>7. CASE l # t
  <2>1. GetSelection(l) # {} /\ Nodes(l)' = Nodes(l)
    BY <1>4, <1>7
  <2>2. l \in ToSet(work) \/ Within(s, k, l)
    BY <1>1, <2>1 DEF UsesFollow, Due
  <2>3. reg[s][k] # {} => reg'[s][k] = reg[s][k]
    BY <1>2, <1>3
  <2> QED BY <1>2, <1>7, <2>1, <2>2, <2>3 DEF Within
<1> QED BY <1>6, <1>7

LEMMA UsesFollowOther ==
  ASSUME Typing, Typing', NoBorrow, UsesFollow, NotifyOther
  PROVE  UsesFollow'
<1>1. PICK d \in Statements, role \in {"Child", "User"} :
         /\ d = Dependent.st /\ role = Dependent.role /\ cur # 0 /\ pc = "work"
         /\ Notified(FromKin(d, role), KinChange(d, role),
                     {k \in Keys(d) : Constrained(d, k, role) /\ ~Uses(d, k)})
  BY KinSteps
<1>2. cur \in Statements /\ GetSelection(cur) # {} /\ Registry(reg) /\ Registry(once)
  BY <1>1 DEF Typing, TypedWork, TypedRegistry
<1> DEFINE new == FromKin(d, role)
<1>3. ASSUME NEW k \in Keys(d)
      PROVE  /\ new[k] = Accepted(d, k, role)
             /\ ~Derives(d, k, role) => /\ IdsOf(new[k]) \subseteq IdsOf(reg[d][k])
                                        /\ (reg[d][k] = {}) <=> (new[k] = {})
  BY <1>2, AcceptedType DEF FromKin
<1>4. ~KinChange(d, role) => \A k \in Keys(d) : /\ (new[k] = {}) <=> (reg[d][k] = {})
                                                /\ IdsOf(new[k]) = IdsOf(reg[d][k])
  <2> SUFFICES ASSUME ~KinChange(d, role), NEW k \in Keys(d)
               PROVE  (new[k] = {}) <=> (reg[d][k] = {}) /\ IdsOf(new[k]) = IdsOf(reg[d][k])
    BY <1>3 DEF KinChange, Narrower
  <2>1. ~Derives(d, k, role) /\ ~Narrower(d, k, new[k])
    BY DEF KinChange
  <2> QED BY <1>3, <2>1 DEF Narrower
<1>5. \A k \in Keys(d) : Kind(d, k) = "use" /\ reg[d][k] # {} =>
        new[k] # {} /\ IdsOf(new[k]) \subseteq IdsOf(reg[d][k])
  BY <1>3 DEF Derives
<1>6. ASSUME NEW k \in Keys(d), role = "User", Provides(cur, d, k)
      PROVE  new[k] # {} /\ IdsOf(new[k]) \subseteq Nodes(cur)
  <2>1. GetSelection(cur) \in Optional
    BY <1>2, SelectionType DEF GetSelection, Registry
  <2> DEFINE owner == Only(GetSelection(cur))
  <2>2. owner \in Selections /\ Nodes(cur) = owner.nodes
    BY <1>2, <2>1, OptionalType DEF Nodes
  <2>3. Uses(d, k) /\ Kind(d, k) = "use" /\ Addressed(d, k, role)
    BY <1>6 DEF Provides, Uses, Addressed
  <2>4. CASE reg[d][k] = {}
    <3>1. Derives(d, k, role) /\ ~Constrained(d, k, role)
      BY <2>3, <2>4 DEF Derives, Constrained
    <3>2. new[k] = {owner}
      BY <1>3, <1>6, <2>3, <3>1 DEF Accepted, FromProvider, CommandFilter
    <3> HIDE DEF owner, new
    <3> QED BY <2>2, <3>2, OptionalType
  <2>5. CASE reg[d][k] # {}
    <3>1. Constrained(d, k, role)
      BY <1>6, <2>3, <2>5 DEF Derives, Constrained
    <3> DEFINE old == Only(reg[d][k])
    <3>2. old \in Selections
      BY <1>2, <2>5, OptionalType DEF Registry
    <3>3. new[k] = {ConstrainSelection(old, owner, "User", q.rel[cur])}
      BY <1>3, <1>6, <3>1 DEF Accepted
    <3>4. ConstrainSelection(old, owner, "User", q.rel[cur]) = [old EXCEPT !.nodes = old.nodes \cap owner.nodes]
      BY DEF ConstrainSelection, ConstrainByOwner
    <3> DEFINE kept == [old EXCEPT !.nodes = old.nodes \cap owner.nodes]
    <3> HIDE DEF old, owner, new
    <3>5. kept.nodes = old.nodes \cap owner.nodes
      BY <3>2 DEF Selections
    <3>6. new[k] = {kept}
      BY <3>3, <3>4
    <3> HIDE DEF kept
    <3>7. IdsOf({kept}) = kept.nodes
      BY DEF IdsOf
    <3> QED BY <2>2, <3>5, <3>6, <3>7
  <2> QED BY <2>4, <2>5
<1>7. KinChange(d, role) \in BOOLEAN
  BY DEF KinChange
<1> HIDE DEF new
<1>8. Notified(new, KinChange(d, role), {k \in Keys(d) : Constrained(d, k, role) /\ ~Uses(d, k)})
  BY <1>1 DEF new
<1>9. d = Dependent.st /\ role = Dependent.role /\ cur # 0 /\ pc = "work"
  BY <1>1
<1> QED BY <1>4, <1>5, <1>6, <1>7, <1>8, <1>9, UsesFollowNotified, SMTT(60)

LEMMA UsesFollowNext ==
  ASSUME Typing, Typing', NoBorrow, UsesFollow, [Next]_vars
  PROVE  UsesFollow'
<1>1. CASE Push \/ Materialise \/ Drain
  BY <1>1 DEF Push, Materialise, Drain, UsesFollow
<1>2. CASE Seed
  <2>1. /\ UNCHANGED <<db, plan, reg>>
        /\ work' = InOrder({s \in Statements : GetSelection(s) # {}})
    BY <1>2 DEF Seed
  <2>2. ToSet(work') = {s \in Statements : GetSelection(s) # {}}
    <3>1. {s \in Statements : GetSelection(s) # {}} \subseteq Statements /\ q.n \in Nat
      BY DEF Typing, TypedPlan, WellFormed
    <3> QED BY <2>1, <3>1, InOrderType
  <2>3. \A s \in Statements : GetSelection(s)' # {} => s \in ToSet(work')
    BY <2>1, <2>2, SameRegistry
  <2> QED BY <2>1, <2>3, SameQuery DEF UsesFollow
<1>3. CASE PopNext
  BY <1>3, UsesFollowPop
<1>4. CASE NotifyParent
  <2>1. PICK p \in Statements :
           /\ p = Dependent.st /\ Dependent.role = "Parent" /\ cur # 0 /\ pc = "work"
           /\ \/ Notified(reg[p], FALSE, {})
              \/ Notified(FromKids(p), KidsChange(p), {k \in Keys(p) : reg[p][k] # {}})
    BY <1>4, ParentSteps
  <2>2. p = Dependent.st /\ Dependent.role # "User" /\ cur # 0 /\ pc = "work"
    BY <2>1
  <2>3. CASE Notified(reg[p], FALSE, {})
    BY <2>2, <2>3, UsesFollowNotified
  <2>4. CASE Notified(FromKids(p), KidsChange(p), {k \in Keys(p) : reg[p][k] # {}})
    <3>1. \A k \in Keys(p) :
            /\ FromKids(p)[k] # {}
            /\ reg[p][k] # {} => IdsOf(FromKids(p)[k]) \subseteq IdsOf(reg[p][k])
      BY FromChildrenType DEF FromKids, Typing, TypedRegistry
    <3>2. ~KidsChange(p) => \A k \in Keys(p) : /\ (FromKids(p)[k] = {}) <=> (reg[p][k] = {})
                                               /\ IdsOf(FromKids(p)[k]) = IdsOf(reg[p][k])
      BY <3>1 DEF KidsChange, Narrower
    <3>3. KidsChange(p) \in BOOLEAN
      BY DEF KidsChange
    <3>4. PICK new : new = FromKids(p)
      OBVIOUS
    <3>5. PICK changed \in BOOLEAN : changed = KidsChange(p)
      BY <3>3
    <3> DEFINE constrained == {k \in Keys(p) : reg[p][k] # {}}
    <3>6. Notified(new, changed, constrained)
      BY <2>4, <3>4, <3>5
    <3>7. ~changed => \A k \in Keys(p) : /\ (new[k] = {}) <=> (reg[p][k] = {})
                                         /\ IdsOf(new[k]) = IdsOf(reg[p][k])
      BY <3>2, <3>4, <3>5
    <3>8. \A k \in Keys(p) : Kind(p, k) = "use" /\ reg[p][k] # {} =>
            new[k] # {} /\ IdsOf(new[k]) \subseteq IdsOf(reg[p][k])
      BY <3>1, <3>4
    <3>9. \A k \in Keys(p) : Dependent.role = "User" /\ Provides(cur, p, k) =>
            new[k] # {} /\ IdsOf(new[k]) \subseteq Nodes(cur)
      BY <2>2
    <3>10. p = Dependent.st /\ cur # 0 /\ pc = "work"
      BY <2>2
    <3> HIDE DEF constrained
    <3> QED BY <3>10, <3>5, <3>6, <3>7, <3>8, <3>9, UsesFollowNotified, SMTT(90)
  <2> QED BY <2>1, <2>3, <2>4
<1>5. CASE NotifyOther
  BY <1>5, UsesFollowOther
<1>6. CASE Outcome
  <2>1. UNCHANGED <<db, plan, reg>> /\ work' = work /\ left' = left /\ cur' = cur /\ q' = q
    BY <1>6, OutcomeFrame DEF plan
  <2>2. pc' \in {"work", "done"} => pc \in {"work", "done"}
    BY <1>6 DEF Outcome, PushPanics, UseUnresolved, Finish, FinishWithoutImplicit, Answer, Abort, Dry, vars
  <2> QED BY <2>1, <2>2, SameQuery, SameRegistry DEF UsesFollow, Provides, Due, Within
<1> QED BY <1>1, <1>2, <1>3, <1>4, <1>5, <1>6, Steps

\* A label that is narrowed after it was read is read again, and a use that
\* had nothing to read gets it: build_dependency_graph makes every use of a
\* label a dependent of each statement that carries it.
THEOREM UsesWithinProviders == Spec => []UseWithinProvider
<1>1. Init => NoBorrow /\ UsesFollow
  BY DEF Init, NoBorrow, UsesFollow
<1>2. Typing /\ UsesFollow => UseWithinProvider
  <2> SUFFICES ASSUME Typing, UsesFollow, pc = "done",
                      NEW s \in Statements, NEW l \in Statements, NEW k \in Keys(s),
                      Provides(l, s, k), GetSelection(l) # {}
               PROVE  Within(s, k, l)
    BY DEF UseWithinProvider, Provides, Within
  <2>1. work = <<>> /\ left = {}
    BY DEF Typing, TypedPhases, TypedWork
  <2>2. l \notin ToSet(work)
    BY <2>1 DEF ToSet
  <2> QED BY <2>1, <2>2 DEF UsesFollow, Due
<1>3. Typing /\ Typing' /\ NoBorrow /\ UsesFollow /\ [Next]_vars => NoBorrow' /\ UsesFollow'
  BY NoBorrowNext, UsesFollowNext
<1> QED BY <1>1, <1>2, <1>3, ExecutorTyped, PTL DEF Spec

-----------------------------------------------------------------------------
(* The edges of the answer.                                                *)

\* The edges collect_ref_edges may draw between the instances of the answer;
\* a forced edge has no reference.
Drawable == [ref : DOMAIN db.ref \cup {0}, from : AllNodes, to : AllNodes]

\* The implicit edges are the last to be collected.
LEMMA SourcesType ==
  ASSUME Typing, NEW implicit, implicit \subseteq Drawable
  PROVE  /\ EdgeSources(implicit) \in Seq(SUBSET Drawable)
         /\ Len(EdgeSources(implicit)) \in Nat \ {0}
         /\ EdgeSources(implicit)[Len(EdgeSources(implicit))] = implicit
<1> DEFINE Kept(rows) == rows \cap Drawable
           forced == [s \in Statements |-> Kept({e \in RowsOf(s, "parents") : e.ref = 0})]
           explicit == [i \in 1 .. 2 * q.n |->
             LET s == (i + 1) \div 2
             IN IF i % 2 = 1 THEN LeastTarget(Kept(RowsOf(s, "children")))
                ELSE Kept({e \in RowsOf(s, "parents") : e.ref # 0})]
<1>1. EdgeSources(implicit) = forced \o explicit \o <<implicit>>
  BY DEF EdgeSources, Drawable
<1>2. q.n \in Nat /\ 2 * q.n \in Nat /\ Statements = 1 .. q.n
  BY DEF Typing, TypedPlan, WellFormed, Statements
<1>3. forced \in Seq(SUBSET Drawable)
  <2>1. \A s \in Statements : forced[s] \in SUBSET Drawable
    OBVIOUS
  <2>2. forced \in [1 .. q.n -> SUBSET Drawable]
    BY <1>2, <2>1
  <2> HIDE DEF forced
  <2> QED BY <1>2, <2>2
<1>4. explicit \in Seq(SUBSET Drawable)
  <2>1. \A rows : LeastTarget(rows) \subseteq rows
    BY DEF LeastTarget
  <2>2. \A i \in 1 .. 2 * q.n : explicit[i] \in SUBSET Drawable
    BY <2>1
  <2>3. explicit \in [1 .. 2 * q.n -> SUBSET Drawable]
    BY <2>2
  <2> HIDE DEF explicit
  <2> QED BY <1>2, <2>3
<1>5. <<implicit>> \in Seq(SUBSET Drawable)
  OBVIOUS
<1> HIDE DEF forced, explicit
<1> DEFINE loaded == forced \o explicit
<1>6. loaded \in Seq(SUBSET Drawable)
  BY <1>3, <1>4, ConcatProperties
<1>7. EdgeSources(implicit) = loaded \o <<implicit>>
  BY <1>1
<1> HIDE DEF loaded
<1> QED BY <1>5, <1>6, <1>7

\* An edge leaves a node of the answer for instances of the symbol it names.
IsEdge(d) == d.key.from \in AllNodes /\ \A i \in d.to : SymOf(i) = d.key.sym

\* The first offer of a key is taken, and every key that is offered has one.
LEMMA FirstOffer ==
  ASSUME Typing, NEW implicit, implicit \subseteq Drawable
  PROVE  /\ \A d \in RefEdges(implicit) : d.to # {} /\ d.to \subseteq AllNodes
         /\ \A d \in RefEdges(implicit) : IsEdge(d)
         /\ \A e \in implicit : \E d \in RefEdges(implicit) : d.key = EdgeKey(e)
<1> DEFINE src == EdgeSources(implicit)
           Offers(i, key) == {e \in src[i] : EdgeKey(e) = key}
           keys == UNION {{EdgeKey(e) : e \in src[i]} : i \in DOMAIN src}
           First(key) == CHOOSE i \in DOMAIN src :
                           Offers(i, key) # {} /\ \A j \in 1 .. i - 1 : Offers(j, key) = {}
<1>1. RefEdges(implicit) =
        {[key |-> key, to |-> {e.to : e \in Offers(First(key), key)}] : key \in keys}
  BY DEF RefEdges
<1>2. src \in Seq(SUBSET Drawable) /\ Len(src) \in Nat \ {0} /\ src[Len(src)] = implicit
  BY SourcesType
<1> HIDE DEF src
<1>3. DOMAIN src = 1 .. Len(src) /\ \A i \in DOMAIN src : src[i] \subseteq Drawable
  BY <1>2
<1>4. ASSUME NEW key \in keys
      PROVE  First(key) \in DOMAIN src /\ Offers(First(key), key) # {}
  <2> DEFINE offering == {i \in DOMAIN src : Offers(i, key) # {}}
  <2>1. offering \subseteq Nat /\ offering # {}
    BY <1>3
  <2>2. PICK i \in offering : \A j \in offering : i <= j
    BY <2>1, LeastNat
  <2>3. \A j \in 1 .. i - 1 : Offers(j, key) = {}
    <3>1. \A j \in 1 .. i - 1 : j \in DOMAIN src /\ ~(i <= j)
      BY <1>2, <1>3, <2>2
    <3> QED BY <2>2, <3>1
  <2> QED BY <2>2, <2>3
<1>5. ASSUME NEW key \in keys
      PROVE  LET to == {e.to : e \in Offers(First(key), key)} IN to # {} /\ to \subseteq AllNodes
  <2>1. \A e \in Drawable : e.to \in AllNodes
    BY DEF Drawable
  <2> HIDE DEF First
  <2> QED BY <1>3, <1>4, <1>5, <2>1
<1>6. \A e \in implicit : EdgeKey(e) \in keys
  BY <1>2, <1>3
<1>7. ASSUME NEW key \in keys
       PROVE  key.from \in AllNodes /\ \A e \in Offers(First(key), key) : SymOf(e.to) = key.sym
  <2>0. PICK i \in DOMAIN src : key \in {EdgeKey(e) : e \in src[i]}
    BY <1>7
  <2>1. PICK e \in src[i] : key = EdgeKey(e)
    BY <2>0
  <2>2. e.from \in AllNodes
    BY <1>3, <2>1 DEF Drawable
  <2>3. key.from \in AllNodes
    BY <2>1, <2>2 DEF EdgeKey
  <2> HIDE DEF First
  <2> QED BY <2>3 DEF EdgeKey
<1> DEFINE To(key) == {e.to : e \in Offers(First(key), key)}
<1>8. RefEdges(implicit) = {[key |-> key, to |-> To(key)] : key \in keys}
  BY <1>1
<1>9. \A key \in keys : To(key) # {} /\ To(key) \subseteq AllNodes
  BY <1>5
<1>10. \A key \in keys : key.from \in AllNodes /\ \A i \in To(key) : SymOf(i) = key.sym
  <2> HIDE DEF First
  <2> QED BY <1>7
<1> HIDE DEF To, First, Offers, keys
<1>11. \A d \in RefEdges(implicit) : IsEdge(d)
  BY <1>8, <1>10 DEF IsEdge
<1>12. \A d \in RefEdges(implicit) : d.to # {} /\ d.to \subseteq AllNodes
  <2> TAKE d \in RefEdges(implicit)
  <2>1. PICK key \in keys : d = [key |-> key, to |-> To(key)]
    BY <1>8
  <2> QED BY <1>9, <2>1
<1>13. ASSUME NEW e \in implicit
       PROVE  \E d \in RefEdges(implicit) : d.key = EdgeKey(e)
  <2> DEFINE d == [key |-> EdgeKey(e), to |-> To(EdgeKey(e))]
  <2>1. d.key = EdgeKey(e)
    OBVIOUS
  <2>2. d \in RefEdges(implicit)
    BY <1>6, <1>8
  <2> QED BY <2>1, <2>2
<1> QED BY <1>12, <1>13, <1>11

\* The edges of an answer are those collect_ref_edges draws at the end.
EdgesDrawn(nodes, refs, lost) ==
  /\ ~lost => \A e \in EdgeRows(nodes, Visible(eph)) : \E d \in refs : d.key = EdgeKey(e)
  /\ \A d \in refs : d.to # {} /\ d.to \subseteq nodes

\* Edges of one reference and one source have the same key, so the target
\* that find_edges_between picked stands for the others.
LEMMA FinishDraws ==
  ASSUME Typing
  PROVE  EdgesDrawn(AllNodes, RefEdges(FindEdgesBetween(AllNodes, eph)), FALSE)
<1>1. FindEdgesBetween(AllNodes, eph) \subseteq EdgeRows(AllNodes, Visible(eph))
  BY LayersAreEphemeral, AnswerIsFinite, LeastEdges
<1>2. EdgeRows(AllNodes, Visible(eph)) \subseteq Drawable
  BY DEF EdgeRows, Drawable
<1>3. ASSUME NEW e \in EdgeRows(AllNodes, Visible(eph))
      PROVE  \E d \in RefEdges(FindEdgesBetween(AllNodes, eph)) : d.key = EdgeKey(e)
  <2>1. PICK f \in FindEdgesBetween(AllNodes, eph) : f.from = e.from /\ f.ref = e.ref
    BY LayersAreEphemeral, AnswerIsFinite, LeastEdges
  <2>2. SymOf(e.to) = db.ref[e.ref].to /\ SymOf(f.to) = db.ref[f.ref].to
    BY <1>1 DEF EdgeRows
  <2>3. EdgeKey(f) = EdgeKey(e)
    BY <2>1, <2>2 DEF EdgeKey, Occurrence
  <2> QED BY <1>1, <1>2, <2>1, <2>3, FirstOffer
<1> QED BY <1>1, <1>2, <1>3, FirstOffer DEF EdgesDrawn

LEMMA AnswerDraws ==
  ASSUME Typing, Finish \/ FinishWithoutImplicit
  PROVE  EdgesDrawn(result'.nodes, result'.refs, result'.lost)
<1>1. CASE Finish
  <2>1. /\ result'.nodes = AllNodes /\ result'.lost = FALSE
        /\ result'.refs = RefEdges(FindEdgesBetween(AllNodes, eph))
    BY <1>1 DEF Finish, Answer
  <2> QED BY <2>1, FinishDraws
<1>2. CASE FinishWithoutImplicit
  <2>1. result'.nodes = AllNodes /\ result'.lost = TRUE /\ result'.refs = RefEdges({})
    BY <1>2 DEF FinishWithoutImplicit, Answer
  <2> QED BY <2>1, FirstOffer DEF EdgesDrawn
<1> QED BY <1>1, <1>2

\* Whatever the statements loaded and whichever edge of a key came first,
\* collect_ref_edges draws every reference between two nodes of the answer,
\* unless the query for the implicit edges failed, and nothing that leads out
\* of it.
THEOREM EveryReferenceDrawn == Spec => []EdgesComplete
<1>1. Init => EdgesComplete
  BY DEF Init, EdgesComplete
<1>2. ASSUME Typing, EdgesComplete, [Next]_vars
      PROVE  EdgesComplete'
  <2> SUFFICES ASSUME pc' = "done" PROVE EdgesComplete'
    BY DEF EdgesComplete
  <2>1. CASE UNCHANGED vars
    BY <1>2, <2>1, SameVars DEF EdgesComplete, EdgeRows, EdgeKey, Occurrence, SymOf
  <2>2. CASE Finish \/ FinishWithoutImplicit
    <3>1. UNCHANGED <<db, eph>>
      BY <2>2 DEF Finish, FinishWithoutImplicit, Answer
    <3>2. \A S, v : EdgeRows(S, v)' = EdgeRows(S, v)
      BY <3>1 DEF EdgeRows, SymOf
    <3>3. \A e : EdgeKey(e)' = EdgeKey(e)
      BY <3>1 DEF EdgeKey, Occurrence, SymOf
    <3>4. EdgesDrawn(result'.nodes, result'.refs, result'.lost)
      BY <1>2, <2>2, AnswerDraws
    <3> QED BY <3>1, <3>4 DEF EdgesComplete, EdgesDrawn, EdgeRows, EdgeKey, Occurrence, SymOf, Visible, Covers
  <2> QED BY <1>2, <2>1, <2>2, DoneSteps
<1> QED BY <1>1, <1>2, ExecutorTyped, PTL DEF Spec
=============================================================================
