------------------------------ MODULE Executor ------------------------------
(***************************************************************************)
(* The query executor (askld/src/statement, command.rs, verb): a parsed    *)
(* query is a forest of statements.  Phase one, compute_roots, computes    *)
(* the selection of every statement on its own, in batches of concurrent   *)
(* futures; a statement captures the ephemeral layers, the scopes and the  *)
(* resolved labels at the moment its future is queued, not when it runs.   *)
(* Phase two, run_worklist, propagates constraints along the dependency    *)
(* graph until nothing changes.  Phase three collects nodes and edges.     *)
(*                                                                         *)
(* A query is a record: statements are 1 .. n in source (pre-)order,       *)
(* parent[s] is 0 at the top level, sel[s] is the sequence of selectors,   *)
(* accept[s] what the filters of the command let through, rel[s] and       *)
(* unnest[s] the relationship of s to its parent, rows[s] the rows that    *)
(* the layer of s inserts, for every symbol a label could resolve to.      *)
(***************************************************************************)
EXTENDS CodeGraph, Sequences, SequencesExt, Functions

CONSTANTS Cases         \* the queries and databases: [q, db]

Kinds == {"name", "layer", "scope", "unit", "use", "useForced", "forced", "namespace", "bare"}

IsMap(f) == f = [x \in DOMAIN f |-> f[x]]

\* Tables of instances are finite, and ids, objects and offsets are integers.
Table(f) ==
  /\ IsFiniteSet(DOMAIN f) /\ DOMAIN f \subseteq Int
  /\ \A i \in DOMAIN f : f[i].sym \in Int /\ f[i].obj \in Int /\ f[i].lo \in Int

\* Statements come in pre-order, each with a sequence of selectors; those of
\* one scope are related to the enclosing statement in the same way.
WellFormed(query) ==
  /\ query.n \in Nat
  /\ \A s \in 1 .. query.n :
       /\ query.parent[s] \in 0 .. s - 1
       /\ Len(query.sel[s]) \in Nat
       /\ DOMAIN query.sel[s] = 1 .. Len(query.sel[s])
       /\ \A k \in DOMAIN query.sel[s] : query.sel[s][k].kind \in Kinds
       /\ query.unnest[s] \in BOOLEAN
       /\ Table(query.rows[s].inst)
  /\ \A s, t \in 1 .. query.n :
       query.parent[s] = query.parent[t] /\ query.parent[s] # 0 => query.rel[s] = query.rel[t]

\* Every instance is one of a symbol, and what a layer inserts are new rows of
\* its own: the foreign keys of the schema and its generated ids.
Inserts(query, index) ==
  /\ \A i \in DOMAIN index.inst : index.inst[i].sym \in DOMAIN index.sym
  /\ \A s \in 1 .. query.n : \A table \in {"sym", "inst"} : \A r \in DOMAIN query.rows[s][table] :
       /\ \E k \in DOMAIN query.sel[s] : query.sel[s][k].kind = "layer"
       /\ query.rows[s][table][r].layer = - s /\ r \notin DOMAIN index[table]
       /\ \A t \in 1 .. query.n : r \in DOMAIN query.rows[t][table] => t = s
  /\ \A s \in 1 .. query.n : \A r \in DOMAIN query.rows[s].inst :
       \/ query.rows[s].inst[r].sym \in DOMAIN index.sym
       \/ \E l \in 1 .. s : query.rows[s].inst[r].sym \in DOMAIN query.rows[l].sym

ASSUME CasesAssumption ==
  \A case \in Cases :
    /\ WellFormed(case.q)
    /\ {"sym", "inst", "ref"} \subseteq DOMAIN case.db
    /\ Table(case.db.inst)
    /\ IsMap(case.db) /\ IsMap(case.db.sym) /\ IsMap(case.db.inst) /\ IsMap(case.db.ref)
    /\ Inserts(case.q, case.db)

VARIABLES
  q,         \* the parsed query
  weak,      \* ExecutionState.weak: statements that do not constrain
  deps,      \* ExecutionState.dependents of each statement
  pc,        \* "roots", "drain", "work", "done", "failed", "panicked"
  nxt,       \* next statement that compute_roots queues
  pending,   \* queued compute futures, with what they captured
  eph,       \* ctx.eph: the layers materialised so far
  computed,  \* statements whose selectors are in the registry
  reg,       \* ctx.registry: selection of each selector, {} when None
  once,      \* OnceLock of each forced selector, {} when unset
  work,      \* the worklist
  cur,       \* statement that is notifying its dependents, 0 for none
  left,      \* dependents of cur that are still to be notified
  err,       \* why the query failed
  warned,    \* the diagnostics of the statements: [st, k, kind]
  result     \* nodes and edges

plan == <<q, weak, deps>>
vars == <<db, plan, pc, nxt, pending, eph, computed, reg, once, work, cur, left, err, warned, result>>

Statements == 1 .. q.n
Keys(s) == DOMAIN q.sel[s]
Kind(s, k) == q.sel[s][k].kind
Children(s) == {c \in Statements : q.parent[c] = s}
Layer(s) == - s

NoResult == [nodes |-> {}, refs |-> {}, has |-> {}, lost |-> FALSE, warnings |-> {}]

-----------------------------------------------------------------------------
(* The dependency graph.                                                   *)

HasLayerSpec(s) == \E k \in Keys(s) : Kind(s, k) = "layer"
Uses(s, k) == Kind(s, k) \in {"use", "useForced"}

\* Mutant of SiblingDeps: only a layer creator waits for the ones before it.
CreatorDeps(s) ==
  IF q.parent[s] # 0 \/ ~HasLayerSpec(s) THEN {}
  ELSE {l \in 1 .. s - 1 : q.parent[l] = 0 /\ HasLayerSpec(l)}

\* PreSeedSibling: a top-level statement waits for the nearest layer creator
\* before it.
SiblingDeps(s) ==
  IF q.parent[s] # 0 THEN {}
  ELSE {l \in 1 .. s - 1 : q.parent[l] = 0 /\ HasLayerSpec(l)}

\* PreSeedLabel: the statements labelled with what the layer of s refers to.
LabelDeps(s) ==
  {l \in Statements : \E k \in Keys(s) :
     Kind(s, k) = "layer" /\ q.sel[s][k].label \in q.labels[l]}

PreDrains(s) == SiblingDeps(s) \cup LabelDeps(s) # {}

\* Dependents of s.  build_dependency_graph visits the statements in source
\* order and pushes at s its parent and children, at a user one entry per
\* selector: at is an entry's place.  PreSeed dependents carry no data.
DependentsOf(s) ==
  {[st |-> p, role |-> "Parent", at |-> <<s, 0>>] : p \in {q.parent[s]} \ {0}}
  \cup {[st |-> c, role |-> "Child", at |-> <<s, c>>] : c \in Children(s)}
  \cup UNION {{[st |-> v, role |-> "User", at |-> <<v, k>>] :
                 k \in {j \in Keys(v) : Uses(v, j) /\ q.sel[v][j].label \in q.labels[s]}} :
               v \in Statements \ {s}}

\* mark_weak_statements: the least set closed under its rule.
NonConstraining(s) == \A k \in Keys(s) : Kind(s, k) \in {"unit", "bare"}
WeakClosed(W) ==
  \A s \in Statements \ W :
    ~ /\ NonConstraining(s)
      /\ q.parent[s] \in W \cup {0} \/ Children(s) \subseteq W
Weakest ==
  CHOOSE W \in SUBSET Statements :
    WeakClosed(W) /\ \A V \in SUBSET Statements : WeakClosed(V) => W \subseteq V

Descendants(s) ==
  LET up[v \in 0 .. q.n] == IF v = 0 THEN {} ELSE {q.parent[v]} \cup up[q.parent[v]]
  IN {v \in Statements : s \in up[v]}

\* should_skip_in_parent_merge.
IsUnit(s) == \A k \in Keys(s) : Kind(s, k) = "unit"
Echoes(c) == c \in weak /\ IsUnit(c) /\ Descendants(c) \subseteq weak

\* build_dependency_graph has borrowed the state of a statement when it asks
\* for that of the labelled ones.
BorrowsTwice(s) ==
  s \in LabelDeps(s) \/ \E k \in Keys(s) : Uses(s, k) /\ q.sel[s][k].label \in q.labels[s]

\* compute_nodes builds the graph and marks the weak statements, then starts.
Init ==
  /\ \E case \in Cases : q = case.q /\ db = case.db
  /\ weak = Weakest
  /\ deps = [s \in Statements |-> DependentsOf(s)]
  /\ pc = IF \E s \in Statements : BorrowsTwice(s) THEN "panicked" ELSE "roots"
  /\ nxt = 1
  /\ pending = {}
  /\ eph = {}
  /\ computed = {}
  /\ reg = [s \in Statements |-> [k \in Keys(s) |-> {}]]
  /\ once = [s \in Statements |-> [k \in Keys(s) |-> {}]]
  /\ work = <<>>
  /\ cur = 0
  /\ left = {}
  /\ err = "none"
  /\ warned = {}
  /\ result = NoResult

-----------------------------------------------------------------------------
(* Statement and scope helpers.                                            *)

\* get_selection: a selector without a selection resets what was gathered.
Gathered(s, R) == {k \in Keys(s) : \A j \in Keys(s) : j >= k => R[s][j] # {}}
Selection(s, R) ==
  IF Gathered(s, R) = {} THEN {} ELSE {Extend(UNION {R[s][k] : k \in Gathered(s, R)})}
GetSelection(s) == Selection(s, reg)

IdsOf(sels) == UNION {x.nodes : x \in sels}

\* propagation_priority: the nodes of all selectors, a node of two of them
\* counted twice; no statement selects more than Unranked.
Unranked == 1000
Priority(s) ==
  IF GetSelection(s) = {} THEN Unranked
  ELSE Cardinality(UNION {{k} \X IdsOf(reg[s][k]) : k \in Gathered(s, reg)})

\* is_selection_some.
SelectionSome(s) == \E k \in Keys(s) : reg[s][k] # {}

\* build_composite_filter of the selectors that have one.
NameFilter(s, k) == [names |-> q.sel[s][k].names \cap q.accept[s].names,
                     types |-> q.accept[s].types]
SelectorFilters(s) ==
  {NameFilter(s, k) : k \in {j \in Keys(s) : Kind(s, j) \in {"name", "forced", "namespace", "bare"}}}

ParentScope(s) ==
  LET p == q.parent[s]
  IN IF p = 0 THEN Unscoped
     ELSE IF p \in computed
          THEN IF GetSelection(p) = {} THEN Unscoped ELSE Scope(IdsOf(GetSelection(p)), {})
     ELSE IF SelectorFilters(p) = {} THEN Unscoped ELSE Scope({}, SelectorFilters(p))

ChildrenScope(s) ==
  LET done == Children(s) \cap computed
      todo == Children(s) \ computed
      ids == UNION {IdsOf(GetSelection(c)) : c \in done}
      filters == UNION {SelectorFilters(c) : c \in todo}
      silent == todo # {} \/ \E c \in done : GetSelection(c) = {}
  IN IF Children(s) = {} THEN Skip
     ELSE IF ids = {} /\ filters = {} THEN (IF silent THEN Unscoped ELSE Skip)
     ELSE Scope(ids, filters)

\* Command::filter runs filter_impl of every filter verb, and no verb has
\* one: a filter acts through the queries it is composed into, only.
CommandFilter(s, sel) == sel

-----------------------------------------------------------------------------
(* compute_roots.                                                          *)

\* The symbols an `@label` argument resolves to when s is queued: those of
\* the last labelled statement that has a selection.
Resolved(s) ==
  LET ready == {l \in LabelDeps(s) : GetSelection(l) # {}}
  IN IF ready = {} THEN {}
     ELSE {SymOf(i) : i \in IdsOf(GetSelection(CHOOSE l \in ready : \A m \in ready : m <= l))}

Queued(s) == [st |-> s, eph |-> eph, parents |-> ParentScope(s),
              children |-> ChildrenScope(s), symbols |-> Resolved(s)]

MustDrain == pending # {} /\ (nxt > q.n \/ (nxt \in Statements /\ PreDrains(nxt)))

\* Queue the next statement; its captures are taken now.
Push ==
  /\ pc = "roots" /\ nxt <= q.n /\ ~MustDrain
  /\ LabelDeps(nxt) \subseteq computed
  /\ pending' = pending \cup {Queued(nxt)}
  /\ nxt' = nxt + 1
  /\ UNCHANGED <<db, plan, pc, eph, computed, reg, once, work, cur, left, err, warned, result>>

\* get_selection of a labelled statement that is still to come asks the
\* registry for selectors it does not hold.
PushPanics ==
  /\ pc = "roots" /\ nxt <= q.n /\ ~MustDrain
  /\ ~ (LabelDeps(nxt) \subseteq computed)
  /\ pc' = "panicked"
  /\ UNCHANGED <<db, plan, nxt, pending, eph, computed, reg, once, work, cur, left, err, warned, result>>

\* Phase 1 of compute_selected, for the whole batch: the layers of the
\* statements that create one are filled.  A row that names a label is
\* emitted for the symbols the label resolved to.
Emitted(p, rows, symbol) ==
  LET layer == CHOOSE k \in Keys(p.st) : Kind(p.st, k) = "layer"
      labelled == q.sel[p.st][layer].label # ""
  IN Restrict(rows, {r \in DOMAIN rows : labelled => rows[r][symbol] \in p.symbols})

Merge(f, maps) == [x \in UNION {DOMAIN m : m \in maps \cup {f}} |->
                     (CHOOSE m \in maps \cup {f} : x \in DOMAIN m)[x]]

Materialise ==
  /\ pc = "roots" /\ MustDrain
  /\ LET fillers == {p \in pending : HasLayerSpec(p.st)}
     IN db' = [db EXCEPT
          !.sym = Merge(@, {q.rows[p.st].sym : p \in fillers}),
          !.inst = Merge(@, {Emitted(p, q.rows[p.st].inst, "sym") : p \in fillers}),
          !.ref = Merge(@, {Emitted(p, q.rows[p.st].ref, "to") : p \in fillers})]
  /\ pc' = "drain"
  /\ UNCHANGED <<plan, nxt, pending, eph, computed, reg, once, work, cur, left, err, warned, result>>

\* Phase 2 of compute_selected: select_from_all_impl of each selector, under
\* the captured layers and the statement's own.
LocalEph(p) == p.eph \cup (IF HasLayerSpec(p.st) THEN {Layer(p.st)} ELSE {})
Query(p, filter) ==
  FindSymbol({i \in DOMAIN db.inst : Accepts(filter, i)}, p.parents, p.children, LocalEph(p))
OwnLayer(p) ==
  FindSymbol({i \in DOMAIN db.inst : db.inst[i].layer = Layer(p.st)},
             p.parents, p.children, LocalEph(p))

Computed(p, k) ==
  CASE Kind(p.st, k) = "name" -> {CommandFilter(p.st, Query(p, NameFilter(p.st, k)))}
    [] Kind(p.st, k) = "layer" -> IF \E i \in DOMAIN db.inst : db.inst[i].layer = Layer(p.st)
                                  THEN {CommandFilter(p.st, OwnLayer(p))} ELSE {}
    [] Kind(p.st, k) = "scope" -> {NoRows}
    [] Kind(p.st, k) \in {"unit", "use", "useForced", "forced", "namespace", "bare"} -> {}

\* A selector that computed an empty selection is reported.
NoMatches(batch) ==
  UNION {{[st |-> p.st, k |-> k, kind |-> "NoMatch"] :
            k \in {j \in Keys(p.st) : \E x \in Computed(p, j) : x.nodes = {}}} : p \in batch}

\* drain_pending: every future of the batch has finished; the results are
\* applied once all of them are known to be good.
Drain ==
  /\ pc = "drain"
  /\ LET Of(s) == CHOOSE p \in pending : p.st = s
         sts == {p.st : p \in pending}
     IN /\ reg' = [s \in Statements |-> IF s \in sts THEN [k \in Keys(s) |-> Computed(Of(s), k)]
                                        ELSE reg[s]]
        /\ once' = [s \in Statements |-> [k \in Keys(s) |->
                      IF s \in sts /\ Kind(s, k) = "forced"
                      THEN {Query(Of(s), NameFilter(s, k))} ELSE once[s][k]]]
        /\ computed' = computed \cup sts
        /\ warned' = warned \cup NoMatches(pending)
        /\ eph' = eph \cup {Layer(s) : s \in {t \in sts : HasLayerSpec(t)}}
  /\ pending' = {}
  /\ pc' = "roots"
  /\ UNCHANGED <<db, plan, nxt, work, cur, left, err, result>>

InOrder(S) ==
  CHOOSE w \in [1 .. Cardinality(S) -> S] : \A i, j \in DOMAIN w : i < j => w[i] < w[j]

\* run_worklist starts from the statements that have a selection.
Seed ==
  /\ pc = "roots" /\ nxt > q.n /\ pending = {}
  /\ work' = InOrder({s \in Statements : GetSelection(s) # {}})
  /\ pc' = "work"
  /\ UNCHANGED <<db, plan, nxt, pending, eph, computed, reg, once, cur, left, err, warned, result>>

-----------------------------------------------------------------------------
(* SelectorState: constraining an existing selection.                      *)

\* parent is related to the nodes it keeps: by symbol through a reference it
\* loaded, by instance through a containment it loaded.
ConstrainByParent(sel, parent, rel) ==
  [sel EXCEPT !.nodes = {i \in @ :
     \/ /\ "refs" \in rel
        /\ \E e \in parent.children :
             SymOf(e.to) = SymOf(i) /\ SymOf(e.from) \in {SymOf(m) : m \in parent.nodes}
     \/ /\ "has" \in rel
        /\ \E h \in parent.hc : h.child = i /\ h.parent \in parent.nodes}]

ConstrainByChild(sel, child, rel) ==
  [sel EXCEPT !.nodes = {i \in @ :
     \/ /\ "refs" \in rel
        /\ \E e \in child.parents :
             SymOf(e.from) = SymOf(i) /\ SymOf(e.to) \in {SymOf(m) : m \in child.nodes}
     \/ /\ "has" \in rel
        /\ \E h \in child.hp : h.parent = i /\ h.child \in child.nodes}]

ConstrainByOwner(sel, owner) == [sel EXCEPT !.nodes = @ \cap owner.nodes]

ConstrainSelection(sel, dep, role, rel) ==
  CASE role = "Parent" -> ConstrainByChild(sel, dep, rel)
    [] role = "Child" -> ConstrainByParent(sel, dep, rel)
    [] role = "User" -> ConstrainByOwner(sel, dep)

-----------------------------------------------------------------------------
(* run_worklist.                                                           *)

Only(sels) == CHOOSE x \in sels : TRUE

\* Worklist::pop_next takes the first statement of least priority and moves
\* the last one into its place.
PopIndex ==
  CHOOSE i \in DOMAIN work :
    \A j \in DOMAIN work :
      /\ Priority(work[i]) <= Priority(work[j])
      /\ j < i => Priority(work[i]) < Priority(work[j])
SwapRemove(i) ==
  [j \in 1 .. Len(work) - 1 |-> IF j = i THEN work[Len(work)] ELSE work[j]]

\* update_state: a forced use falls back to the selection it has kept.
Refreshed(s) ==
  [k \in Keys(s) |-> IF Kind(s, k) = "useForced" /\ reg[s][k] = {} THEN once[s][k] ELSE reg[s][k]]

\* The registry after the statement at index i has refreshed and filtered
\* its selectors.
AtPop(s) == [reg EXCEPT ![s] =
  [k \in Keys(s) |-> {CommandFilter(s, x) : x \in Refreshed(s)[k]}]]

PopNext ==
  /\ pc = "work" /\ cur = 0 /\ work # <<>>
  /\ LET s == work[PopIndex]
     IN /\ reg' = AtPop(s)
        /\ cur' = IF Selection(s, AtPop(s)) # {} /\ deps[s] # {} THEN s ELSE 0
        /\ left' = IF cur' = s THEN deps[s] ELSE {}
  /\ work' = SwapRemove(PopIndex)
  /\ UNCHANGED <<db, plan, pc, nxt, pending, eph, computed, once, err, warned, result>>

Earlier(a, b) == a[1] < b[1] \/ (a[1] = b[1] /\ a[2] <= b[2])
Dependent == CHOOSE d \in left : \A e \in left : Earlier(d.at, e.at)

\* Mutant of Schedule: a statement is queued again while it waits.
ScheduleAgain(s) == Append(work, s)

Schedule(s) == IF s \in ToSet(work) THEN work ELSE Append(work, s)

\* Mutants of Narrower: a narrowed selection is not passed on, an unchanged
\* one is.
NeverNarrower(s, k, new) == FALSE
AlwaysNarrower(s, k, new) == TRUE

Narrower(s, k, new) == IdsOf(new) # IdsOf(reg[s][k])

\* Mutant of Notes: a selection that only got smaller is reported too.
NotesOnChange(s, constrained, new) ==
  {[st |-> s, k |-> k, kind |-> "Note"] : k \in {j \in constrained : Narrower(s, j, new[j])}}

\* constrain_with_warning: a constraint that leaves nothing is reported.
Notes(s, constrained, new) ==
  {[st |-> s, k |-> k, kind |-> "Note"] :
     k \in {j \in constrained : Narrower(s, j, new[j]) /\ IdsOf(new[j]) = {}}}

\* The end of one notification: the dependent has new selections and is put
\* on the worklist if they changed; then comes the next dependent.
Notified(new, changed, constrained) ==
  /\ reg' = [reg EXCEPT ![Dependent.st] = new]
  /\ warned' = warned \cup Notes(Dependent.st, constrained, new)
  /\ work' = IF changed THEN Schedule(Dependent.st) ELSE work
  /\ left' = left \ {Dependent}
  /\ cur' = IF left' = {} THEN 0 ELSE cur
  /\ UNCHANGED <<db, plan, pc, nxt, pending, eph, computed, err, result>>

ById(ids, s, parents, children) ==
  CommandFilter(s, FindSymbol({i \in ids : Accepts(q.accept[s], i)}, parents, children, eph))

\* A child notifies its parent: only once every child has a selection, and
\* then with the union of them.  Selectors without a selection derive one
\* (notify_from_selection).
Speaking(p) == {c \in Children(p) : ~Echoes(c) /\ GetSelection(c) # {}}
\* Mutant of Merged: the parent is constrained by the child that notifies it.
MergedAlone(p) == Only(GetSelection(cur))

Merged(p) == Extend(UNION {GetSelection(c) : c \in Speaking(p)})

Deferred(p) == (\E c \in Children(p) : ~SelectionSome(c)) \/ Speaking(p) = {}

FromChildren(p, k) ==
  LET kids == Merged(p)
      ids == FindParentInstanceIds(kids.nodes, q.rel[cur], q.unnest[p], eph)
  IN IF reg[p][k] # {} THEN {ConstrainSelection(Only(reg[p][k]), kids, "Parent", q.rel[cur])}
     ELSE {ById(ids, p, ParentScope(p), Scope(kids.nodes, {}))}

NotifyParent ==
  /\ pc = "work" /\ cur # 0 /\ Dependent.role = "Parent"
  /\ LET p == Dependent.st
         new == [k \in Keys(p) |-> FromChildren(p, k)]
     IN IF Deferred(p) THEN Notified(reg[p], FALSE, {})
        ELSE Notified(new, \E k \in Keys(p) : reg[p][k] = {} \/ Narrower(p, k, new[k]),
                      {k \in Keys(p) : reg[p][k] # {}})
  /\ UNCHANGED once

\* accept_notification: what a selector does with a notification.
Addressed(d, k, role) ==
  role = "User" => Uses(d, k) /\ q.sel[d][k].label \in q.labels[cur]
\* Mutant of Derives: whatever the parent notifies is derived afresh.
DerivesAgain(d, k, role) == Addressed(d, k, role) /\ (reg[d][k] = {} \/ role = "Child")

Derives(d, k, role) ==
  /\ Addressed(d, k, role)
  /\ reg[d][k] = {} \/ (Kind(d, k) = "useForced" /\ role = "Child")
\* Mutant of Constrained: a use that has its label's selection keeps it.
ConstrainedByKin(d, k, role) ==
  Addressed(d, k, role) /\ ~Derives(d, k, role) /\ role # "User" /\ (Uses(d, k) \/ cur \notin weak)

Constrained(d, k, role) ==
  /\ Addressed(d, k, role) /\ ~Derives(d, k, role)
  /\ Uses(d, k) \/ cur \notin weak
Circular(d, role) == role = "Child" /\ \E k \in Keys(d) : Kind(d, k) = "use" /\ reg[d][k] = {}

\* derive_from_parent: a forced selector claims to be referenced by every
\* node of the parent, the others ask the index.
ForcedRows(parents, nodes) == {[ref |-> 0, from |-> p, to |-> c] : p \in parents, c \in nodes}
FromParent(d, k) ==
  LET ids == IdsOf(GetSelection(cur))
  IN IF Kind(d, k) \in {"forced", "useForced"}
     THEN IF once[d][k] = {} THEN NoRows
          ELSE CommandFilter(d, [Only(once[d][k]) EXCEPT
                 !.parents = ForcedRows(ids, Only(once[d][k]).nodes)])
     ELSE ById(FindChildInstanceIds(ids, q.rel[d], q.unnest[d], eph),
               d, ParentScope(d), ChildrenScope(d))

\* derive_from_provider: a forced use stores the selection for its parent's
\* notification, the first one it gets.
FromProvider(d, k) ==
  IF Kind(d, k) = "useForced" THEN {} ELSE {CommandFilter(d, Only(GetSelection(cur)))}

Accepted(d, k, role) ==
  IF Constrained(d, k, role)
  THEN {ConstrainSelection(Only(reg[d][k]), Only(GetSelection(cur)), role,
          IF role = "Child" THEN q.rel[d] ELSE q.rel[cur])}
  ELSE IF ~Derives(d, k, role) THEN reg[d][k]
  ELSE IF role = "Child" THEN {FromParent(d, k)} ELSE FromProvider(d, k)

NotifyOther ==
  /\ pc = "work" /\ cur # 0 /\ Dependent.role # "Parent"
  /\ LET d == Dependent.st
         role == Dependent.role
         new == [k \in Keys(d) |-> Accepted(d, k, role)]
     IN /\ ~Circular(d, role)
        /\ Notified(new, \E k \in Keys(d) : Derives(d, k, role) \/ Narrower(d, k, new[k]),
                     {k \in Keys(d) : Constrained(d, k, role) /\ ~Uses(d, k)})
        /\ once' = [once EXCEPT ![d] = [k \in Keys(d) |->
             IF role = "User" /\ Derives(d, k, role) /\ Kind(d, k) = "useForced" /\ @[k] = {}
             THEN GetSelection(cur) ELSE @[k]]]

\* A use that its parent notifies before any provider did gives up.
UseUnresolved ==
  /\ pc = "work" /\ cur # 0 /\ Circular(Dependent.st, Dependent.role)
  /\ pc' = "failed"
  /\ err' = "circular"
  /\ UNCHANGED <<db, plan, nxt, pending, eph, computed, reg, once, work, cur, left, warned, result>>

-----------------------------------------------------------------------------
(* execute: nodes and edges of the answer.                                 *)

AllNodes == UNION {IdsOf(GetSelection(s)) : s \in Statements}

\* Edges are collected in order, the first one of a key wins.  An edge of
\* the result lists the instances the winner may point to: rows of parents
\* come in the order of the database.
Occurrence(e) ==
  LET at == IF e.ref = 0 THEN db.inst[e.from] ELSE db.ref[e.ref]
  IN <<at.obj, at.lo, at.hi>>
EdgeKey(e) == [from |-> e.from, sym |-> SymOf(e.to), at |-> Occurrence(e)]

RowsOf(s, f) == UNION {x[f] : x \in GetSelection(s)}
LeastTarget(rows) == {e \in rows : \A o \in rows : EdgeKey(o) = EdgeKey(e) => e.to <= o.to}
\* Mutant of EdgeSources: the edges the statements loaded are all there are.
EdgeSourcesLoaded(implicit) ==
  [s \in Statements |-> {e \in RowsOf(s, "parents") \cup RowsOf(s, "children") :
                           e.from \in AllNodes /\ e.to \in AllNodes}]

EdgeSources(implicit) ==
  LET Kept(rows) == rows \cap [ref : DOMAIN db.ref \cup {0}, from : AllNodes, to : AllNodes]
      forced == [s \in Statements |-> Kept({e \in RowsOf(s, "parents") : e.ref = 0})]
      explicit == [i \in 1 .. 2 * q.n |->
        LET s == (i + 1) \div 2
        IN IF i % 2 = 1 THEN LeastTarget(Kept(RowsOf(s, "children")))
           ELSE Kept({e \in RowsOf(s, "parents") : e.ref # 0})]
  IN forced \o explicit \o <<implicit>>

RefEdges(implicit) ==
  LET src == EdgeSources(implicit)
      Offers(i, key) == {e \in src[i] : EdgeKey(e) = key}
      keys == UNION {{EdgeKey(e) : e \in src[i]} : i \in DOMAIN src}
      First(key) == CHOOSE i \in DOMAIN src :
                      Offers(i, key) # {} /\ \A j \in 1 .. i - 1 : Offers(j, key) = {}
  IN {[key |-> key, to |-> {e.to : e \in Offers(First(key), key)}] : key \in keys}

\* collect_has_edges keeps the tightest parent; among equals the first seen.
Span(i) == db.inst[i].hi - db.inst[i].lo
\* Mutant of HasEdges: the widest container wins.
HasEdgesWidest ==
  LET rows == {h \in UNION {RowsOf(s, "hc") \cup RowsOf(s, "hp") : s \in Statements} :
                 h.parent \in AllNodes /\ h.child \in AllNodes}
      Above(c) == {h.parent : h \in {r \in rows : r.child = c}}
  IN {[child |-> c, parents |-> {p \in Above(c) : \A o \in Above(c) : Span(p) >= Span(o)}] :
        c \in {h.child : h \in rows}}

HasEdges ==
  LET rows == {h \in UNION {RowsOf(s, "hc") \cup RowsOf(s, "hp") : s \in Statements} :
                 h.parent \in AllNodes /\ h.child \in AllNodes}
      Above(c) == {h.parent : h \in {r \in rows : r.child = c}}
  IN {[child |-> c, parents |-> {p \in Above(c) : \A o \in Above(c) : Span(p) <= Span(o)}] :
        c \in {h.child : h \in rows}}

\* gather_warnings keeps one diagnostic of a place in the source, NoMatch
\* before Note; the selectors of a query are in different places.
Warnings ==
  {w \in warned : w.kind = "Note" =>
     [w EXCEPT !.kind = "NoMatch"] \notin warned}

Dry == pc = "work" /\ cur = 0 /\ work = <<>>

Answer(implicit, lost) ==
  /\ Dry
  /\ result' = [nodes |-> AllNodes, refs |-> RefEdges(implicit), has |-> HasEdges,
                lost |-> lost, warnings |-> Warnings]
  /\ pc' = "done"
  /\ UNCHANGED <<db, plan, nxt, pending, eph, computed, reg, once, work, cur, left, err, warned>>

Finish == Answer(FindEdgesBetween(AllNodes, eph), FALSE)

\* collect_ref_edges goes on without implicit edges when their query fails.
FinishWithoutImplicit == Answer({}, TRUE)

\* The database fails a query of the batch or of a notification, or the
\* request's deadline passes at an await: the whole query fails.
Abort ==
  /\ pc = "drain" \/ (pc = "work" /\ cur # 0)
  /\ pc' = "failed"
  /\ err' = "aborted"
  /\ UNCHANGED <<db, plan, nxt, pending, eph, computed, reg, once, work, cur, left, warned, result>>

Ended == pc \in {"done", "failed", "panicked"} /\ UNCHANGED vars

Step == \/ Push \/ PushPanics \/ Materialise \/ Drain \/ Seed
        \/ PopNext \/ NotifyParent \/ NotifyOther \/ UseUnresolved
Next == Step \/ Finish \/ FinishWithoutImplicit \/ Abort \/ Ended

Spec == Init /\ [][Next]_vars

-----------------------------------------------------------------------------
(* Properties.                                                             *)

Final == {"done", "failed", "panicked"}

\* Every variable stays in its type, and the worklist holds a statement at
\* most once (Worklist::schedule).
TypeOK ==
  /\ pc \in {"roots", "drain", "work"} \cup Final
  /\ nxt \in 1 .. q.n + 1
  /\ computed \subseteq Statements
  /\ eph \subseteq {Layer(s) : s \in Statements}
  /\ \A s \in Statements : \A k \in Keys(s) :
       /\ Cardinality(reg[s][k]) <= 1 /\ Cardinality(once[s][k]) <= 1
       /\ IdsOf(reg[s][k]) \subseteq DOMAIN db.inst
  /\ ToSet(work) \subseteq Statements /\ IsInjective(work)
  /\ cur \in Statements \cup {0}
  /\ IF cur = 0 THEN left = {} ELSE left # {} /\ left \subseteq deps[cur]
  /\ err \in {"none", "circular", "aborted"}
  /\ \A w \in warned : w.st \in Statements /\ w.k \in Keys(w.st) /\ w.kind \in {"NoMatch", "Note"}

Root(s) == LET top[v \in Statements] == IF q.parent[v] = 0 THEN v ELSE top[q.parent[v]] IN top[s]

\* A statement is queued with every layer that an earlier top-level
\* statement creates, whatever was still in flight when compute_roots got to
\* it ("the `eph` snapshot it captures must reflect every materialised
\* ephemeral layer from preceding top-level statements", statement/mod.rs).
SnapshotComplete ==
  \A p \in pending : \A l \in Statements :
    q.parent[l] = 0 /\ HasLayerSpec(l) /\ l < Root(p.st) => Layer(l) \in p.eph

\* What the index says about two instances: a calls b when some definition
\* of a's symbol refers to b's, a holds b when its range is around b's.
CallPairs == {<<SymOf(e.from), SymOf(e.to)>> : e \in RefRows(Visible(eph))}
Related(rel, calls, holds, a, b) ==
  \/ "refs" \in rel /\ <<SymOf(a), SymOf(b)>> \in calls
  \/ "has" \in rel /\ [parent |-> a, child |-> b] \in holds
Nodes(s) == IdsOf(GetSelection(s))

OneSelector(kinds) == \A s \in Statements : Len(q.sel[s]) = 1 /\ Kind(s, 1) \in kinds

\* When the worklist is empty every notification has been taken in: a node
\* of a scope is related to a node that the enclosing statement still has,
\* and a node with a scope that names something is related to a node of it.
\* A statement without a selection has notified nobody.
EveryNodeIsRelated ==
  pc = "done" /\ OneSelector({"name", "unit", "bare", "namespace"}) =>
    LET calls == CallPairs
        holds == HasRows(Visible(eph))
    IN \A s \in Statements : q.parent[s] # 0 =>
         LET p == q.parent[s]
         IN /\ p \notin weak /\ GetSelection(p) # {} =>
                 \A i \in Nodes(s) : \E a \in Nodes(p) : Related(q.rel[s], calls, holds, a, i)
            /\ ~Echoes(s) =>
                 \A a \in Nodes(p) : \E c \in Children(p) : \E i \in Nodes(c) :
                   Related(q.rel[s], calls, holds, a, i)

\* What takes part in a match of a tree of names.  From below, a node is
\* supported by the union of the statements of its scope; from above, by a
\* node of the enclosing statement that takes part.
Matching(s) == {i \in CurrentRows(Visible(eph)) : Accepts(NameFilter(s, 1), i)}
Supported(calls, holds) ==
  LET supported[s \in Statements] ==
        {i \in Matching(s) : Children(s) = {} \/
           \E c \in Children(s) : \E b \in supported[c] : Related(q.rel[c], calls, holds, i, b)}
  IN supported
Reached(calls, holds, supported) ==
  LET reached[s \in Statements] ==
        {i \in supported[s] : q.parent[s] = 0 \/
           \E a \in reached[q.parent[s]] : Related(q.rel[s], calls, holds, a, i)}
  IN reached

\* A tree of names answers with exactly the nodes that take part in a match:
\* `"a" { "b" { "c" } }`, a calls b, b calls c.
TreeIsExact ==
  pc = "done" /\ OneSelector({"name"}) =>
    LET calls == CallPairs
        holds == HasRows(Visible(eph))
        reached == Reached(calls, holds, Supported(calls, holds))
    IN \A s \in Statements : Nodes(s) = reached[s]

\* In the end a use has a selection when a statement of its label has one,
\* and selects nothing that this statement does not: a label that is
\* narrowed after it was read is read again.
UseWithinProvider ==
  pc = "done" =>
    \A s, l \in Statements : \A k \in Keys(s) :
      Kind(s, k) = "use" /\ q.sel[s][k].label \in q.labels[l] /\ GetSelection(l) # {}
        => reg[s][k] # {} /\ IdsOf(reg[s][k]) \subseteq Nodes(l)

\* Propagation only removes nodes from a selection, which is why the
\* worklist runs dry.  A forced use starts over from the label.
OnlyShrinks ==
  [][\A s \in Statements : \A k \in Keys(s) :
       pc = "work" /\ reg[s][k] # {} /\ Kind(s, k) # "useForced"
         => IdsOf(reg'[s][k]) \subseteq IdsOf(reg[s][k])]_vars

\* run_worklist reaches a fixpoint, or the query fails, for every query.
Terminates == <>(pc \in Final \/ Dry)

\* Splitting a load by layer loses and adds nothing: a derive query answers
\* what one load that sees every visible layer would.
PartitionIsExact ==
  eph # {} /\ pc \in {"work", "done"} =>
    \A s \in Statements : \A rel \in {{"refs"}, {"has"}} :
      LET Has(ids, vis) == {h \in HasRows(vis) : h.parent \in ids /\ (q.unnest[s] \/ DirectChild(h, vis))}
          Refs(ids, vis) == {e \in RefRows(vis) : e.from \in ids /\
                               (q.unnest[s] \/ (DirectRef(e, vis) /\ OuterParent(e, ids, vis)))}
          all == Visible(eph)
      IN FindChildInstanceIds(Nodes(s), rel, q.unnest[s], eph) =
           IF rel = {"has"} THEN {h.child : h \in Has(Nodes(s), all)}
           ELSE {e.to : e \in Refs(Nodes(s), all)}

\* A reference leads from an instance to one instance of its target, the
\* same one whichever branch of the load found it.
OneEdgePerReference ==
  pc = "done" =>
    \A e \in FindEdgesBetween(AllNodes, eph) :
      \A o \in EdgeRows(AllNodes, Visible(eph)) :
        o.from = e.from /\ o.ref = e.ref => e.to <= o.to

\* Every reference between two nodes of the answer is drawn, once per place
\* in the source, unless the query for implicit edges failed; and what is
\* drawn is a reference of the index or a forced one.
EdgesComplete ==
  pc = "done" =>
    /\ ~result.lost =>
         \A e \in EdgeRows(result.nodes, Visible(eph)) :
           \E d \in result.refs : d.key = EdgeKey(e)
    /\ \A d \in result.refs : d.to # {} /\ d.to \subseteq result.nodes

\* Whatever creates a layer comes at the top level and before the next one
\* does.  Nested creators may share a batch, and "a nested `loc(...) ;
\* loc(...)` pair does NOT get a Sibling edge" (statement/mod.rs): their
\* statements do not see each other's layer.
LayersInSequence ==
  \A s, t \in Statements : HasLayerSpec(s) /\ HasLayerSpec(t) /\ s < t =>
    q.parent[s] = 0 /\ s < Root(t)

\* The containment edge of a node leads to the tightest node of the answer
\* around it, whichever statements had loaded the rows.
NearestContainer ==
  pc = "done" /\ LayersInSequence =>
    LET holds == HasRows(Visible(eph))
        Above(c) == {a \in result.nodes : [parent |-> a, child |-> c] \in holds}
    IN result.has = {[child |-> c,
                      parents |-> {a \in Above(c) : \A o \in Above(c) : Span(a) <= Span(o)}] :
                       c \in {i \in result.nodes : Above(i) # {}}}

\* A statement that names something and ends up with nothing never does so
\* in silence, whichever notification emptied it; and no diagnostic is out of
\* date when the answer goes out: what was reported empty has stayed empty.
EmptyIsExplained ==
  pc = "done" =>
    /\ OneSelector({"name"}) =>
         \A s \in Statements : Nodes(s) = {} => \E w \in result.warnings : w.st = s
    /\ \A w \in result.warnings :
         ~Uses(w.st, w.k) => IdsOf(reg[w.st][w.k]) = {}
=============================================================================
