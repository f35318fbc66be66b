----------------------------- MODULE EphLayers -----------------------------
(***************************************************************************)
(* The ephemeral layer cache: queries that materialise layers through      *)
(* Index::with_partitioned_layers / with_eph_layer, the index mutations    *)
(* that purge the cache (finalize_project, delete_project), the chunk      *)
(* uploads that do not, and the TTL garbage collector.                     *)
(*                                                                         *)
(* The rows of a layer are abstracted to the version of the project's      *)
(* persistent rows they were computed from (ver), to the layer whose       *)
(* symbols they point at (to), and to whether a cascade has since taken    *)
(* some of them away (rows).  Root layers are the elements of Roots; each  *)
(* is the root of one project.  A hash is the key it is computed from.     *)
(*                                                                         *)
(* The locks are PostgreSQL's (external): the table lock on layers that    *)
(* each statement takes, the row lock of an uncommitted hash, and the KEY  *)
(* SHARE locks that foreign-key checks leave on the rows they read.        *)
(***************************************************************************)
EXTENDS Integers, Sequences, SequencesExt, FiniteSets

CONSTANTS Roots,          \* projects, each with its root layer
          Searches,       \* inputs of search(..) statements
          Locs,           \* inputs of loc(..) statements
          Blocks,         \* inputs of layer { .. } statements
          Requests,       \* concurrent queries
          Writers,        \* concurrent IndexStore mutations
          NoRef,          \* a layer block without a row that points at a layer
          NoMemo,         \* loc's OnceCell before its initialisation
          MaxRows,        \* bound: committed chunks of a project
          MaxId,          \* bound: layers ever inserted
          MaxStatements   \* bound: layer statements of a query

Verbs == Searches \cup Locs \cup Blocks
Ids == 1 .. MaxId

ASSUME LayersAssumption ==
  /\ MaxRows \in Nat
  /\ MaxId \in Nat
  /\ MaxStatements \in Nat
  /\ NoRef \notin [at : Roots, to : Ids]
  /\ NoMemo \notin [Roots -> 0 .. MaxRows]
  /\ IsFiniteSet(Writers)
  /\ Writers \cap ((Requests \X Roots) \cup {<<"gc">>}) = {}

VARIABLES
  rows,     \* version of each project's committed persistent rows
  status,   \* upload_status of each project, "gone" without a projects row
  lay,      \* index.layers: committed ephemeral rows, by id
  nextId,   \* the id sequence: never reused, not even after a rollback
  req,      \* queries
  fut,      \* fut[r][p]: query r's with_eph_layer call for root p
  wr,       \* mutations
  gc,       \* the DELETE of purge_old_eph_layers
  floor     \* rows as of the last committed purge

vars == <<rows, status, lay, nextId, req, fut, wr, gc, floor>>

Idle == [st |-> "idle", verb |-> NoRef, ref |-> NoRef, memo |-> NoMemo,
         chain |-> [p \in {} |-> <<>>]]
NoFut == [pc |-> "none", role |-> "base", own |-> "live", id |-> 0, base |-> 0,
          ver |-> 0]
NoOp == [op |-> "none", pc |-> "idle", root |-> NoRef]
NoGc == [pc |-> "idle", doomed |-> {}, seen |-> {}]

Init ==
  /\ rows = [p \in Roots |-> 0]
  /\ status = [p \in Roots |-> "uploading"]
  /\ lay = [i \in {} |-> NoRef]
  /\ nextId = 1
  /\ req = [r \in Requests |-> Idle]
  /\ fut = [r \in Requests |-> [p \in Roots |-> NoFut]]
  /\ wr = [w \in Writers |-> NoOp]
  /\ gc = NoGc
  /\ floor = rows

-----------------------------------------------------------------------------
(* Keys and locks.                                                         *)

\* EphContext::chain_last of a root, 0 standing for the root itself.
ChainLast(r, p) == IF req[r].chain[p] = <<>> THEN 0 ELSE Last(req[r].chain[p])

Visible(r) == UNION {Range(req[r].chain[p]) : p \in DOMAIN req[r].chain}

\* The layer's hash: root_salted_hash(root, base_hash) of a base,
\* supplement_hash(parent, salted, extra) of a supplement.
Key(r, p) ==
  IF fut[r][p].role = "base"
  THEN [root |-> p, verb |-> req[r].verb, parent |-> 0, extra |-> NoRef]
  ELSE [root |-> p, verb |-> req[r].verb, parent |-> ChainLast(r, p),
        extra |-> req[r].ref]

KeyOf(l) == [root |-> l.root, verb |-> l.verb, parent |-> l.parent, extra |-> l.extra]

\* A row of this supplement points at a symbol of another layer: the rows of a
\* batch go to the root whose project owns their object.
Points(r, p) ==
  /\ fut[r][p].role = "supplement"
  /\ req[r].ref # NoRef
  /\ req[r].ref.at = p

\* Mutant of Parents: parent_id without a foreign key.
ParentsUnchecked(r, p) == IF fut[r][p].role = "base" THEN {} ELSE {fut[r][p].base}

Parents(r, p) ==
  IF fut[r][p].role = "base" THEN {} ELSE {ChainLast(r, p), fut[r][p].base}

\* Layer transactions: after LOCK (ROW EXCLUSIVE on layers), and after their
\* upsert has the layers row.
Txns == {"queued", "open", "scanned", "filled", "empty", "hit"}
HasRow(r, p) == fut[r][p].pc \in Txns \ {"queued"}
Created(r, p) == fut[r][p].pc \in {"open", "scanned", "filled", "empty"}

SameHash(r, p) ==
  {x \in (Requests \X Roots) \ {<<r, p>>} :
     HasRow(x[1], x[2]) /\ Key(x[1], x[2]) = Key(r, p)}

Collector == <<"gc">>

\* Writers at, or waiting for, LOCK TABLE index.layers IN EXCLUSIVE MODE.
\* Later lock requests queue behind a waiting one.
Excluding == {w \in Writers : wr[w].pc \in {"wantExcl", "excl"}}

\* Holders of a table lock on layers that EXCLUSIVE conflicts with.
TableHolders ==
  {x \in Requests \X Roots : fut[x[1]][x[2]].pc \in Txns}
    \cup {w \in Writers : \/ wr[w].op = "chunk" /\ wr[w].pc = "inserted"
                          \/ wr[w].op = "delete" /\ wr[w].pc \in {"delRoot", "wantExcl"}
                          \/ wr[w].pc = "excl"}
    \cup (IF gc.pc = "idle" THEN {} ELSE {Collector})

\* Writers that hold a project's row FOR UPDATE (or have deleted it).
RowOwners(p) ==
  {w \in Writers : wr[w].root = p /\ wr[w].op \in {"finalize", "delete"}
                     /\ wr[w].pc \in {"delRow", "delRoot", "wantExcl", "excl"}}

\* Transactions whose foreign-key checks hold a project's row FOR KEY SHARE.
KeyShares(p) ==
  {<<r, p>> : r \in {s \in Requests : fut[s][p].pc = "filled"}}
    \cup {w \in Writers : wr[w].op = "chunk" /\ wr[w].root = p}

\* Writers that have deleted a root layer's row and not committed.
RootDeleters(p) ==
  {w \in Writers : wr[w].root = p /\ wr[w].op = "delete"
                     /\ wr[w].pc \in {"delRoot", "wantExcl", "excl"}}

\* Layer transactions that hold a lock on a row of one of these layers.
PinsOne(r, p, S) ==
  \/ fut[r][p].pc = "hit" /\ fut[r][p].id \in S
  \/ Created(r, p) /\ Parents(r, p) \cap S # {}
  \/ fut[r][p].pc = "filled" /\ Points(r, p) /\ req[r].ref.to \in S

Pins(S) == {x \in Requests \X Roots : PinsOne(x[1], x[2], S)}

\* What ON DELETE CASCADE on parent_id and base_id takes with S.
Children(S) == S \cup {i \in DOMAIN lay : {lay[i].parent, lay[i].base} \cap S # {}}

Cascade(T) ==
  {i \in DOMAIN lay :
     \A S \in SUBSET DOMAIN lay : T \cap DOMAIN lay \subseteq S /\ Children(S) = S => i \in S}

\* What a process that cannot go on is waiting for.
WaitsFor(x) ==
  IF x = Collector THEN Pins(Cascade(gc.doomed))
  ELSE IF x \in Writers THEN
    CASE wr[x].pc = "claimed"  -> Excluding
      [] wr[x].pc = "marked"   -> KeyShares(wr[x].root) \cup RowOwners(wr[x].root)
      [] wr[x].pc = "delRow"   -> Excluding \cup
           {y \in Requests \X {wr[x].root} : HasRow(y[1], y[2])}
      [] wr[x].pc = "wantExcl" -> TableHolders \ {x}
      [] OTHER -> {}
  ELSE LET f == fut[x[1]][x[2]] IN
    CASE f.own = "dropped" -> {}
      [] f.pc = "want"    -> Excluding
      [] f.pc = "queued"  -> SameHash(x[1], x[2]) \cup RootDeleters(x[2])
      [] f.pc = "scanned" -> RowOwners(x[2])
      [] OTHER -> {}

Processes == (Requests \X Roots) \cup Writers \cup {Collector}

Deadlocked(S) == S # {} /\ \A x \in S : WaitsFor(x) \cap S # {}

-----------------------------------------------------------------------------
(* Queries.  One future per visible root, base first and then the          *)
(* supplement, each layer in a transaction of its own.                     *)

\* load_root_layers and EphContext::rooted.
Begin(r) ==
  /\ req[r].st = "idle"
  /\ \A p \in Roots : fut[r][p].pc = "none"
  /\ req' = [req EXCEPT ![r] = [Idle EXCEPT
                !.st = "ready",
                !.chain = [p \in {q \in Roots : status[q] # "gone"} |-> <<>>]]]
  /\ UNCHANGED <<rows, status, lay, nextId, fut, wr, gc, floor>>

\* Phase 1 of a layer-creating statement: its spec is known, a layer block's
\* labels are resolved to rows of the visible layers, the per-root futures start.
StartStatement(r, v, ref) ==
  /\ req[r].st = "ready"
  /\ DOMAIN req[r].chain # {}
  /\ \A p \in DOMAIN req[r].chain : Len(req[r].chain[p]) < 2 * MaxStatements - 1
  /\ ref # NoRef => /\ v \in Blocks
                    /\ ref.at \in DOMAIN req[r].chain
                    /\ ref.to \in Visible(r) \cap DOMAIN lay
  /\ req' = [req EXCEPT ![r].st = "run", ![r].verb = v, ![r].ref = ref,
                        ![r].memo = NoMemo]
  /\ fut' = [fut EXCEPT ![r] = [p \in Roots |->
               IF p \in DOMAIN req[r].chain THEN [NoFut EXCEPT !.pc = "want"] ELSE NoFut]]
  /\ UNCHANGED <<rows, status, lay, nextId, wr, gc, floor>>

Running(r, p, pc) ==
  /\ fut[r][p].pc = pc
  /\ fut[r][p].own = "live"

Step(r, p, f) == fut' = [fut EXCEPT ![r][p] = f]

\* BEGIN, and the upsert statement gets its ROW EXCLUSIVE lock on layers.
LockTable(r, p) ==
  /\ Running(r, p, "want")
  /\ Excluding = {}
  /\ Step(r, p, [fut[r][p] EXCEPT !.pc = "queued"])
  /\ UNCHANGED <<rows, status, lay, nextId, req, wr, gc, floor>>

\* Mutant of Upsert: a plain INSERT without ON CONFLICT (hash).
InsertOnly(r, p) ==
  /\ Running(r, p, "queued")
  /\ RootDeleters(p) = {}
  /\ status[p] # "gone"
  /\ Parents(r, p) \subseteq DOMAIN lay
  /\ nextId <= MaxId
  /\ Step(r, p, [fut[r][p] EXCEPT !.pc = "open", !.id = nextId])
  /\ nextId' = nextId + 1
  /\ UNCHANGED <<rows, status, lay, req, wr, gc, floor>>

\* create_eph_layer's INSERT .. ON CONFLICT (hash) DO UPDATE: a hit on a
\* committed row, or a fresh row whose parent and base the FKs find.
Upsert(r, p) ==
  /\ Running(r, p, "queued")
  /\ SameHash(r, p) = {}
  /\ RootDeleters(p) = {}
  /\ LET hits == {i \in DOMAIN lay : KeyOf(lay[i]) = Key(r, p)} IN
     IF hits # {}
     THEN /\ Step(r, p, [fut[r][p] EXCEPT !.pc = "hit",
                                          !.id = CHOOSE i \in hits : TRUE])
          /\ UNCHANGED nextId
     ELSE /\ status[p] # "gone"
          /\ Parents(r, p) \subseteq DOMAIN lay
          /\ nextId <= MaxId
          /\ Step(r, p, [fut[r][p] EXCEPT !.pc = "open", !.id = nextId])
          /\ nextId' = nextId + 1
  /\ UNCHANGED <<rows, status, lay, req, wr, gc, floor>>

\* What loc's resolution sees: every root, once per statement; the siblings
\* take the OnceCell's value.
Resolved(r) == IF req[r].memo = NoMemo THEN rows ELSE req[r].memo

\* What the populate reads on the transaction's connection: search scans this
\* root's rows, loc resolves, a layer block's batch was collected before.
\* Supplements of scans read nothing.  "scanned" when there are rows to insert.
Scan(r, p) ==
  /\ Running(r, p, "open")
  /\ LET base == fut[r][p].role = "base"
         loc  == base /\ req[r].verb \in Locs
         seen == IF loc THEN Resolved(r) ELSE rows
     IN /\ req' = IF loc THEN [req EXCEPT ![r].memo = seen] ELSE req
        /\ \E pc \in IF base \/ req[r].verb \in Blocks THEN {"scanned", "empty"}
                                                       ELSE {"empty"} :
             /\ Points(r, p) => pc = "scanned"
             /\ Step(r, p, [fut[r][p] EXCEPT !.pc = pc, !.ver = seen[p]])
  /\ UNCHANGED <<rows, status, lay, nextId, wr, gc, floor>>

\* insert_batch: the foreign keys of the rows check, and pin, the project and
\* the symbols they point at.
Fill(r, p) ==
  /\ Running(r, p, "scanned")
  /\ RowOwners(p) = {}
  /\ status[p] # "gone"
  /\ Points(r, p) => req[r].ref.to \in DOMAIN lay
  /\ Step(r, p, [fut[r][p] EXCEPT !.pc = "filled"])
  /\ UNCHANGED <<rows, status, lay, nextId, req, wr, gc, floor>>

\* The future goes on after a layer: from the base to the supplement if the
\* root has a chain, else it is done.
Advance(r, p, i) ==
  Step(r, p, IF fut[r][p].role = "base" /\ req[r].chain[p] # <<>>
             THEN [NoFut EXCEPT !.pc = "want", !.role = "supplement", !.base = i]
             ELSE [fut[r][p] EXCEPT !.pc = "done"])

\* mark_truncated, mark_populated, COMMIT.
CommitLayer(r, p) ==
  /\ Running(r, p, "filled") \/ Running(r, p, "empty")
  /\ LET f == fut[r][p]
         l == [root |-> p, verb |-> req[r].verb, parent |-> Key(r, p).parent,
               extra |-> Key(r, p).extra, base |-> f.base, ver |-> f.ver,
               to |-> IF Points(r, p) THEN req[r].ref.to ELSE 0,
               rows |-> "whole", used |-> "fresh"]
     IN lay' = [i \in DOMAIN lay \cup {f.id} |-> IF i = f.id THEN l ELSE lay[i]]
  /\ Advance(r, p, fut[r][p].id)
  /\ UNCHANGED <<rows, status, nextId, req, wr, gc, floor>>

\* A cache hit commits its touch of last_used and skips the populate.
CommitHit(r, p) ==
  /\ Running(r, p, "hit")
  /\ lay' = [lay EXCEPT ![fut[r][p].id].used = "fresh"]
  /\ Advance(r, p, fut[r][p].id)
  /\ UNCHANGED <<rows, status, nextId, req, wr, gc, floor>>

\* A statement of the transaction fails (a foreign key whose row was purged,
\* a loc without a match, the connection): ROLLBACK, and the error is kept
\* until the sibling roots are through.
FailLayer(r, p) ==
  /\ fut[r][p].pc \in Txns
  /\ fut[r][p].own = "live"
  /\ Step(r, p, [NoFut EXCEPT !.pc = "failed"])
  /\ UNCHANGED <<rows, status, lay, nextId, req, wr, gc, floor>>

Settled(r) == \A p \in Roots : fut[r][p].pc \in {"none", "done", "failed"}

\* Mutant of FinishStatement: base and supplement are pushed for every root.
FinishStatementBoth(r) ==
  /\ req[r].st = "run"
  /\ Settled(r)
  /\ req' = [req EXCEPT ![r] =
       IF \E p \in Roots : fut[r][p].pc = "failed" THEN Idle
       ELSE [Idle EXCEPT !.st = "ready", !.chain = [p \in DOMAIN req[r].chain |->
               req[r].chain[p] \o <<fut[r][p].base, fut[r][p].id>>]]]
  /\ fut' = [fut EXCEPT ![r] = [p \in Roots |-> NoFut]]
  /\ UNCHANGED <<rows, status, lay, nextId, wr, gc, floor>>

\* Every root settled: an error ends the query, else push_round appends base
\* and then supplement to each root's chain.
FinishStatement(r) ==
  /\ req[r].st = "run"
  /\ Settled(r)
  /\ req' = [req EXCEPT ![r] =
       IF \E p \in Roots : fut[r][p].pc = "failed" THEN Idle
       ELSE [Idle EXCEPT !.st = "ready", !.chain = [p \in DOMAIN req[r].chain |->
               LET f == fut[r][p] IN req[r].chain[p] \o
                 IF f.role = "base" THEN <<f.id>> ELSE <<f.base, f.id>>]]]
  /\ fut' = [fut EXCEPT ![r] = [p \in Roots |-> NoFut]]
  /\ UNCHANGED <<rows, status, lay, nextId, wr, gc, floor>>

EndRequest(r) ==
  /\ req[r].st = "ready"
  /\ req' = [req EXCEPT ![r] = Idle]
  /\ UNCHANGED <<rows, status, lay, nextId, fut, wr, gc, floor>>

\* A future that is dropped: Drop cannot roll back, so an open transaction stays
\* in the pool with its locks.
Dropped(f) == IF f.pc \in Txns THEN [f EXCEPT !.own = "dropped"] ELSE NoFut

\* The request times out or its client goes away: the futures are dropped.
Cancel(r) ==
  /\ req[r].st = "run"
  /\ req' = IF \E p \in Roots : fut[r][p].pc \in Txns
            THEN [req EXCEPT ![r].st = "cancelled"] ELSE [req EXCEPT ![r] = Idle]
  /\ fut' = [fut EXCEPT ![r] = [p \in Roots |-> Dropped(@[p])]]
  /\ UNCHANGED <<rows, status, lay, nextId, wr, gc, floor>>

\* Mutant of Recycle: RecyclingMethod::Fast and no timeout.
RecycleNever(r, p) == FALSE

\* The recycling ROLLBACK of the next checkout, or the server's idle-in-
\* transaction timeout.
Recycle(r, p) ==
  /\ fut[r][p].own = "dropped"
  /\ Step(r, p, NoFut)
  /\ req' = IF \A q \in Roots \ {p} : fut[r][q].pc = "none"
            THEN [req EXCEPT ![r] = Idle] ELSE req
  /\ UNCHANGED <<rows, status, lay, nextId, wr, gc, floor>>

-----------------------------------------------------------------------------
(* Mutations.                                                              *)

Write(w, op, pc, p) == wr' = [wr EXCEPT ![w] = [op |-> op, pc |-> pc, root |-> p]]
Go(w, pc) == wr' = [wr EXCEPT ![w].pc = pc]

\* upload_symbol_chunk / upload_object_chunk: claim the chunk slot (FK on the
\* project), insert rows on the root layer (FK on layers), commit.  Neither
\* the project's status is read nor the layer cache purged.
ClaimChunk(w, p) ==
  /\ wr[w].pc = "idle"
  /\ status[p] # "gone"
  /\ RowOwners(p) = {}
  /\ rows[p] + Cardinality({x \in Writers : wr[x].op = "chunk" /\ wr[x].root = p})
       < MaxRows
  /\ Write(w, "chunk", "claimed", p)
  /\ UNCHANGED <<rows, status, lay, nextId, req, fut, gc, floor>>

InsertChunk(w) ==
  /\ wr[w].op = "chunk"
  /\ wr[w].pc = "claimed"
  /\ Excluding = {}
  /\ Go(w, "inserted")
  /\ UNCHANGED <<rows, status, lay, nextId, req, fut, gc, floor>>

CommitChunk(w) ==
  /\ wr[w].op = "chunk"
  /\ wr[w].pc = "inserted"
  /\ rows' = [rows EXCEPT ![wr[w].root] = @ + 1]
  /\ wr' = [wr EXCEPT ![w] = NoOp]
  /\ UNCHANGED <<status, lay, nextId, req, fut, gc, floor>>

\* finalize_project: the project row FOR UPDATE, its status Uploading and its
\* chunks all there; on to the purge.
LockForFinalize(w, p) ==
  /\ wr[w].pc = "idle"
  /\ status[p] = "uploading"
  /\ RowOwners(p) = {}
  /\ KeyShares(p) = {}
  /\ Write(w, "finalize", "wantExcl", p)
  /\ UNCHANGED <<rows, status, lay, nextId, req, fut, gc, floor>>

\* delete_project marks the row in a transaction of its own ...
MarkDeleting(w, p) ==
  /\ wr[w].pc = "idle"
  /\ status[p] # "gone"
  /\ RowOwners(p) = {}
  /\ status' = [status EXCEPT ![p] = "deleting"]
  /\ Write(w, "delete", "marked", p)
  /\ UNCHANGED <<rows, lay, nextId, req, fut, gc, floor>>

\* ... then deletes the project's rows and the projects row (a second delete
\* of the same project finds none, and goes straight to the purge) ...
DeleteRows(w) ==
  /\ wr[w].pc = "marked"
  /\ KeyShares(wr[w].root) = {}
  /\ RowOwners(wr[w].root) = {}
  /\ IF status[wr[w].root] = "gone"
     THEN Write(w, "purge", "wantExcl", wr[w].root)
     ELSE Go(w, "delRow")
  /\ UNCHANGED <<rows, status, lay, nextId, req, fut, gc, floor>>

\* ... then its root layer, whose children are layers of open transactions ...
DeleteRoot(w) ==
  /\ wr[w].pc = "delRow"
  /\ Excluding = {}
  /\ \A r \in Requests : ~HasRow(r, wr[w].root)
  /\ Go(w, "delRoot")
  /\ UNCHANGED <<rows, status, lay, nextId, req, fut, gc, floor>>

\* ... and purges.
RequestExclusive(w) ==
  /\ wr[w].pc = "delRoot"
  /\ Go(w, "wantExcl")
  /\ UNCHANGED <<rows, status, lay, nextId, req, fut, gc, floor>>

\* create_project finds a zombie of its name: row FOR UPDATE, projects row and
\* root layer deleted, purge.  (The new project is another root.)
DeleteZombie(w, p) ==
  /\ wr[w].pc = "idle"
  /\ status[p] = "deleting"
  /\ RowOwners(p) = {}
  /\ KeyShares(p) = {}
  /\ Write(w, "delete", "delRow", p)
  /\ UNCHANGED <<rows, status, lay, nextId, req, fut, gc, floor>>

\* clear_caches of the admin endpoint: a purge and nothing else.
ClearCaches(w) ==
  /\ wr[w].pc = "idle"
  /\ Write(w, "clear", "wantExcl", NoRef)
  /\ UNCHANGED <<rows, status, lay, nextId, req, fut, gc, floor>>

\* Mutant of TakeExclusive: a DELETE without the LOCK TABLE.
PurgeWithoutLock(w) ==
  /\ wr[w].pc = "wantExcl"
  /\ Go(w, "excl")
  /\ UNCHANGED <<rows, status, lay, nextId, req, fut, gc, floor>>

\* purge_eph_cache: LOCK TABLE is granted once the open layer transactions
\* are through.
TakeExclusive(w) ==
  /\ wr[w].pc = "wantExcl"
  /\ TableHolders \subseteq {w}
  /\ Go(w, "excl")
  /\ UNCHANGED <<rows, status, lay, nextId, req, fut, gc, floor>>

\* What the purging transaction leaves in the projects table.
StatusAfter(w) ==
  [p \in Roots |-> CASE wr[w].root # p -> status[p]
                     [] wr[w].op = "finalize" -> "complete"
                     [] OTHER -> "gone"]

\* The DELETE of every unprotected layer, and COMMIT.
PurgeAndCommit(w) ==
  /\ wr[w].pc = "excl"
  /\ lay' = [i \in {} |-> NoRef]
  /\ floor' = rows
  /\ status' = StatusAfter(w)
  /\ wr' = [wr EXCEPT ![w] = NoOp]
  /\ UNCHANGED <<rows, nextId, req, fut, gc>>

\* An error, or a dropped handler whose connection has been recycled: the
\* transaction is rolled back, a Deleting mark stays.
RollBackWrite(w) ==
  /\ wr[w].pc # "idle"
  /\ wr' = [wr EXCEPT ![w] = NoOp]
  /\ UNCHANGED <<rows, status, lay, nextId, req, fut, gc, floor>>

-----------------------------------------------------------------------------
(* The TTL garbage collector of server.rs: one DELETE of a doomed closure. *)

\* Time passes: a layer that no running query has in its chain gets old.
Age(i) ==
  /\ i \in DOMAIN lay
  /\ lay[i].used = "fresh"
  /\ \A r \in Requests : i \notin Visible(r)
  /\ \A r \in Requests, p \in Roots : fut[r][p].pc # "none" =>
       i \notin {fut[r][p].id, fut[r][p].base}
  /\ lay' = [lay EXCEPT ![i].used = "old"]
  /\ UNCHANGED <<rows, status, nextId, req, fut, wr, gc, floor>>

\* Mutant of Needs: only the columns of layers, not the data rows.
NeedsByColumns(i) == {lay[i].parent, lay[i].base} \ {0}

\* The edges of doomed_closure_delete_sql: data rows, parent_id, base_id.
Needs(i) == {lay[i].parent, lay[i].base, lay[i].to} \ {0}

Up(S) == S \cup {i \in DOMAIN lay : Needs(i) \cap S # {}}

\* The recursive CTE's least fixpoint.
DoomedClosure(seed) ==
  {i \in DOMAIN lay :
     \A S \in SUBSET DOMAIN lay : seed \subseteq S /\ Up(S) = S => i \in S}

\* The statement starts: table lock, snapshot, closure.
ScanDoomed ==
  /\ gc.pc = "idle"
  /\ Excluding = {}
  /\ LET old == {i \in DOMAIN lay : lay[i].used = "old"} IN
       /\ old # {}
       /\ gc' = [pc |-> "scanned", doomed |-> DoomedClosure(old), seen |-> DOMAIN lay]
  /\ UNCHANGED <<rows, status, lay, nextId, req, fut, wr, floor>>

\* The doomed rows go, once nobody pins them or what goes with them; last_used
\* is not read again.  The cascades see rows committed since the snapshot: child
\* layers go too, and a surviving layer loses the rows that pointed into a
\* deleted one.
DeleteDoomed ==
  /\ gc.pc = "scanned"
  /\ LET gone == Cascade(gc.doomed) IN
       /\ Pins(gone) = {}
       /\ lay' = [i \in DOMAIN lay \ gone |->
                   IF lay[i].to \in gone THEN [lay[i] EXCEPT !.rows = "hollow"] ELSE lay[i]]
  /\ gc' = NoGc
  /\ UNCHANGED <<rows, status, nextId, req, fut, wr, floor>>

\* The purge of old layers fails; the loop logs it and sleeps.
FailGc ==
  /\ gc.pc = "scanned"
  /\ gc' = NoGc
  /\ UNCHANGED <<rows, status, lay, nextId, req, fut, wr, floor>>

-----------------------------------------------------------------------------
QueryStep(r) ==
  \/ Begin(r)
  \/ \E v \in Verbs : \E ref \in {NoRef} \cup [at : Roots, to : DOMAIN lay] :
       StartStatement(r, v, ref)
  \/ FinishStatement(r)
  \/ EndRequest(r)
  \/ Cancel(r)
  \/ \E p \in Roots :
       \/ LockTable(r, p)
       \/ Upsert(r, p)
       \/ Scan(r, p)
       \/ Fill(r, p)
       \/ CommitLayer(r, p)
       \/ CommitHit(r, p)
       \/ FailLayer(r, p)
       \/ Recycle(r, p)

WriteStep(w) ==
  \/ \E p \in Roots :
       \/ ClaimChunk(w, p)
       \/ LockForFinalize(w, p)
       \/ MarkDeleting(w, p)
       \/ DeleteZombie(w, p)
  \/ ClearCaches(w)
  \/ InsertChunk(w)
  \/ CommitChunk(w)
  \/ DeleteRows(w)
  \/ DeleteRoot(w)
  \/ RequestExclusive(w)
  \/ TakeExclusive(w)
  \/ PurgeAndCommit(w)
  \/ RollBackWrite(w)

Next ==
  \/ \E r \in Requests : QueryStep(r)
  \/ \E w \in Writers : WriteStep(w)
  \/ \E i \in Ids : Age(i)
  \/ ScanDoomed
  \/ DeleteDoomed
  \/ FailGc

Spec == Init /\ [][Next]_vars
-----------------------------------------------------------------------------
(* Properties.                                                             *)

FutPcs == Txns \cup {"none", "want", "done", "failed"}
Refs == {NoRef} \cup [at : Roots, to : Ids]

\* Every variable keeps its type; in particular a committed layers row is one
\* that with_eph_layer populated, and its id was drawn from the sequence.
TypeOK ==
  /\ rows \in [Roots -> 0 .. MaxRows]
  /\ floor \in [Roots -> 0 .. MaxRows]
  /\ status \in [Roots -> {"uploading", "complete", "deleting", "gone"}]
  /\ nextId \in 1 .. MaxId + 1
  /\ DOMAIN lay \subseteq 1 .. nextId - 1
  /\ \A i \in DOMAIN lay :
       lay[i] \in [root : Roots, verb : Verbs, parent : 0 .. MaxId, extra : Refs,
                   base : 0 .. MaxId, ver : 0 .. MaxRows, to : 0 .. MaxId,
                   rows : {"whole", "hollow"}, used : {"fresh", "old"}]
  /\ \A r \in Requests :
       /\ req[r].st \in {"idle", "ready", "run", "cancelled"}
       /\ req[r].ref \in Refs
       /\ req[r].memo = NoMemo \/ req[r].memo \in [Roots -> 0 .. MaxRows]
       /\ DOMAIN req[r].chain \subseteq Roots
       /\ Visible(r) \subseteq 1 .. nextId - 1
  /\ fut \in [Requests -> [Roots ->
              [pc : FutPcs, role : {"base", "supplement"}, own : {"live", "dropped"},
               id : 0 .. nextId - 1, base : 0 .. nextId - 1, ver : 0 .. MaxRows]]]
  /\ gc.doomed \subseteq Ids

\* Layers whose content is read from the project's persistent rows.
Scans(l) == l.parent = 0 /\ l.verb \notin Blocks

\* A committed purge is final: no layer that is served after it was computed
\* from rows older than the ones the purging mutation published, whichever
\* layer transactions were open or about to start around the LOCK TABLE.
PurgeIsFinal ==
  \A i \in DOMAIN lay : Scans(lay[i]) => lay[i].ver >= floor[lay[i].root]

\* The lock order of layer transactions, mutations and the collector is
\* one-directional: nobody ever waits in a circle.
NoDeadlockCycle == ~ \E S \in SUBSET Processes : Deadlocked(S)

\* A layer is either fully alive or gone: no populated row has lost data rows.
NeverHollow == \A i \in DOMAIN lay : lay[i].rows = "whole"

\* The doomed closure is complete for what it saw: the collector never takes
\* rows out of a surviving layer that was committed when its DELETE started.
ClosureSparesSeen ==
  [][\A i \in DOMAIN lay \cap DOMAIN lay' :
       lay[i].rows = "whole" /\ lay'[i].rows = "hollow" => i \notin gc.seen]_vars

\* No layer outlives what it hangs on: its project, its parent and its base are
\* there as long as it is, through purges, deletes, collections and rollbacks.
NoOrphan ==
  \A i \in DOMAIN lay :
    /\ status[lay[i].root] # "gone"
    /\ {lay[i].parent, lay[i].base} \subseteq DOMAIN lay \cup {0}

\* One layers row per hash, counting the uncommitted ones: racing creators of
\* a key populate it once.
OneLayerPerHash ==
  /\ \A i, j \in DOMAIN lay : KeyOf(lay[i]) = KeyOf(lay[j]) => i = j
  /\ \A r \in Requests, p \in Roots : Created(r, p) =>
       \A i \in DOMAIN lay : KeyOf(lay[i]) # Key(r, p)

\* The server's deadlock detector ends one of the transactions of a circle.
BreakDeadlock ==
  \E S \in SUBSET Processes :
    /\ Deadlocked(S)
    /\ \/ \E r \in Requests, p \in Roots : <<r, p>> \in S /\ FailLayer(r, p)
       \/ \E w \in Writers \cap S : RollBackWrite(w)
       \/ Collector \in S /\ FailGc

\* The server answers a statement that nobody blocks, with an error if need be.
UpsertFails(r, p) ==
  /\ Running(r, p, "queued")
  /\ SameHash(r, p) \cup RootDeleters(p) = {}
  /\ FailLayer(r, p)

FillFails(r, p) ==
  /\ Running(r, p, "scanned")
  /\ RowOwners(p) = {}
  /\ FailLayer(r, p)

\* Statements that can run do run, open transactions end, dropped ones are
\* recycled, deadlocks are broken; the queues of row locks are first come,
\* first served (hence SF: the row may be locked again and again).
Fairness ==
  /\ \A r \in Requests, p \in Roots :
       /\ SF_vars(Upsert(r, p) \/ UpsertFails(r, p))
       /\ WF_vars(Scan(r, p))
       /\ SF_vars(Fill(r, p) \/ FillFails(r, p))
       /\ WF_vars(CommitLayer(r, p))
       /\ WF_vars(CommitHit(r, p))
       /\ WF_vars(Recycle(r, p))
  /\ \A w \in Writers :
       /\ WF_vars(InsertChunk(w))
       /\ WF_vars(CommitChunk(w))
       /\ WF_vars(RequestExclusive(w))
       /\ WF_vars(TakeExclusive(w))
       /\ WF_vars(PurgeAndCommit(w))
  /\ WF_vars(DeleteDoomed)
  /\ WF_vars(BreakDeadlock)

FairSpec == Spec /\ Fairness

\* A mutation that asks for the table lock gets it (or is the one a deadlock
\* ends): later queries cannot overtake it, and a layer transaction abandoned
\* by its client cannot hold it up forever.
PurgeIsServed == \A w \in Writers : wr[w].pc = "wantExcl" ~> wr[w].pc # "wantExcl"

\* The loser of a hash race gets its answer, also when the winner was
\* abandoned in the middle of its populate.
LoserIsServed ==
  \A r \in Requests, p \in Roots : fut[r][p].pc = "queued" ~> fut[r][p].pc # "queued"
=============================================================================
