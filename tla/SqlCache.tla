------------------------------ MODULE SqlCache ------------------------------
(***************************************************************************)
(* The in-RAM SQL result cache (index/src/db_diesel/sql_cache.rs), the     *)
(* read path that fills it (Index::cached_load) and the mutation handlers  *)
(* of IndexStore that invalidate it through a ClearOnDrop guard.           *)
(*                                                                         *)
(* A cached result is abstracted to the version of the query-visible rows  *)
(* it was computed from and to its weight in bytes.  Every committed       *)
(* mutation makes a new version, as if each one touched every query: a     *)
(* result of an older version is stale.  Hit/miss counters are left out.   *)
(***************************************************************************)
EXTENDS Integers, FiniteSets, FiniteSetsExt

CONSTANTS Keys,         \* CacheKey: hash of the rendered SQL and its binds
          NoKey,        \* the key of a query that cannot be rendered
          Loaders,      \* concurrent callers of Index::cached_load
          Mutators,     \* concurrent IndexStore mutation handlers
          Sizes,        \* the weights vec_weight can give a result
          MaxBytes,     \* max_bytes; 0 disables the cache
          MaxVersion,   \* bound: committed mutations
          MaxClears     \* bound: handlers, admin clears and panics

ASSUME CacheAssumption ==
  /\ NoKey \notin Keys
  /\ Sizes \subseteq Nat
  /\ MaxBytes \in Nat
  /\ MaxVersion \in Nat
  /\ MaxClears \in Nat

VARIABLES
  db,         \* version of the committed, query-visible rows
  map,        \* Inner.map: cached key -> [ver, bytes, age]; age 0 = most recent
  used,       \* Inner.used_bytes
  epoch,      \* Inner.epoch
  mutex,      \* "poisoned" after a holder panicked
  load,       \* the cached_load call of each loader
  mut,        \* the mutation handler of each mutator
  acked,      \* versions whose handler returned to its client
  late,       \* versions that became visible after their guard had fired
  clears      \* events that clear the cache, counted against MaxClears

cacheVars == <<map, used, epoch, mutex>>
vars == <<db, map, used, epoch, mutex, load, mut, acked, late, clears>>

LoadPcs == {"idle", "start", "miss", "snapped", "read", "done"}
MutPcs == {"idle", "armed", "committing", "orphan"}
MutKinds == {"txn", "batches"}

NoLoad == [pc |-> "idle", key |-> NoKey, epoch |-> 0, ver |-> 0, floor |-> {}]
NoMut == [pc |-> "idle", kind |-> "txn", vers |-> {}]
EmptyMap == [k \in {} |-> NoKey]

Init ==
  /\ db = 0
  /\ map = EmptyMap
  /\ used = 0
  /\ epoch = 0
  /\ mutex = "sound"
  /\ load = [l \in Loaders |-> NoLoad]
  /\ mut = [m \in Mutators |-> NoMut]
  /\ acked = {}
  /\ late = {}
  /\ clears = 0

-----------------------------------------------------------------------------
(* The cache.  Every method takes the mutex for its whole body, so each is *)
(* one step.                                                               *)

\* Mutant of LockedUsed: poison recovery clears the map only.
UsedNotReset == used

\* SqlResultCache::lock: what the holder finds, after poison recovery.
LockedMap == IF mutex = "poisoned" THEN EmptyMap ELSE map
LockedUsed == IF mutex = "poisoned" THEN 0 ELSE used
LockedEpoch == IF mutex = "poisoned" THEN epoch + 1 ELSE epoch

\* Taking the lock and changing nothing else.
JustLock ==
  /\ map' = LockedMap
  /\ used' = LockedUsed
  /\ epoch' = LockedEpoch
  /\ mutex' = "sound"

\* LruCache::get moves the entry to the most recent position.
Touch(m, k) ==
  [j \in DOMAIN m |->
     [m[j] EXCEPT !.age = IF j = k THEN 0
                          ELSE IF @ < m[k].age THEN @ + 1 ELSE @]]

\* LruCache::put: insert or replace as most recent.
Insert(m, k, v, b) ==
  [j \in DOMAIN m \cup {k} |->
     IF j = k THEN [ver |-> v, bytes |-> b, age |-> 0]
     ELSE [m[j] EXCEPT !.age = IF k \in DOMAIN m /\ m[k].age < @ THEN @ ELSE @ + 1]]

BytesOf(m, S) == MapThenSumSet(LAMBDA j : m[j].bytes, S)

\* What the `while used_bytes > max_bytes { pop_lru }` loop removes: an entry
\* goes iff the budget is still exceeded once everything older has gone.
Popped(m, u) ==
  {k \in DOMAIN m :
     u - BytesOf(m, {j \in DOMAIN m : m[j].age > m[k].age}) > MaxBytes}

Keep(m, S) == [k \in DOMAIN m \ S |-> m[k]]

\* SqlResultCache::clear.
Clear ==
  /\ map' = EmptyMap
  /\ used' = 0
  /\ epoch' = LockedEpoch + 1
  /\ mutex' = "sound"

\* SqlResultCache::put_if_epoch.
PutIfEpoch(k, v, b, e) ==
  IF LockedEpoch # e \/ b > MaxBytes
  THEN JustLock
  ELSE LET put  == Insert(LockedMap, k, v, b)
           old  == IF k \in DOMAIN LockedMap THEN LockedMap[k].bytes ELSE 0
           held == LockedUsed - old + b
           gone == Popped(put, held)
       IN  /\ map' = Keep(put, gone)
           /\ used' = held - BytesOf(put, gone)
           /\ epoch' = LockedEpoch
           /\ mutex' = "sound"

-----------------------------------------------------------------------------
(* Index::cached_load, one step per mutex acquisition or database access.  *)

\* The call begins; NoKey when CacheKey::for_query cannot render the query.
StartLoad(l, k) ==
  /\ load[l].pc = "idle"
  /\ load' = [load EXCEPT ![l] = [pc |-> "start", key |-> k, epoch |-> 0,
                                 ver |-> 0, floor |-> acked]]
  /\ UNCHANGED <<db, cacheVars, mut, acked, late, clears>>

\* The `get` step: a hit answers, a miss goes on.
Lookup(l) ==
  /\ load[l].pc = "start"
  /\ LET k == load[l].key IN
     IF k = NoKey \/ MaxBytes = 0
     THEN /\ load' = [load EXCEPT ![l].pc = "miss"]
          /\ UNCHANGED cacheVars
     ELSE IF k \in DOMAIN LockedMap
     THEN /\ load' = [load EXCEPT ![l].pc = "done", ![l].ver = LockedMap[k].ver]
          /\ map' = Touch(LockedMap, k)
          /\ used' = LockedUsed
          /\ epoch' = LockedEpoch
          /\ mutex' = "sound"
     ELSE /\ load' = [load EXCEPT ![l].pc = "miss"]
          /\ JustLock
  /\ UNCHANGED <<db, mut, acked, late, clears>>

\* The epoch snapshot, before the database read.
SnapEpoch(l) ==
  /\ load[l].pc = "miss"
  /\ load' = [load EXCEPT ![l].pc = "snapped", ![l].epoch = LockedEpoch]
  /\ JustLock
  /\ UNCHANGED <<db, mut, acked, late, clears>>

\* The SELECT runs on a pool connection and sees what is committed now.
ReadRows(l) ==
  /\ load[l].pc = "snapped"
  /\ load' = [load EXCEPT ![l].pc = "read", ![l].ver = db]
  /\ UNCHANGED <<db, cacheVars, mut, acked, late, clears>>

\* Mutant of PutRows: a plain put, whatever happened since the snapshot.
PutRowsUnchecked(l) ==
  /\ load[l].pc = "read"
  /\ IF load[l].key = NoKey \/ MaxBytes = 0
     THEN UNCHANGED cacheVars
     ELSE \E b \in Sizes :
            PutIfEpoch(load[l].key, load[l].ver, b, LockedEpoch)
  /\ load' = [load EXCEPT ![l].pc = "done"]
  /\ UNCHANGED <<db, mut, acked, late, clears>>

\* Mutant of PutRows: queries without a key share an entry.
PutRowsAnyKey(l) ==
  /\ load[l].pc = "read"
  /\ \E b \in Sizes : PutIfEpoch(load[l].key, load[l].ver, b, load[l].epoch)
  /\ load' = [load EXCEPT ![l].pc = "done"]
  /\ UNCHANGED <<db, mut, acked, late, clears>>

\* The result is offered to the cache and returned.
PutRows(l) ==
  /\ load[l].pc = "read"
  /\ IF load[l].key = NoKey \/ MaxBytes = 0
     THEN UNCHANGED cacheVars
     ELSE \E b \in Sizes :
            PutIfEpoch(load[l].key, load[l].ver, b, load[l].epoch)
  /\ load' = [load EXCEPT ![l].pc = "done"]
  /\ UNCHANGED <<db, mut, acked, late, clears>>

\* The caller takes the result, the pool or the SELECT fails, or the query's
\* future is dropped at one of its awaits.
EndLoad(l) ==
  /\ load[l].pc \in {"snapped", "read", "done"}
  /\ load' = [load EXCEPT ![l] = NoLoad]
  /\ UNCHANGED <<db, cacheVars, mut, acked, late, clears>>

\* A holder panics after LruCache::put and before the accounting caught up:
\* the entry is in the map, used_bytes is off, the mutex is poisoned.
PanicInPut(l) ==
  /\ clears < MaxClears
  /\ load[l].pc = "read"
  /\ load[l].key # NoKey
  /\ MaxBytes > 0
  /\ LockedEpoch = load[l].epoch
  /\ \E b \in Sizes : /\ b <= MaxBytes
                      /\ map' = Insert(LockedMap, load[l].key, load[l].ver, b)
  /\ used' = LockedUsed
  /\ epoch' = LockedEpoch
  /\ mutex' = "poisoned"
  /\ load' = [load EXCEPT ![l] = NoLoad]
  /\ clears' = clears + 1
  /\ UNCHANGED <<db, mut, acked, late>>

-----------------------------------------------------------------------------
(* IndexStore mutation handlers: upload_index, upload_symbol_chunk,        *)
(* upload_object_chunk, finalize_project, delete_project (one transaction  *)
(* under the guard) and upload_contents (several auto-committed batches).  *)

\* The guard is armed before the first mutating await.
ArmGuard(m, kind) ==
  /\ clears < MaxClears
  /\ mut[m].pc = "idle"
  /\ mut' = [mut EXCEPT ![m] = [pc |-> "armed", kind |-> kind, vers |-> {}]]
  /\ clears' = clears + 1
  /\ UNCHANGED <<db, cacheVars, load, acked, late>>

\* COMMIT (or the next auto-committed batch) goes to the server.
SendCommit(m) ==
  /\ mut[m].pc = "armed"
  /\ mut[m].kind = "batches" \/ mut[m].vers = {}
  /\ mut' = [mut EXCEPT ![m].pc = "committing"]
  /\ UNCHANGED <<db, cacheVars, load, acked, late, clears>>

\* The server applies it: the new rows are visible, the guard still armed.
Commit(m) ==
  /\ mut[m].pc = "committing"
  /\ db < MaxVersion
  /\ db' = db + 1
  /\ mut' = [mut EXCEPT ![m].pc = "armed", ![m].vers = @ \cup {db + 1}]
  /\ UNCHANGED <<cacheVars, load, acked, late, clears>>

\* The server refuses it, or it changed no row a query can see.
CommitWithoutEffect(m) ==
  /\ mut[m].pc = "committing"
  /\ mut' = [mut EXCEPT ![m].pc = "armed"]
  /\ UNCHANGED <<db, cacheVars, load, acked, late, clears>>

\* Mutant of FinishMutation: no guard.
FinishWithoutClear(m) ==
  /\ mut[m].pc = "armed"
  /\ acked' = acked \cup mut[m].vers
  /\ mut' = [mut EXCEPT ![m] = NoMut]
  /\ UNCHANGED <<db, cacheVars, load, late, clears>>

\* The handler returns: the guard drops and clears, then the client is told.
FinishMutation(m) ==
  /\ mut[m].pc = "armed"
  /\ Clear
  /\ acked' = acked \cup mut[m].vers
  /\ mut' = [mut EXCEPT ![m] = NoMut]
  /\ UNCHANGED <<db, load, late, clears>>

\* Mutant of CancelMutation: a clear at the end of the handler, no guard.
CancelWithoutClear(m) ==
  /\ mut[m].pc = "armed"
  /\ mut' = [mut EXCEPT ![m] = NoMut]
  /\ UNCHANGED <<db, cacheVars, load, acked, late, clears>>

\* The client disconnects while no commit is in flight: the future is
\* dropped, and the guard with it.
CancelMutation(m) ==
  /\ mut[m].pc = "armed"
  /\ Clear
  /\ mut' = [mut EXCEPT ![m] = NoMut]
  /\ UNCHANGED <<db, load, acked, late, clears>>

\* The client disconnects while a commit is in flight: the guard clears the
\* cache now, the server may still apply the commit (the window documented
\* on ClearOnDrop).
CancelInFlight(m) ==
  /\ mut[m].pc = "committing"
  /\ Clear
  /\ mut' = [mut EXCEPT ![m] = [pc |-> "orphan", kind |-> "txn", vers |-> {}]]
  /\ UNCHANGED <<db, load, acked, late, clears>>

OrphanCommits(m) ==
  /\ mut[m].pc = "orphan"
  /\ db < MaxVersion
  /\ db' = db + 1
  /\ late' = late \cup {db + 1}
  /\ mut' = [mut EXCEPT ![m] = NoMut]
  /\ UNCHANGED <<cacheVars, load, acked, clears>>

OrphanRollsBack(m) ==
  /\ mut[m].pc = "orphan"
  /\ mut' = [mut EXCEPT ![m] = NoMut]
  /\ UNCHANGED <<db, cacheVars, load, acked, late, clears>>

\* The loopback admin endpoint: IndexStore::clear_caches.
AdminClear ==
  /\ clears < MaxClears
  /\ Clear
  /\ clears' = clears + 1
  /\ UNCHANGED <<db, load, mut, acked, late>>

-----------------------------------------------------------------------------
Next ==
  \/ \E l \in Loaders :
       \/ \E k \in Keys \cup {NoKey} : StartLoad(l, k)
       \/ Lookup(l)
       \/ SnapEpoch(l)
       \/ ReadRows(l)
       \/ PutRows(l)
       \/ EndLoad(l)
       \/ PanicInPut(l)
  \/ \E m \in Mutators :
       \/ \E kind \in MutKinds : ArmGuard(m, kind)
       \/ SendCommit(m)
       \/ Commit(m)
       \/ CommitWithoutEffect(m)
       \/ FinishMutation(m)
       \/ CancelMutation(m)
       \/ CancelInFlight(m)
       \/ OrphanCommits(m)
       \/ OrphanRollsBack(m)
  \/ AdminClear

Spec == Init /\ [][Next]_vars
-----------------------------------------------------------------------------
(* Properties.                                                             *)

\* Every variable keeps its type: an entry of `map` carries the version, weight
\* and recency that put_if_epoch stored, a handler only versions that it
\* committed.  `used` is left to Accounting, which pins its value exactly.
TypeOK ==
  /\ db \in 0 .. MaxVersion
  /\ DOMAIN map \subseteq Keys
  /\ map \in [DOMAIN map -> [ver : 0 .. db, bytes : Sizes, age : Nat]]
  /\ epoch \in Nat
  /\ mutex \in {"sound", "poisoned"}
  /\ load \in [Loaders -> [pc : LoadPcs, key : Keys \cup {NoKey}, epoch : Nat,
                            ver : 0 .. db, floor : SUBSET (1 .. db)]]
  /\ mut \in [Mutators -> [pc : MutPcs, kind : MutKinds, vers : SUBSET (1 .. db)]]
  /\ acked \in SUBSET (1 .. db)
  /\ late \in SUBSET (1 .. db)
  /\ clears \in 0 .. MaxClears

\* Every commit newer than v either still has its guard armed, so that a clear
\* is certain to come, or slipped through the window ClearOnDrop documents.
Covered(v) ==
  \A w \in v + 1 .. db : w \in late \/ \E m \in Mutators : w \in mut[m].vers

\* No cached result outlives the clear of a mutation it does not reflect: an
\* entry of the cache, and a result on its way into the cache under the
\* current epoch, misses only commits whose clear is still to come.  This is
\* what the epoch check of put_if_epoch and the ClearOnDrop guards achieve
\* together, for loads and handlers interleaved in any order.
Coherent ==
  /\ \A k \in DOMAIN map : Covered(map[k].ver)
  /\ \A l \in Loaders :
       load[l].pc = "read" /\ load[l].epoch = epoch => Covered(load[l].ver)

\* A cached_load that starts after a mutation handler returned to its client
\* answers with rows at least as new as that mutation, hit or miss, whatever
\* else is in flight.
ReadYourWrites ==
  \A l \in Loaders :
    load[l].pc = "done" => \A w \in load[l].floor : w <= load[l].ver

\* used_bytes is exactly the weight of what the map holds and never exceeds the
\* budget, across replacement, eviction, clear and poison recovery (the usize
\* subtractions of put_if_epoch cannot underflow); recency ranks are 0..n-1.
Accounting ==
  mutex = "sound" =>
    /\ used = BytesOf(map, DOMAIN map)
    /\ used <= MaxBytes
    /\ {map[k].age : k \in DOMAIN map} = 0 .. Cardinality(DOMAIN map) - 1

Stale(k) == mutex = "sound" /\ k \in DOMAIN map /\ map[k].ver < db

\* A stale entry does not stay: the handler whose commit it misses returns or is
\* dropped, and its guard clears the cache.  (Entries can only stay stale
\* through the documented window, once `late` is non-empty.)
StaleIsTransient ==
  \A k \in Keys : (Stale(k) /\ late = {}) ~> (~Stale(k) \/ late # {})

\* Handlers run: a commit in flight is answered or its handler dropped, and a
\* handler is not held forever between its (finitely many) commits.
Fairness ==
  \A m \in Mutators :
    /\ WF_vars(Commit(m) \/ CommitWithoutEffect(m) \/ CancelInFlight(m))
    /\ SF_vars(FinishMutation(m) \/ CancelMutation(m))

FairSpec == Spec /\ Fairness

\* The cache is invisible: seen through the loads' answers, the system is the
\* cache-free one of IndexReads.
AbstractRead(l) ==
  [st |-> CASE load[l].pc = "idle" -> "idle"
            [] load[l].pc = "done" -> "done"
            [] OTHER -> "pending",
   floor |-> load[l].floor,
   ver |-> IF load[l].pc = "done" THEN load[l].ver ELSE 0]

Reads == INSTANCE IndexReads WITH read <- [l \in Loaders |-> AbstractRead(l)]

\* Every behaviour of cache, loads and handlers is a behaviour of IndexReads:
\* adding the cache to the read path changes no answer a client may rely on.
CacheIsTransparent == Reads!Spec

=============================================================================
