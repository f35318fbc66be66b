--------------------------- MODULE SqlCacheProofs ---------------------------
(***************************************************************************)
(* SqlCache proved for every number of loaders, handlers, keys, sizes and  *)
(* any budget: type correctness, coherence, read-your-writes, the account  *)
(* of used_bytes, and that the cached system implements the cache-free one *)
(* of IndexReads.                                                          *)
(***************************************************************************)
EXTENDS SqlCache, OrderLemmas, TLAPS

-----------------------------------------------------------------------------
(* The map operators keep entries; only ages move.                         *)

Entries == [ver : 0 .. db, bytes : Sizes, age : Nat]
IsMap(m) == DOMAIN m \subseteq Keys /\ m \in [DOMAIN m -> Entries]

\* What LruCache::get does to the map: same keys, same versions.
LEMMA TouchMap ==
  ASSUME NEW m, IsMap(m), NEW k \in DOMAIN m
  PROVE  /\ IsMap(Touch(m, k))
         /\ DOMAIN Touch(m, k) = DOMAIN m
         /\ \A j \in DOMAIN m : Touch(m, k)[j].ver = m[j].ver
BY DEF IsMap, Entries, Touch

\* What LruCache::put does to the map: one entry replaced or added.
LEMMA InsertMap ==
  ASSUME NEW m, IsMap(m), NEW k \in Keys, NEW v \in 0 .. db, NEW b \in Sizes
  PROVE  /\ IsMap(Insert(m, k, v, b))
         /\ DOMAIN Insert(m, k, v, b) = DOMAIN m \cup {k}
         /\ Insert(m, k, v, b)[k].ver = v
         /\ \A j \in DOMAIN m \ {k} : Insert(m, k, v, b)[j].ver = m[j].ver
BY DEF IsMap, Entries, Insert

\* Eviction only removes entries.
LEMMA KeepMap ==
  ASSUME NEW m, IsMap(m), NEW S
  PROVE  /\ IsMap(Keep(m, S))
         /\ DOMAIN Keep(m, S) \subseteq DOMAIN m
         /\ \A j \in DOMAIN Keep(m, S) : Keep(m, S)[j] = m[j]
BY DEF IsMap, Keep

\* The map after poison recovery is a map, and the one before if not poisoned.
LEMMA LockedIsMap ==
  ASSUME TypeOK
  PROVE  /\ IsMap(LockedMap)
         /\ DOMAIN LockedMap \subseteq DOMAIN map
         /\ \A k \in DOMAIN LockedMap : LockedMap[k] = map[k]
         /\ LockedEpoch \in Nat
BY DEF TypeOK, IsMap, Entries, LockedMap, LockedEpoch, EmptyMap

\* A put stores at most the new result besides what was there.
LEMMA PutMap ==
  ASSUME TypeOK, NEW k \in Keys, NEW v \in 0 .. db, NEW b \in Sizes, NEW e \in Nat,
         PutIfEpoch(k, v, b, e)
  PROVE  /\ DOMAIN map' \subseteq Keys
         /\ map' \in [DOMAIN map' -> Entries]
         /\ \A j \in DOMAIN map' :
              \/ j \in DOMAIN map /\ map'[j].ver = map[j].ver
              \/ LockedEpoch = e /\ map'[j].ver = v
         /\ epoch' = LockedEpoch
         /\ mutex' = "sound"
<1> DEFINE put == Insert(LockedMap, k, v, b)
<1>1. IsMap(LockedMap) /\ DOMAIN LockedMap \subseteq DOMAIN map
        /\ \A j \in DOMAIN LockedMap : LockedMap[j] = map[j]
  BY LockedIsMap
<1>2. CASE LockedEpoch # e \/ b > MaxBytes
  BY <1>1, <1>2 DEF PutIfEpoch, JustLock, IsMap
<1>3. CASE ~(LockedEpoch # e \/ b > MaxBytes)
  <2>1. /\ IsMap(put)
        /\ DOMAIN put = DOMAIN LockedMap \cup {k}
        /\ put[k].ver = v
        /\ \A j \in DOMAIN LockedMap \ {k} : put[j].ver = LockedMap[j].ver
    <3> DEFINE m == LockedMap
    <3>1. IsMap(m)
      BY <1>1
    <3> HIDE DEF m
    <3>2. LET t == Insert(m, k, v, b)
          IN  /\ IsMap(t) /\ DOMAIN t = DOMAIN m \cup {k} /\ t[k].ver = v
              /\ \A j \in DOMAIN m \ {k} : t[j].ver = m[j].ver
      BY <3>1 DEF IsMap, Entries, Insert
    <3> QED BY <3>2 DEF m
  <2>2. PICK S : map' = Keep(put, S)
    BY <1>3 DEF PutIfEpoch
  <2>3. /\ IsMap(map')
        /\ DOMAIN map' \subseteq DOMAIN put
        /\ \A j \in DOMAIN map' : map'[j] = put[j]
    BY <2>1, <2>2, KeepMap
  <2>4. epoch' = LockedEpoch /\ mutex' = "sound"
    BY <1>3 DEF PutIfEpoch
  <2> HIDE DEF put
  <2>5. ASSUME NEW j \in DOMAIN map'
        PROVE  \/ j \in DOMAIN map /\ map'[j].ver = map[j].ver
               \/ LockedEpoch = e /\ map'[j].ver = v
    <3>1. CASE j = k
      BY <1>3, <2>1, <2>3, <3>1
    <3>2. CASE j # k
      BY <1>1, <2>1, <2>3, <3>2
    <3> QED BY <3>1, <3>2
  <2> QED BY <2>3, <2>4, <2>5 DEF IsMap
<1> QED BY <1>2, <1>3
-----------------------------------------------------------------------------
(* The inductive invariant.                                                *)

\* Every version has one owner: the handler whose guard is still armed, the
\* clients that were told, or the window; a handler without an armed guard owns
\* none.
Versions ==
  /\ \A m \in Mutators :
       /\ mut[m].pc \in {"idle", "orphan"} => mut[m].vers = {}
       /\ mut[m].vers \cap late = {}
       /\ mut[m].vers \cap acked = {}
  /\ \A m, n \in Mutators : m # n => mut[m].vers \cap mut[n].vers = {}
  /\ late \cap acked = {}

\* A load only relies on acknowledged versions, rows read after it started are
\* no older than those, and it never holds an epoch from the future.
Floors ==
  \A l \in Loaders :
    /\ load[l].epoch <= epoch
    /\ load[l].floor \subseteq acked
    /\ load[l].pc \in {"read", "done"} => \A w \in load[l].floor : w <= load[l].ver

IInv == TypeOK /\ Versions /\ Coherent /\ Floors

\* A result that misses only covered commits reflects every acknowledged one:
\* why a hit may be served.
LEMMA CoveredIsFresh ==
  ASSUME TypeOK, Versions, NEW v \in 0 .. db, Covered(v)
  PROVE  \A w \in acked : w <= v
<1> SUFFICES ASSUME NEW w \in acked, ~(w <= v) PROVE FALSE
  OBVIOUS
<1>1. w \in v + 1 .. db
  BY CacheAssumption DEF TypeOK
<1>2. w \in late \/ \E m \in Mutators : w \in mut[m].vers
  BY <1>1 DEF Covered
<1> QED
  BY <1>2 DEF Versions

\* Rows read now miss nothing.
LEMMA NowIsCovered == ASSUME TypeOK PROVE Covered(db)
BY CacheAssumption DEF Covered, TypeOK

\* The empty cache with no load and no handler satisfies the invariant.
LEMMA InitInv == Init => IInv
<1> SUFFICES ASSUME Init PROVE IInv
  OBVIOUS
<1> USE DEF Init, NoLoad, NoMut, EmptyMap
<1>1. TypeOK
  BY CacheAssumption DEF TypeOK, LoadPcs, MutPcs, MutKinds
<1>2. Versions /\ Floors
  BY DEF Versions, Floors
<1>3. Coherent
  BY DEF Coherent
<1> QED BY <1>1, <1>2, <1>3 DEF IInv

-----------------------------------------------------------------------------
(* Steps of a load: no version changes hands, one load moves, and the      *)
(* cache keeps known entries or gains a covered one.                       *)

LoadRec == [pc : LoadPcs, key : Keys \cup {NoKey}, epoch : Nat, ver : 0 .. db,
            floor : SUBSET (1 .. db)]

\* The cache and epoch part of a load's step that coherence tolerates.
LoadCacheStep ==
  /\ DOMAIN map' \subseteq Keys
  /\ map' \in [DOMAIN map' -> Entries]
  /\ \A k \in DOMAIN map' :
       (k \in DOMAIN map /\ map'[k].ver = map[k].ver) \/ Covered(map'[k].ver)
  /\ epoch' \in Nat
  /\ epoch <= epoch'
  /\ mutex' \in {"sound", "poisoned"}

\* Load l moves to r.
LoadMove(l, r) ==
  /\ load' = [load EXCEPT ![l] = r]
  /\ r \in LoadRec
  /\ r.epoch <= epoch'
  /\ r.floor \subseteq acked
  /\ r.pc \in {"read", "done"} => \A w \in r.floor : w <= r.ver
  /\ r.pc = "read" => Covered(r.ver)
  /\ clears' \in 0 .. MaxClears
  /\ UNCHANGED <<db, mut, acked, late>>

\* A step of one load that only shrinks the cache, or adds a covered result
\* to it, keeps the invariant if the new load record does.
LEMMA LoadStep ==
  ASSUME IInv, LoadCacheStep, NEW l \in Loaders, NEW r, LoadMove(l, r)
  PROVE  IInv'
<1> USE DEF LoadCacheStep, LoadMove
<1>1. TypeOK'
  BY DEF IInv, TypeOK, Entries, LoadRec
<1>2. Versions'
  BY DEF IInv, Versions
<1>3. Coherent'
  <2>1. \A k \in DOMAIN map' : Covered(map[k].ver)'
    BY DEF IInv, Coherent, Covered
  <2>2. ASSUME NEW j \in Loaders, load'[j].pc = "read", load'[j].epoch = epoch'
        PROVE  Covered(load[j].ver)'
    <3>1. CASE j = l
      BY <2>2, <3>1 DEF IInv, TypeOK, Covered
    <3>2. CASE j # l
      <4>1. load'[j] = load[j]
        BY <3>2 DEF IInv, TypeOK
      <4>2. load[j].epoch <= epoch /\ load[j].epoch \in Nat /\ epoch \in Nat
        BY DEF IInv, Floors, TypeOK
      <4>3. epoch' = epoch
        BY <2>2, <4>1, <4>2
      <4> QED
        BY <2>2, <4>1, <4>3 DEF IInv, Coherent, Covered
    <3> QED BY <3>1, <3>2
  <2> QED BY <2>1, <2>2 DEF Coherent
<1>4. Floors'
  BY DEF IInv, Floors, TypeOK, LoadRec
<1> QED BY <1>1, <1>2, <1>3, <1>4 DEF IInv

\* A step that does not touch the cache is a cache step of a load.
LEMMA IdleCache ==
  ASSUME IInv, UNCHANGED cacheVars PROVE LoadCacheStep
BY DEF IInv, TypeOK, Entries, cacheVars, LoadCacheStep

\* Taking the mutex, with or without poison recovery, is a cache step of a
\* load, and leaves the epoch that the holder saw.
LEMMA JustLockCache ==
  ASSUME IInv, JustLock PROVE LoadCacheStep /\ epoch' = LockedEpoch
BY LockedIsMap DEF IInv, TypeOK, JustLock, IsMap, LoadCacheStep, LockedEpoch

\* A load begins: its floor is what has been acknowledged so far.
LEMMA StartLoadInv ==
  ASSUME IInv, NEW l \in Loaders, NEW k \in Keys \cup {NoKey}, StartLoad(l, k)
  PROVE  IInv'
<1> DEFINE r == [pc |-> "start", key |-> k, epoch |-> 0, ver |-> 0, floor |-> acked]
<1>1. r \in LoadRec
  BY DEF IInv, TypeOK, LoadRec, LoadPcs
<1>2. LoadCacheStep
  BY IdleCache DEF StartLoad
<1>3. LoadMove(l, r)
  BY <1>1, <1>2 DEF StartLoad, LoadMove, LoadCacheStep, IInv, TypeOK
<1> QED
  BY <1>2, <1>3, LoadStep

\* The get of cached_load: a hit answers with a covered version.
LEMMA LookupInv ==
  ASSUME IInv, NEW l \in Loaders, Lookup(l)
  PROVE  IInv'
<1> DEFINE k == load[l].key
           miss == [load[l] EXCEPT !.pc = "miss"]
           hit == [load[l] EXCEPT !.pc = "done", !.ver = LockedMap[k].ver]
<1>1. load[l] \in LoadRec /\ load[l].floor \subseteq acked /\ load[l].epoch <= epoch
  BY DEF IInv, TypeOK, LoadRec, Floors
<1>2. miss \in LoadRec /\ miss.floor = load[l].floor /\ miss.epoch = load[l].epoch
        /\ miss.pc = "miss"
  BY <1>1 DEF LoadRec, LoadPcs
<1>3. CASE load' = [load EXCEPT ![l] = miss] /\ LoadCacheStep
  <2>1. LoadMove(l, miss)
    BY <1>1, <1>2, <1>3 DEF Lookup, LoadMove, LoadCacheStep, LoadRec, IInv, TypeOK
  <2> QED
    BY <1>3, <2>1, LoadStep
<1>4. CASE k \in DOMAIN LockedMap /\ load' = [load EXCEPT ![l] = hit]
            /\ map' = Touch(LockedMap, k) /\ epoch' = LockedEpoch /\ mutex' = "sound"
  <2>1. k \in DOMAIN map /\ LockedMap[k] = map[k] /\ map[k].ver \in 0 .. db
    BY <1>4, LockedIsMap DEF IInv, TypeOK
  <2>2. \A w \in acked : w <= map[k].ver
    BY <2>1, CoveredIsFresh DEF IInv, Coherent
  <2>3. hit \in LoadRec /\ hit.floor = load[l].floor /\ hit.ver = map[k].ver
          /\ hit.epoch = load[l].epoch /\ hit.pc = "done"
    BY <1>1, <2>1 DEF LoadRec, LoadPcs
  <2>4. LoadCacheStep
    <3>1. IsMap(LockedMap) /\ DOMAIN LockedMap \subseteq DOMAIN map
            /\ \A j \in DOMAIN LockedMap : LockedMap[j] = map[j]
      BY LockedIsMap DEF IInv
    <3>2. IsMap(map') /\ DOMAIN map' = DOMAIN LockedMap
            /\ \A j \in DOMAIN LockedMap : map'[j].ver = LockedMap[j].ver
      BY <1>4, <3>1, TouchMap, ZenonT(30)
    <3> QED
      BY <1>4, <3>1, <3>2 DEF LoadCacheStep, IInv, TypeOK, IsMap, LockedEpoch
  <2>5. LoadMove(l, hit)
    <3> HIDE DEF hit
    <3> QED
      BY <1>1, <1>4, <2>2, <2>3, <2>4
      DEF Lookup, LoadMove, LoadCacheStep, LoadRec, IInv, TypeOK
  <2> QED
    BY <2>4, <2>5, LoadStep
<1> QED
  BY <1>3, <1>4, IdleCache, JustLockCache DEF Lookup

\* The epoch snapshot of cached_load keeps the invariant.
LEMMA SnapEpochInv ==
  ASSUME IInv, NEW l \in Loaders, SnapEpoch(l)
  PROVE  IInv'
<1> DEFINE r == [load[l] EXCEPT !.pc = "snapped", !.epoch = LockedEpoch]
<1>1. LoadCacheStep /\ epoch' = LockedEpoch
  BY JustLockCache DEF SnapEpoch
<1>2. load[l] \in LoadRec /\ load[l].floor \subseteq acked /\ LockedEpoch \in Nat
  BY LockedIsMap DEF IInv, TypeOK, LoadRec, Floors
<1>3. r \in LoadRec /\ r.floor = load[l].floor /\ r.epoch = LockedEpoch
        /\ r.pc = "snapped"
  BY <1>2 DEF LoadRec, LoadPcs
<1>4. LoadMove(l, r)
  <2>1. LockedEpoch <= epoch'
    BY <1>1, <1>2
  <2>2. load' = [load EXCEPT ![l] = r]
    BY DEF SnapEpoch
  <2> HIDE DEF r
  <2> QED
    BY <1>1, <1>2, <1>3, <2>1, <2>2 DEF SnapEpoch, LoadMove, IInv, TypeOK
<1> QED
  BY <1>1, <1>4, LoadStep

\* The SELECT sees the newest version, which nothing is missing from.
LEMMA ReadRowsInv ==
  ASSUME IInv, NEW l \in Loaders, ReadRows(l)
  PROVE  IInv'
<1> DEFINE r == [load[l] EXCEPT !.pc = "read", !.ver = db]
<1>1. LoadCacheStep /\ epoch' = epoch
  BY IdleCache DEF ReadRows, cacheVars
<1>2. load[l] \in LoadRec /\ load[l].floor \subseteq acked /\ load[l].epoch <= epoch
        /\ db \in 0 .. db /\ db \in Nat /\ acked \subseteq 1 .. db
  BY CacheAssumption DEF IInv, TypeOK, LoadRec, Floors
<1>3. r \in LoadRec /\ r.floor = load[l].floor /\ r.epoch = load[l].epoch
        /\ r.pc = "read" /\ r.ver = db
  BY <1>2 DEF LoadRec, LoadPcs
<1>4. Covered(db)
  BY NowIsCovered DEF IInv
<1>5. LoadMove(l, r)
  <2> HIDE DEF r
  <2>1. load' = [load EXCEPT ![l] = r]
    BY DEF ReadRows, r
  <2>2. ASSUME NEW w \in load[l].floor PROVE w <= db
    <3>1. w \in 1 .. db
      BY <1>2, Zenon
    <3>2. db \in Nat
      BY <1>2
    <3> QED BY <3>1, <3>2
  <2>3. ASSUME NEW w \in r.floor PROVE w <= r.ver
    <3>1. w \in load[l].floor
      BY <1>3, Zenon
    <3>2. w <= db
      BY <2>2, <3>1, Zenon
    <3>3. db = r.ver
      BY <1>3, Zenon
    <3> QED BY <3>2, <3>3, Zenon
  <2> QED
    BY <1>1, <1>2, <1>3, <1>4, <2>1, <2>3 DEF ReadRows, LoadMove, IInv, TypeOK
<1> QED
  BY <1>1, <1>5, LoadStep

\* put_if_epoch stores a result only under the epoch it was read in, when it
\* is still covered.
LEMMA PutRowsInv ==
  ASSUME IInv, NEW l \in Loaders, PutRows(l)
  PROVE  IInv'
<1> DEFINE r == [load[l] EXCEPT !.pc = "done"]
<1>1. load[l] \in LoadRec /\ load[l].floor \subseteq acked /\ load[l].epoch <= epoch
        /\ \A w \in load[l].floor : w <= load[l].ver
  BY DEF IInv, TypeOK, LoadRec, Floors, PutRows
<1>2. r \in LoadRec /\ r.floor = load[l].floor /\ r.epoch = load[l].epoch
        /\ r.pc = "done" /\ r.ver = load[l].ver
  BY <1>1 DEF LoadRec, LoadPcs
<1>3. LoadCacheStep
  <2>1. CASE UNCHANGED cacheVars
    BY <2>1, IdleCache
  <2>2. CASE ~(load[l].key = NoKey \/ MaxBytes = 0)
    <3>1. PICK b \in Sizes : PutIfEpoch(load[l].key, load[l].ver, b, load[l].epoch)
      BY <2>2 DEF PutRows
    <3>2. load[l].key \in Keys /\ load[l].ver \in 0 .. db /\ load[l].epoch \in Nat
      BY <1>1, <2>2 DEF LoadRec
    <3>3. /\ DOMAIN map' \subseteq Keys
          /\ map' \in [DOMAIN map' -> Entries]
          /\ \A j \in DOMAIN map' :
               \/ j \in DOMAIN map /\ map'[j].ver = map[j].ver
               \/ LockedEpoch = load[l].epoch /\ map'[j].ver = load[l].ver
          /\ epoch' = LockedEpoch
          /\ mutex' = "sound"
      BY <3>1, <3>2, PutMap DEF IInv
    <3>4. LockedEpoch = load[l].epoch => Covered(load[l].ver)
      <4>1. LockedEpoch = load[l].epoch => load[l].epoch = epoch
        BY <1>1, <3>2 DEF LockedEpoch, IInv, TypeOK
      <4> QED BY <4>1 DEF IInv, Coherent, PutRows
    <3>5. LockedEpoch \in Nat /\ epoch <= LockedEpoch
      BY DEF LockedEpoch, IInv, TypeOK
    <3> QED
      BY <3>3, <3>4, <3>5 DEF LoadCacheStep
  <2> QED
    BY <2>1, <2>2 DEF PutRows
<1>4. LoadMove(l, r)
  <2>1. epoch <= epoch' /\ epoch' \in Nat /\ epoch \in Nat
    BY <1>3 DEF LoadCacheStep, IInv, TypeOK
  <2>2. r.epoch <= epoch'
    BY <1>1, <1>2, <2>1 DEF LoadRec
  <2>3. load' = [load EXCEPT ![l] = r]
    BY DEF PutRows
  <2> HIDE DEF r
  <2> QED
    BY <1>1, <1>2, <2>2, <2>3 DEF PutRows, LoadMove, IInv, TypeOK
<1> QED
  BY <1>3, <1>4, LoadStep

\* A load that ends or is dropped keeps the invariant.
LEMMA EndLoadInv ==
  ASSUME IInv, NEW l \in Loaders, EndLoad(l)
  PROVE  IInv'
<1>1. LoadCacheStep /\ epoch' = epoch
  BY IdleCache DEF EndLoad, cacheVars
<1>2. NoLoad \in LoadRec /\ NoLoad.floor = {} /\ NoLoad.epoch = 0 /\ NoLoad.pc = "idle"
  BY CacheAssumption DEF IInv, TypeOK, LoadRec, NoLoad, LoadPcs
<1>3. LoadMove(l, NoLoad)
  BY <1>1, <1>2 DEF EndLoad, LoadMove, IInv, TypeOK
<1> QED
  BY <1>1, <1>3, LoadStep

\* A panic inside put_if_epoch leaves a covered entry and a poisoned mutex.
LEMMA PanicInPutInv ==
  ASSUME IInv, NEW l \in Loaders, PanicInPut(l)
  PROVE  IInv'
<1>1. NoLoad \in LoadRec /\ NoLoad.floor = {} /\ NoLoad.epoch = 0 /\ NoLoad.pc = "idle"
  BY CacheAssumption DEF IInv, TypeOK, LoadRec, NoLoad, LoadPcs
<1>2. LoadCacheStep
  <2>1. PICK b \in Sizes : map' = Insert(LockedMap, load[l].key, load[l].ver, b)
    BY DEF PanicInPut
  <2>2. load[l].key \in Keys /\ load[l].ver \in 0 .. db /\ load[l].epoch \in Nat
          /\ load[l].epoch <= epoch
    BY DEF PanicInPut, IInv, TypeOK, Floors
  <2>3. PICK k \in Keys, v \in 0 .. db : k = load[l].key /\ v = load[l].ver
    BY <2>2
  <2>4. IsMap(LockedMap) /\ DOMAIN LockedMap \subseteq DOMAIN map
          /\ \A j \in DOMAIN LockedMap : LockedMap[j] = map[j]
    BY LockedIsMap DEF IInv
  <2> DEFINE put == Insert(LockedMap, k, v, b)
  <2>8. /\ IsMap(put)
        /\ DOMAIN put = DOMAIN LockedMap \cup {k}
        /\ put[k].ver = v
        /\ \A j \in DOMAIN LockedMap \ {k} : put[j].ver = LockedMap[j].ver
    <3> DEFINE m == LockedMap
    <3>1. IsMap(m)
      BY <2>4
    <3> HIDE DEF m
    <3>2. LET t == Insert(m, k, v, b)
          IN  /\ IsMap(t) /\ DOMAIN t = DOMAIN m \cup {k} /\ t[k].ver = v
              /\ \A j \in DOMAIN m \ {k} : t[j].ver = m[j].ver
      BY <3>1 DEF IsMap, Entries, Insert
    <3> QED BY <3>2 DEF m
  <2>9. map' = put
    BY <2>1, <2>3
  <2> HIDE DEF put
  <2>5. Covered(load[l].ver)
    <3>1. load[l].epoch = epoch
      BY <2>2 DEF PanicInPut, LockedEpoch, IInv, TypeOK
    <3> QED BY <3>1 DEF PanicInPut, IInv, Coherent
  <2>6. epoch' \in Nat /\ epoch <= epoch' /\ mutex' \in {"sound", "poisoned"}
    BY DEF PanicInPut, LockedEpoch, IInv, TypeOK
  <2>7. \A j \in DOMAIN map' :
          (j \in DOMAIN map /\ map'[j].ver = map[j].ver) \/ Covered(map'[j].ver)
    BY <2>3, <2>4, <2>5, <2>8, <2>9
  <2> QED
    BY <2>6, <2>7, <2>8, <2>9 DEF LoadCacheStep, IsMap
<1>3. LoadMove(l, NoLoad)
  <2>1. epoch' \in Nat
    BY <1>2 DEF LoadCacheStep
  <2> QED
    BY <1>1, <2>1, CacheAssumption DEF PanicInPut, LoadMove, IInv, TypeOK
<1> QED
  BY <1>2, <1>3, LoadStep

-----------------------------------------------------------------------------
(* Steps of a handler, and the admin clear.                                *)

\* A clear ends every obligation: the map is empty and no load holds the new
\* epoch.
LEMMA ClearedIsCoherent ==
  ASSUME IInv, Clear, UNCHANGED load
  PROVE  Coherent' /\ epoch' \in Nat /\ epoch < epoch' /\ mutex' = "sound"
           /\ DOMAIN map' \subseteq Keys /\ DOMAIN map' = {}
<1>1. epoch' \in Nat /\ epoch < epoch' /\ mutex' = "sound" /\ DOMAIN map' = {}
  BY DEF Clear, LockedEpoch, EmptyMap, IInv, TypeOK
<1>2. \A l \in Loaders : load'[l].epoch # epoch'
  BY <1>1 DEF IInv, TypeOK, Floors
<1> QED
  BY <1>1, <1>2 DEF Coherent

\* Arming a ClearOnDrop guard keeps the invariant: nothing is committed yet.
LEMMA ArmGuardInv ==
  ASSUME IInv, NEW m \in Mutators, NEW kind \in MutKinds, ArmGuard(m, kind)
  PROVE  IInv'
<1> USE DEF ArmGuard, cacheVars, IInv
<1>1. TypeOK'
  BY CacheAssumption DEF TypeOK, MutPcs
<1>2. Versions'
  BY DEF Versions, TypeOK
<1>3. Coherent'
  <2>1. \A n \in Mutators : mut'[n].vers = mut[n].vers
    BY DEF Versions, TypeOK
  <2> QED BY <2>1 DEF Coherent, Covered
<1>4. Floors'
  BY DEF Floors
<1> QED BY <1>1, <1>2, <1>3, <1>4

\* COMMIT sent, or answered without effect: only the handler's pc moves.
LEMMA PcStepInv ==
  ASSUME IInv, NEW m \in Mutators,
         SendCommit(m) \/ CommitWithoutEffect(m) \/ OrphanRollsBack(m)
  PROVE  IInv'
<1> USE DEF SendCommit, CommitWithoutEffect, OrphanRollsBack, NoMut, cacheVars, IInv
<1>1. TypeOK'
  <2>1. PICK r \in [pc : MutPcs, kind : MutKinds, vers : SUBSET (1 .. db)] :
          mut' = [mut EXCEPT ![m] = r]
    <3>1. mut[m] \in [pc : MutPcs, kind : MutKinds, vers : SUBSET (1 .. db)]
      BY DEF TypeOK
    <3>2. CASE SendCommit(m)
      BY <3>1, <3>2 DEF MutPcs
    <3>3. CASE CommitWithoutEffect(m)
      BY <3>1, <3>3 DEF MutPcs
    <3>4. CASE OrphanRollsBack(m)
      BY <3>4 DEF MutPcs, MutKinds
    <3> QED BY <3>2, <3>3, <3>4
  <2>2. UNCHANGED <<db, map, epoch, mutex, load, acked, late, clears>>
    OBVIOUS
  <2> QED BY <2>1, <2>2 DEF TypeOK
<1>2. ASSUME NEW n \in Mutators PROVE mut'[n].vers = mut[n].vers
  <2>1. CASE n # m
    BY <2>1 DEF TypeOK
  <2>2. CASE n = m
    <3>1. CASE OrphanRollsBack(m)
      BY <2>2, <3>1 DEF Versions, TypeOK
    <3>2. CASE SendCommit(m) \/ CommitWithoutEffect(m)
      BY <2>2, <3>2 DEF TypeOK
    <3> QED BY <3>1, <3>2
  <2> QED BY <2>1, <2>2
<1>3. Versions'
  BY <1>2 DEF Versions, TypeOK
<1>4. Coherent'
  BY <1>2 DEF Coherent, Covered
<1>5. Floors'
  BY DEF Floors
<1> QED BY <1>1, <1>3, <1>4, <1>5

\* The new version belongs to the handler that committed it, or to the window.
LEMMA CommitInv ==
  ASSUME IInv, NEW m \in Mutators, Commit(m) \/ OrphanCommits(m)
  PROVE  IInv'
<1>0. db \in Nat /\ db < MaxVersion /\ db' = db + 1 /\ 0 .. db \subseteq 0 .. db'
        /\ 1 .. db \subseteq 1 .. db' /\ db + 1 \in 1 .. db' /\ db + 1 \notin 1 .. db
        /\ db' \in 0 .. MaxVersion
  BY CacheAssumption DEF IInv, TypeOK, Commit, OrphanCommits
<1>1. TypeOK'
  <2>1. mut' \in [Mutators -> [pc : MutPcs, kind : MutKinds, vers : SUBSET (1 .. db')]]
    <3>1. mut \in [Mutators -> [pc : MutPcs, kind : MutKinds, vers : SUBSET (1 .. db')]]
      BY <1>0 DEF IInv, TypeOK
    <3>2. mut[m].vers \cup {db + 1} \in SUBSET (1 .. db')
      BY <1>0, <3>1
    <3>3. CASE Commit(m)
      <4>1. [mut[m] EXCEPT !.pc = "armed", !.vers = @ \cup {db + 1}]
              \in [pc : MutPcs, kind : MutKinds, vers : SUBSET (1 .. db')]
        BY <3>1, <3>2 DEF MutPcs
      <4>2. mut' = [mut EXCEPT ![m] = [mut[m] EXCEPT !.pc = "armed", !.vers = @ \cup {db + 1}]]
        BY <3>3 DEF Commit
      <4> QED BY <3>1, <4>1, <4>2
    <3>4. CASE OrphanCommits(m)
      BY <3>1, <3>4 DEF OrphanCommits, NoMut, MutPcs, MutKinds
    <3> QED BY <3>3, <3>4
  <2>2. late' \in SUBSET (1 .. db') /\ acked' \in SUBSET (1 .. db')
    BY <1>0 DEF IInv, TypeOK, Commit, OrphanCommits
  <2>3. /\ load' \in [Loaders -> [pc : LoadPcs, key : Keys \cup {NoKey}, epoch : Nat,
                                  ver : 0 .. db', floor : SUBSET (1 .. db')]]
        /\ map' \in [DOMAIN map' -> [ver : 0 .. db', bytes : Sizes, age : Nat]]
    BY <1>0 DEF IInv, TypeOK, Commit, OrphanCommits, cacheVars
  <2> QED
    BY <1>0, <2>1, <2>2, <2>3 DEF IInv, TypeOK, Commit, OrphanCommits, cacheVars
<1>2. Versions'
  <2>1. CASE Commit(m)
    BY <1>0, <2>1 DEF IInv, TypeOK, Versions, Commit
  <2>2. CASE OrphanCommits(m)
    BY <1>0, <2>2 DEF IInv, TypeOK, Versions, OrphanCommits, NoMut
  <2> QED BY <2>1, <2>2
<1>3. ASSUME NEW v \in 0 .. db, Covered(v) PROVE Covered(v)'
  <2>1. \A n \in Mutators : mut[n].vers \subseteq mut'[n].vers
    BY DEF IInv, TypeOK, Versions, Commit, OrphanCommits
  <2>2. late \subseteq late'
    BY DEF Commit, OrphanCommits
  <2>3. db + 1 \in late' \/ db + 1 \in mut'[m].vers
    BY DEF IInv, TypeOK, Commit, OrphanCommits
  <2>4. ASSUME NEW w \in v + 1 .. db' PROVE w \in v + 1 .. db \/ w = db + 1
    BY <1>0
  <2> QED
    BY <1>3, <2>1, <2>2, <2>3, <2>4 DEF Covered
<1>4. Coherent'
  <2>1. UNCHANGED <<map, load, epoch>>
    BY DEF Commit, OrphanCommits, cacheVars
  <2>2. /\ \A k \in DOMAIN map : map[k].ver \in 0 .. db
        /\ \A l \in Loaders : load[l].ver \in 0 .. db
    BY DEF IInv, TypeOK
  <2>3. \A k \in DOMAIN map' : Covered(map[k].ver)'
    BY <1>3, <2>1, <2>2 DEF IInv, Coherent, Covered
  <2>4. \A l \in Loaders :
          load'[l].pc = "read" /\ load'[l].epoch = epoch' => Covered(load[l].ver)'
    BY <1>3, <2>1, <2>2 DEF IInv, Coherent, Covered
  <2> QED BY <2>3, <2>4 DEF Coherent
<1>5. Floors'
  BY DEF IInv, Floors, Commit, OrphanCommits, cacheVars
<1> QED BY <1>1, <1>2, <1>4, <1>5 DEF IInv

\* The guard drops: everything older than the commits goes with the clear.
LEMMA DropGuardInv ==
  ASSUME IInv, NEW m \in Mutators,
         FinishMutation(m) \/ CancelMutation(m) \/ CancelInFlight(m)
  PROVE  IInv'
<1> USE DEF FinishMutation, CancelMutation, CancelInFlight, NoMut
<1>1. Coherent' /\ epoch' \in Nat /\ epoch < epoch' /\ mutex' = "sound"
        /\ DOMAIN map' \subseteq Keys /\ DOMAIN map' = {}
  BY ClearedIsCoherent
<1>2. TypeOK'
  <2>1. mut' \in [Mutators -> [pc : MutPcs, kind : MutKinds, vers : SUBSET (1 .. db)]]
    BY DEF IInv, TypeOK, MutPcs, MutKinds
  <2>2. acked' \in SUBSET (1 .. db)
    BY DEF IInv, TypeOK
  <2>3. map' \in [DOMAIN map' -> [ver : 0 .. db, bytes : Sizes, age : Nat]]
    BY <1>1 DEF Clear, EmptyMap
  <2> QED
    BY <1>1, <2>1, <2>2, <2>3 DEF IInv, TypeOK
<1>3. Versions'
  <2>1. mut'[m].vers = {} /\ \A n \in Mutators \ {m} : mut'[n] = mut[n]
    BY DEF IInv, TypeOK
  <2>2. late' = late /\ (acked' = acked \/ acked' = acked \cup mut[m].vers)
    BY DEF IInv
  <2> QED BY <2>1, <2>2 DEF IInv, Versions
<1>4. Floors'
  BY <1>1 DEF IInv, TypeOK, Floors
<1> QED BY <1>1, <1>2, <1>3, <1>4 DEF IInv

\* The admin clear empties the cache under a new epoch.
LEMMA AdminClearInv == ASSUME IInv, AdminClear PROVE IInv'
<1>1. Coherent' /\ epoch' \in Nat /\ epoch < epoch' /\ mutex' = "sound"
        /\ DOMAIN map' \subseteq Keys /\ DOMAIN map' = {}
  BY ClearedIsCoherent DEF AdminClear
<1>2. TypeOK'
  <2>1. map' \in [DOMAIN map' -> [ver : 0 .. db, bytes : Sizes, age : Nat]]
    BY <1>1 DEF AdminClear, Clear, EmptyMap
  <2> QED
    BY <1>1, <2>1, CacheAssumption DEF IInv, TypeOK, AdminClear
<1>3. Versions'
  BY DEF IInv, Versions, AdminClear
<1>4. Floors'
  BY <1>1 DEF IInv, TypeOK, Floors, AdminClear
<1> QED BY <1>1, <1>2, <1>3, <1>4 DEF IInv

-----------------------------------------------------------------------------
(* The theorems.                                                           *)

\* Every step keeps the inductive invariant.
LEMMA NextInv == IInv /\ [Next]_vars => IInv'
<1> SUFFICES ASSUME IInv, [Next]_vars PROVE IInv'
  OBVIOUS
<1>1. CASE UNCHANGED vars
  <2>1. UNCHANGED <<db, map, epoch, mutex, load, mut, acked, late, clears>>
    BY <1>1 DEF vars
  <2>2. TypeOK'
    BY <2>1 DEF IInv, TypeOK
  <2>3. Versions' /\ Floors'
    BY <2>1 DEF IInv, Versions, Floors
  <2>4. Coherent'
    BY <2>1 DEF IInv, Coherent, Covered
  <2> QED BY <2>2, <2>3, <2>4 DEF IInv
<1>2. ASSUME NEW l \in Loaders,
             \/ \E k \in Keys \cup {NoKey} : StartLoad(l, k)
             \/ Lookup(l) \/ SnapEpoch(l) \/ ReadRows(l)
             \/ PutRows(l) \/ EndLoad(l) \/ PanicInPut(l)
      PROVE  IInv'
  BY <1>2, StartLoadInv, LookupInv, SnapEpochInv, ReadRowsInv, PutRowsInv, EndLoadInv,
     PanicInPutInv
<1>3. ASSUME NEW m \in Mutators,
             \/ \E kind \in MutKinds : ArmGuard(m, kind)
             \/ SendCommit(m) \/ Commit(m) \/ CommitWithoutEffect(m)
             \/ FinishMutation(m) \/ CancelMutation(m) \/ CancelInFlight(m)
             \/ OrphanCommits(m) \/ OrphanRollsBack(m)
      PROVE  IInv'
  BY <1>3, ArmGuardInv, PcStepInv, CommitInv, DropGuardInv
<1> QED
  BY <1>1, <1>2, <1>3, AdminClearInv DEF Next

\* The inductive invariant holds in every reachable state.
LEMMA Invariance == Spec => []IInv
BY InitInv, NextInv, PTL DEF Spec

\* Type correctness of the cache, the loads and the handlers.
THEOREM TypeCorrect == Spec => []TypeOK
<1>1. IInv => TypeOK
  BY DEF IInv
<1> QED BY <1>1, Invariance, PTL

\* put_if_epoch and ClearOnDrop together keep the cache coherent: no entry, and
\* no result on its way in under the current epoch, misses a commit whose clear
\* has already happened.
THEOREM CacheCoherent == Spec => []Coherent
<1>1. IInv => Coherent
  BY DEF IInv
<1> QED BY <1>1, Invariance, PTL

\* cached_load never answers with rows older than a mutation that had been
\* acknowledged when the load began.
THEOREM ReadsYourWrites == Spec => []ReadYourWrites
<1>1. IInv => ReadYourWrites
  BY DEF IInv, Floors, ReadYourWrites
<1> QED BY <1>1, Invariance, PTL

-----------------------------------------------------------------------------
(* Refinement.                                                             *)

\* The initial state maps to the initial state of IndexReads.
LEMMA InitRefines == Init => Reads!Init
BY DEF Init, Reads!Init, Reads!Idle, AbstractRead, NoLoad

\* Moving load l to r changes the abstract read of l only.
LEMMA OneRead ==
  ASSUME IInv, NEW l \in Loaders, NEW r, load' = [load EXCEPT ![l] = r]
  PROVE  /\ [j \in Loaders |-> AbstractRead(j)]'
              = [[j \in Loaders |-> AbstractRead(j)] EXCEPT ![l] = AbstractRead(l)']
         /\ load'[l] = r
<1>1. load'[l] = r /\ \A j \in Loaders \ {l} : load'[j] = load[j]
  BY DEF IInv, TypeOK
<1>2. \A j \in Loaders \ {l} : AbstractRead(j)' = AbstractRead(j)
  BY <1>1 DEF AbstractRead
<1> QED BY <1>1, <1>2

\* The start of a cached_load maps to the start of a read.
LEMMA StartRefines ==
  ASSUME IInv, NEW l \in Loaders, NEW k \in Keys \cup {NoKey}, StartLoad(l, k)
  PROVE  Reads!Start(l)
<1>1. load'[l] = [pc |-> "start", key |-> k, epoch |-> 0, ver |-> 0, floor |-> acked]
  BY OneRead DEF StartLoad
<1>2. AbstractRead(l)' = [st |-> "pending", floor |-> acked, ver |-> 0]
  BY <1>1 DEF AbstractRead
<1>3. AbstractRead(l).st = "idle"
  BY DEF StartLoad, AbstractRead
<1> QED
  BY <1>2, <1>3, OneRead DEF Reads!Start, StartLoad

\* A hit, and a result offered to the cache, map to an answer IndexReads
\* allows: a version that exists and is not behind the floor.
LEMMA AnswerRefines ==
  ASSUME IInv, IInv', NEW l \in Loaders, Lookup(l) \/ PutRows(l),
         load'[l].pc = "done"
  PROVE  Reads!Answer(l)
<1> DEFINE v == load'[l].ver
<1>1. PICK r : load' = [load EXCEPT ![l] = r] /\ r.floor = load[l].floor
  <2>1. CASE PutRows(l)
    <3> DEFINE put == [load[l] EXCEPT !.pc = "done"]
    <3>1. put.floor = load[l].floor
      BY DEF IInv, TypeOK
    <3>2. load' = [load EXCEPT ![l] = put]
      BY <2>1 DEF PutRows
    <3> QED BY <3>1, <3>2
  <2>2. CASE Lookup(l)
    <3> DEFINE miss == [load[l] EXCEPT !.pc = "miss"]
               hit == [load[l] EXCEPT !.pc = "done", !.ver = LockedMap[load[l].key].ver]
    <3>1. miss.floor = load[l].floor /\ hit.floor = load[l].floor
      BY DEF IInv, TypeOK
    <3>2. load' = [load EXCEPT ![l] = miss] \/ load' = [load EXCEPT ![l] = hit]
      BY <2>2 DEF Lookup
    <3> QED BY <3>1, <3>2
  <2> QED BY <2>1, <2>2
<1>2. load'[l].floor = load[l].floor
  BY <1>1, OneRead
<1>3. AbstractRead(l).st = "pending" /\ AbstractRead(l).floor = load[l].floor
        /\ AbstractRead(l).ver = 0
  BY DEF Lookup, PutRows, AbstractRead
<1>4. /\ AbstractRead(l)' = [st |-> "done", floor |-> load[l].floor, ver |-> v]
      /\ AbstractRead(l) = [st |-> "pending", floor |-> load[l].floor, ver |-> 0]
  BY <1>2 DEF Lookup, PutRows, AbstractRead
<1>6. db' = db /\ acked' = acked
  BY DEF Lookup, PutRows
<1>5. v \in 0 .. db /\ \A w \in load[l].floor : w <= v
  <2>1. load'[l].ver \in 0 .. db'
    BY DEF IInv, TypeOK
  <2>2. \A w \in load'[l].floor : w <= load'[l].ver
    BY DEF IInv, Floors
  <2> QED BY <1>2, <1>6, <2>1, <2>2
<1>7. [j \in Loaders |-> AbstractRead(j)]'
        = [[j \in Loaders |-> AbstractRead(j)] EXCEPT ![l] = AbstractRead(l)']
  BY <1>1, OneRead
<1> HIDE DEF v
<1> QED
  BY <1>3, <1>4, <1>5, <1>6, <1>7 DEF Reads!Answer

\* A miss, the epoch snapshot and the SELECT are invisible.
LEMMA PendingRefines ==
  ASSUME IInv, NEW l \in Loaders,
         \/ Lookup(l) /\ load'[l].pc # "done"
         \/ SnapEpoch(l) \/ ReadRows(l)
  PROVE  UNCHANGED Reads!vars
<1>1. /\ db' = db /\ acked' = acked
      /\ \A j \in Loaders \ {l} : load'[j] = load[j]
      /\ load'[l].floor = load[l].floor
      /\ load[l].pc \in {"start", "miss", "snapped"}
      /\ load'[l].pc \in {"miss", "snapped", "read"}
  <2>1. CASE Lookup(l) /\ load'[l].pc # "done"
    BY <2>1 DEF Lookup, IInv, TypeOK
  <2>2. CASE SnapEpoch(l) \/ ReadRows(l)
    BY <2>2 DEF SnapEpoch, ReadRows, IInv, TypeOK
  <2> QED BY <2>1, <2>2
<1>2. \A j \in Loaders : AbstractRead(j)' = AbstractRead(j)
  BY <1>1 DEF AbstractRead
<1> QED BY <1>1, <1>2 DEF Reads!vars

\* Taking the answer, an error and a panic map to leaving the read.
LEMMA LeaveRefines ==
  ASSUME IInv, NEW l \in Loaders, EndLoad(l) \/ PanicInPut(l)
  PROVE  Reads!Leave(l)
<1>1. load' = [load EXCEPT ![l] = NoLoad] /\ load'[l] = NoLoad
  BY OneRead DEF EndLoad, PanicInPut
<1>2. AbstractRead(l)' = Reads!Idle
  BY <1>1 DEF AbstractRead, NoLoad, Reads!Idle
<1>3. AbstractRead(l).st # "idle"
  BY DEF EndLoad, PanicInPut, AbstractRead
<1> QED
  BY <1>1, <1>2, <1>3, OneRead DEF Reads!Leave, EndLoad, PanicInPut

\* Every step maps to a step of IndexReads or to a stutter.
LEMMA StepRefines == IInv /\ IInv' /\ [Next]_vars => [Reads!Next]_Reads!vars
<1> SUFFICES ASSUME IInv, IInv', [Next]_vars PROVE Reads!Next \/ UNCHANGED Reads!vars
  OBVIOUS
<1>1. CASE UNCHANGED <<db, acked, load>>
  BY <1>1 DEF AbstractRead, Reads!vars
<1>2. ASSUME NEW m \in Mutators, Commit(m) \/ OrphanCommits(m)
      PROVE  Reads!Commit
  BY <1>2 DEF Reads!Commit, Commit, OrphanCommits, AbstractRead
<1>3. ASSUME NEW m \in Mutators, FinishMutation(m)
      PROVE  Reads!Acknowledge
  <2>1. mut[m].vers \in SUBSET (1 .. db)
    BY DEF IInv, TypeOK
  <2> QED
    BY <1>3, <2>1 DEF FinishMutation, Reads!Acknowledge, AbstractRead
<1>4. ASSUME NEW l \in Loaders,
             \/ \E k \in Keys \cup {NoKey} : StartLoad(l, k)
             \/ Lookup(l) \/ SnapEpoch(l) \/ ReadRows(l)
             \/ PutRows(l) \/ EndLoad(l) \/ PanicInPut(l)
      PROVE  Reads!Next \/ UNCHANGED Reads!vars
  <2>1. CASE PutRows(l)
    <3>1. load'[l].pc = "done"
      BY <2>1 DEF PutRows, IInv, TypeOK
    <3> QED BY <2>1, <3>1, AnswerRefines DEF Reads!Next
  <2>2. CASE ~PutRows(l)
    BY <1>4, <2>2, StartRefines, AnswerRefines, PendingRefines, LeaveRefines
    DEF Reads!Next
  <2> QED BY <2>1, <2>2
<1>5. ASSUME NEW m \in Mutators,
             \/ \E kind \in MutKinds : ArmGuard(m, kind)
             \/ SendCommit(m) \/ CommitWithoutEffect(m)
             \/ CancelMutation(m) \/ CancelInFlight(m) \/ OrphanRollsBack(m)
      PROVE  UNCHANGED <<db, acked, load>>
  BY <1>5 DEF ArmGuard, SendCommit, CommitWithoutEffect, CancelMutation,
              CancelInFlight, OrphanRollsBack
<1>6. CASE AdminClear \/ UNCHANGED vars
  BY <1>1, <1>6 DEF AdminClear, vars
<1> QED
  BY <1>1, <1>2, <1>3, <1>4, <1>5, <1>6 DEF Next, Reads!Next

\* The cached system implements the cache-free IndexReads: the cache is
\* invisible to every client of cached_load.
THEOREM CacheRefinesReads == Spec => CacheIsTransparent
BY InitRefines, StepRefines, Invariance, PTL DEF Spec, CacheIsTransparent, Reads!Spec

-----------------------------------------------------------------------------
(* The sum that MapThenSumSet folds, for any finite set.                   *)

\* The element that the fold takes first.
First(s) == CHOOSE x \in s : TRUE

\* The table that the fold over S fills.
Tallies(m, S, f) ==
  f = [s \in SUBSET S |-> IF s = {} THEN 0 ELSE m[First(s)].bytes + f[s \ {First(s)}]]

LEMMA FoldIsTally ==
  ASSUME NEW m, NEW S
  PROVE  BytesOf(m, S) = (CHOOSE f : Tallies(m, S, f))[S]
BY DEF BytesOf, MapThenSumSet, MapThenFoldSet, Tallies, First

\* Two tables agree where both are defined.
LEMMA TallyUnique ==
  ASSUME NEW m, NEW S, IsFiniteSet(S), NEW T, NEW f, NEW g,
         Tallies(m, S, f), Tallies(m, T, g), NEW s, s \subseteq S, s \subseteq T
  PROVE  f[s] = g[s]
<1> DEFINE Bad == {u \in SUBSET S : u \subseteq T /\ f[u] # g[u]}
<1>1. ASSUME NEW u \in Bad PROVE \E v \in Bad : ~(v \subseteq u => v = u)
  <2>1. u # {} /\ u \subseteq S /\ u \subseteq T
    BY DEF Tallies
  <2>2. First(u) \in u
    BY <2>1 DEF First
  <2> DEFINE v == u \ {First(u)}
  <2>3. /\ f[u] = m[First(u)].bytes + f[v]
        /\ g[u] = m[First(u)].bytes + g[v]
    BY <2>1 DEF Tallies
  <2>4. v \subseteq u /\ v # u /\ v \subseteq S /\ v \subseteq T
    BY <2>1, <2>2
  <2> HIDE DEF v
  <2>5. v \in Bad
    BY <2>3, <2>4
  <2> QED BY <2>4, <2>5
<1>2. Bad = {}
  <2> HIDE DEF Bad
  <2>1. Bad \subseteq SUBSET S
    BY DEF Bad
  <2> QED BY <1>1, <2>1, LeastSubset
<1> QED BY <1>2

\* There is one for every finite set.
LEMMA TallyExists ==
  ASSUME NEW m, NEW S, IsFiniteSet(S)
  PROVE  \E f : Tallies(m, S, f)
<1> DEFINE Bad == {T \in SUBSET S : ~ \E f : Tallies(m, T, f)}
<1>1. ASSUME NEW T \in Bad PROVE \E U \in Bad : ~(U \subseteq T => U = T)
  <2> SUFFICES ASSUME \A U \in SUBSET T : U # T => \E f : Tallies(m, U, f)
               PROVE  FALSE
    OBVIOUS
  <2> DEFINE of(U) == CHOOSE f : Tallies(m, U, f)
             f == [s \in SUBSET T |->
                     IF s = {} THEN 0
                     ELSE m[First(s)].bytes + of(s \ {First(s)})[s \ {First(s)}]]
  <2>1. \A U \in SUBSET T : U # T => Tallies(m, U, of(U))
    OBVIOUS
  <2>2. ASSUME NEW s \in SUBSET T, s # T
        PROVE  f[s] = of(s)[s]
    <3>1. Tallies(m, s, of(s))
      BY <2>1, <2>2
    <3> DEFINE u == s \ {First(s)}
    <3>2. of(s)[s] = IF s = {} THEN 0 ELSE m[First(s)].bytes + of(s)[u]
      BY <3>1 DEF Tallies
    <3>3. ASSUME s # {} PROVE of(s)[u] = of(u)[u]
      <4>1. First(s) \in s
        BY <3>3 DEF First
      <4>2. u \in SUBSET T /\ u # T /\ u \subseteq s
        BY <4>1
      <4>3. Tallies(m, u, of(u))
        BY <2>1, <4>2
      <4>4. IsFiniteSet(s)
        BY FS_Subset
      <4> HIDE DEF u, of
      <4> QED BY <3>1, <4>2, <4>3, <4>4, TallyUnique
    <3> HIDE DEF of
    <3> QED BY <3>2, <3>3
  <2>3. ASSUME NEW s \in SUBSET T, s # {}
        PROVE  f[s \ {First(s)}] = of(s \ {First(s)})[s \ {First(s)}]
    <3>1. First(s) \in s
      BY <2>3 DEF First
    <3>2. s \ {First(s)} \in SUBSET T /\ s \ {First(s)} # T
      BY <3>1
    <3> HIDE DEF f, of
    <3> QED BY <2>2, <3>2
  <2>4. Tallies(m, T, f)
    <3>1. f = [s \in SUBSET T |-> IF s = {} THEN 0 ELSE m[First(s)].bytes + f[s \ {First(s)}]]
      <4> HIDE DEF of
      <4>1. \A s \in SUBSET T : f[s] = IF s = {} THEN 0 ELSE m[First(s)].bytes + f[s \ {First(s)}]
        BY <2>3
      <4>2. DOMAIN f = SUBSET T /\ f = [s \in SUBSET T |-> f[s]]
        OBVIOUS
      <4> HIDE DEF f
      <4> QED BY <4>1, <4>2
    <3> QED BY <3>1 DEF Tallies
  <2> QED BY <2>4
<1>2. Bad = {}
  <2> HIDE DEF Bad
  <2>1. Bad \subseteq SUBSET S
    BY DEF Bad
  <2> QED BY <1>1, <2>1, LeastSubset
<1> QED BY <1>2

\* What BytesOf returns: nothing for no entry, and otherwise the first one's
\* weight and that of the rest.
LEMMA BytesOfStep ==
  ASSUME NEW m, NEW S, IsFiniteSet(S)
  PROVE  BytesOf(m, S) = IF S = {} THEN 0 ELSE m[First(S)].bytes + BytesOf(m, S \ {First(S)})
<1> DEFINE R == S \ {First(S)}
           f == CHOOSE f : Tallies(m, S, f)
           g == CHOOSE g : Tallies(m, R, g)
<1>1. IsFiniteSet(R)
  BY FS_Subset
<1>2. Tallies(m, S, f) /\ Tallies(m, R, g)
  BY <1>1, TallyExists
<1>3. BytesOf(m, S) = f[S] /\ BytesOf(m, R) = g[R]
  BY FoldIsTally
<1>4. R \subseteq S
  OBVIOUS
<1>5. f[S] = IF S = {} THEN 0 ELSE m[First(S)].bytes + f[R]
  BY <1>2 DEF Tallies
<1> HIDE DEF R, f, g
<1>6. f[R] = g[R]
  BY <1>2, <1>4, TallyUnique
<1>7. BytesOf(m, S) = IF S = {} THEN 0 ELSE m[First(S)].bytes + BytesOf(m, R)
  BY <1>3, <1>5, <1>6
<1> QED BY <1>7 DEF R

\* The weights of a set of entries are numbers.
Weighed(m, S) == IsFiniteSet(S) /\ \A j \in S : m[j].bytes \in Nat

LEMMA WeighedSubset ==
  ASSUME NEW m, NEW S, Weighed(m, S), NEW T \in SUBSET S PROVE Weighed(m, T)
BY FS_Subset DEF Weighed

LEMMA BytesOfNat ==
  ASSUME NEW m, NEW S, Weighed(m, S) PROVE BytesOf(m, S) \in Nat
<1> DEFINE Bad == {T \in SUBSET S : BytesOf(m, T) \notin Nat}
<1>1. ASSUME NEW T \in Bad PROVE \E U \in Bad : ~(U \subseteq T => U = T)
  <2> DEFINE U == T \ {First(T)}
  <2>1. IsFiniteSet(T) /\ \A j \in T : m[j].bytes \in Nat
    BY WeighedSubset DEF Weighed
  <2>2. T # {} /\ BytesOf(m, T) = m[First(T)].bytes + BytesOf(m, U)
    <3>1. BytesOf(m, T) = IF T = {} THEN 0 ELSE m[First(T)].bytes + BytesOf(m, U)
      BY <2>1, BytesOfStep
    <3>2. BytesOf(m, T) \notin Nat
      OBVIOUS
    <3> QED BY <3>1, <3>2
  <2>3. First(T) \in T
    BY <2>2 DEF First
  <2>4. U \subseteq T /\ U # T
    BY <2>3
  <2> HIDE DEF U
  <2>5. BytesOf(m, U) \notin Nat
    BY <2>1, <2>2, <2>3
  <2> QED BY <2>4, <2>5
<1>2. Bad = {}
  <2> HIDE DEF Bad
  <2>1. Bad \subseteq SUBSET S /\ IsFiniteSet(S)
    BY DEF Bad, Weighed
  <2> QED BY <1>1, <2>1, LeastSubset
<1> QED BY <1>2

\* Two maps with the same weights weigh the same.
LEMMA BytesOfSame ==
  ASSUME NEW m, NEW n, NEW S, IsFiniteSet(S), \A j \in S : n[j].bytes = m[j].bytes
  PROVE  BytesOf(n, S) = BytesOf(m, S)
<1> DEFINE Bad == {T \in SUBSET S : BytesOf(n, T) # BytesOf(m, T)}
<1>1. ASSUME NEW T \in Bad PROVE \E U \in Bad : ~(U \subseteq T => U = T)
  <2> DEFINE U == T \ {First(T)}
  <2>1. IsFiniteSet(T)
    BY FS_Subset
  <2>2. /\ T # {} /\ BytesOf(m, T) = m[First(T)].bytes + BytesOf(m, U)
        /\ BytesOf(n, T) = n[First(T)].bytes + BytesOf(n, U)
    BY <2>1, BytesOfStep
  <2>3. First(T) \in T
    BY <2>2 DEF First
  <2>4. U \subseteq T /\ U # T
    BY <2>3
  <2> HIDE DEF U
  <2>5. BytesOf(n, U) # BytesOf(m, U)
    BY <2>2, <2>3
  <2> QED BY <2>4, <2>5
<1>2. Bad = {}
  <2> HIDE DEF Bad
  <2>1. Bad \subseteq SUBSET S
    BY DEF Bad
  <2> QED BY <1>1, <2>1, LeastSubset
<1> QED BY <1>2

\* Any entry can be taken first: the order of the fold does not matter.
LEMMA BytesOfRemove ==
  ASSUME NEW m, NEW S, Weighed(m, S), NEW x \in S
  PROVE  BytesOf(m, S) = m[x].bytes + BytesOf(m, S \ {x})
<1> DEFINE Exact(T, j) == BytesOf(m, T) = m[j].bytes + BytesOf(m, T \ {j})
           Bad == {T \in SUBSET S : \E j \in T : ~Exact(T, j)}
<1>1. ASSUME NEW T \in Bad, \A U \in Bad : U \subseteq T => U = T
      PROVE  FALSE
  <2>1. PICK j \in T : ~Exact(T, j)
    OBVIOUS
  <2> DEFINE i == First(T)
             U == T \ {i}
             V == T \ {j}
             W == T \ {i, j}
  <2>2. \A R \in SUBSET T : IsFiniteSet(R) /\ BytesOf(m, R) \in Nat
    BY WeighedSubset, BytesOfNat DEF Weighed
  <2>3. i \in T /\ BytesOf(m, T) = m[i].bytes + BytesOf(m, U)
    <3>1. T \in SUBSET T /\ T # {}
      BY <2>1
    <3> QED BY <2>2, <3>1, BytesOfStep DEF First
  <2>4. i # j
    BY <2>1, <2>3
  <2>5. Exact(U, j) /\ Exact(V, i)
    <3>1. j \in U /\ i \in V /\ U # T /\ V # T /\ U \subseteq T /\ V \subseteq T
      BY <2>1, <2>3, <2>4
    <3>2. U \notin Bad /\ V \notin Bad /\ U \in SUBSET S /\ V \in SUBSET S
      BY <1>1, <3>1
    <3> HIDE DEF Exact, U, V, i
    <3> QED BY <3>1, <3>2
  <2>6. U \ {j} = W /\ V \ {i} = W
    OBVIOUS
  <2>7. m[i].bytes \in Nat /\ m[j].bytes \in Nat /\ BytesOf(m, W) \in Nat
    BY <2>1, <2>2, <2>3 DEF Weighed
  <2>8. BytesOf(m, T) # m[j].bytes + BytesOf(m, V)
    BY <2>1
  <2>9. BytesOf(m, U) = m[j].bytes + BytesOf(m, W) /\ BytesOf(m, V) = m[i].bytes + BytesOf(m, W)
    BY <2>5, <2>6
  <2> HIDE DEF i, U, V, W, Exact, Bad
  <2> QED BY <2>3, <2>7, <2>8, <2>9
<1>2. Bad = {}
  <2> HIDE DEF Bad
  <2>1. Bad \subseteq SUBSET S /\ IsFiniteSet(S)
    BY DEF Bad, Weighed
  <2> QED BY <1>1, <2>1, LeastSubset
<1> QED BY <1>2

\* A map weighs what two parts of it weigh together.
LEMMA BytesOfSplit ==
  ASSUME NEW m, NEW S, Weighed(m, S), NEW R \in SUBSET S
  PROVE  BytesOf(m, S) = BytesOf(m, R) + BytesOf(m, S \ R)
<1> DEFINE Bad == {T \in SUBSET R : BytesOf(m, S) # BytesOf(m, T) + BytesOf(m, S \ T)}
<1>1. IsFiniteSet(R)
  BY FS_Subset DEF Weighed
<1>2. ASSUME NEW T \in Bad, \A U \in Bad : U \subseteq T => U = T
      PROVE  FALSE
  <2>1. \A U \in SUBSET S : Weighed(m, U) /\ BytesOf(m, U) \in Nat
    BY WeighedSubset, BytesOfNat
  <2>2. CASE T = {}
    <3>1. BytesOf(m, T) = 0 /\ S \ T = S
      BY <2>1, <2>2, BytesOfStep DEF Weighed
    <3> QED BY <2>1, <3>1
  <2>3. CASE T # {}
    <3>1. PICK j \in T : TRUE
      BY <2>3
    <3> DEFINE U == T \ {j}
               V == S \ U
    <3>2. U \subseteq T /\ U # T /\ T \subseteq S /\ U \subseteq S /\ V \subseteq S /\ j \in V
      BY <3>1
    <3>3. V \ {j} = S \ T
      BY <3>1
    <3>4. BytesOf(m, S) = BytesOf(m, U) + BytesOf(m, V)
      BY <1>2, <3>2
    <3>5. BytesOf(m, T) = m[j].bytes + BytesOf(m, U)
      BY <2>1, <3>1, <3>2, BytesOfRemove
    <3> HIDE DEF U, V
    <3>6. BytesOf(m, V) = m[j].bytes + BytesOf(m, S \ T)
      BY <2>1, <3>2, <3>3, BytesOfRemove
    <3>7. m[j].bytes \in Nat /\ BytesOf(m, U) \in Nat /\ BytesOf(m, S \ T) \in Nat
      BY <2>1, <3>2 DEF Weighed
    <3> QED BY <3>4, <3>5, <3>6, <3>7
  <2> QED BY <2>2, <2>3
<1>3. Bad = {}
  <2> HIDE DEF Bad
  <2>1. Bad \subseteq SUBSET R
    BY DEF Bad
  <2> QED BY <1>1, <1>2, <2>1, LeastSubset
<1> QED BY <1>3

-----------------------------------------------------------------------------
(* Recency.                                                                *)

\* The ages of a map are the ranks of its entries: no two share one, and none is
\* left out below another.
Ranked(m) ==
  /\ \A i, j \in DOMAIN m : i # j => m[i].age # m[j].age
  /\ \A j \in DOMAIN m : \A a \in 0 .. m[j].age : \E i \in DOMAIN m : m[i].age = a

\* The account of used_bytes: what Accounting says, with the ranks one by one.
Ledger ==
  mutex = "sound" =>
    /\ IsFiniteSet(DOMAIN map)
    /\ used = BytesOf(map, DOMAIN map)
    /\ used <= MaxBytes
    /\ Ranked(map)

\* A get makes its entry the most recent and moves those before it.
LEMMA TouchRanked ==
  ASSUME NEW m, IsMap(m), Ranked(m), NEW k \in DOMAIN m
  PROVE  Ranked(Touch(m, k)) /\ \A j \in DOMAIN m : Touch(m, k)[j].bytes = m[j].bytes
<1> DEFINE t == Touch(m, k)
<1>1. /\ DOMAIN t = DOMAIN m
      /\ \A j \in DOMAIN m :
           /\ t[j].bytes = m[j].bytes /\ m[j].age \in Nat
           /\ t[j].age = IF j = k THEN 0 ELSE IF m[j].age < m[k].age THEN m[j].age + 1 ELSE m[j].age
  BY DEF Touch, IsMap, Entries
<1> HIDE DEF t
<1>2. ASSUME NEW i \in DOMAIN m, NEW j \in DOMAIN m, i # j
      PROVE  t[i].age # t[j].age
  <2>1. m[i].age # m[j].age /\ (i # k => m[i].age # m[k].age) /\ (j # k => m[j].age # m[k].age)
    BY <1>2 DEF Ranked
  <2> QED BY <1>1, <1>2, <2>1
<1>3. ASSUME NEW j \in DOMAIN m, NEW a \in 0 .. t[j].age
      PROVE  \E i \in DOMAIN m : t[i].age = a
  <2>1. CASE a = 0
    BY <1>1, <2>1
  <2>2. CASE a # 0 /\ a <= m[k].age
    <3>1. a - 1 \in 0 .. m[k].age
      BY <1>1, <2>2
    <3>2. PICK i \in DOMAIN m : m[i].age = a - 1
      BY <3>1 DEF Ranked
    <3> QED BY <1>1, <2>2, <3>2
  <2>3. CASE m[k].age < a
    <3>1. j # k /\ a \in 0 .. m[j].age
      BY <1>1, <2>3
    <3>2. PICK i \in DOMAIN m : m[i].age = a
      BY <3>1 DEF Ranked
    <3> QED BY <1>1, <2>3, <3>2
  <2> QED BY <1>1, <2>1, <2>2, <2>3
<1>4. Ranked(t)
  BY <1>1, <1>2, <1>3 DEF Ranked
<1> QED BY <1>1, <1>4 DEF t

\* So does a put, for a new entry or an old one.
LEMMA InsertRanked ==
  ASSUME NEW m, IsMap(m), Ranked(m), NEW k \in Keys, NEW v, NEW b
  PROVE  Ranked(Insert(m, k, v, b))
<1> DEFINE t == Insert(m, k, v, b)
           old == k \in DOMAIN m
<1>1. /\ DOMAIN t = DOMAIN m \cup {k} /\ t[k].age = 0
      /\ \A j \in DOMAIN m : m[j].age \in Nat
      /\ \A j \in DOMAIN m \ {k} :
           t[j].age = IF old /\ m[k].age < m[j].age THEN m[j].age ELSE m[j].age + 1
  BY DEF Insert, IsMap, Entries
<1> HIDE DEF t
<1>2. ASSUME NEW i \in DOMAIN t, NEW j \in DOMAIN t, i # j
      PROVE  t[i].age # t[j].age
  <2>1. CASE i = k \/ j = k
    <3>1. \A n \in DOMAIN m \ {k} : t[n].age # 0
      BY <1>1
    <3> QED BY <1>1, <1>2, <2>1, <3>1
  <2>2. CASE i # k /\ j # k
    <3>1. i \in DOMAIN m /\ j \in DOMAIN m /\ m[i].age # m[j].age
      BY <1>1, <1>2, <2>2 DEF Ranked
    <3>2. old => m[k].age # m[i].age /\ m[k].age # m[j].age
      BY <2>2, <3>1 DEF Ranked
    <3> QED BY <1>1, <2>2, <3>1, <3>2
  <2> QED BY <2>1, <2>2
<1>3. ASSUME NEW j \in DOMAIN t, NEW a \in 0 .. t[j].age
      PROVE  \E i \in DOMAIN t : t[i].age = a
  <2>1. CASE a = 0
    BY <1>1, <2>1
  <2>2. CASE a # 0 /\ (old => a <= m[k].age)
    <3>1. j \in DOMAIN m /\ j # k /\ a - 1 \in Nat
      BY <1>1, <2>2
    <3>2. a - 1 \in 0 .. m[j].age
      BY <1>1, <2>2, <3>1
    <3>3. PICK i \in DOMAIN m : m[i].age = a - 1
      BY <3>1, <3>2 DEF Ranked
    <3> QED BY <1>1, <2>2, <3>1, <3>3
  <2>3. CASE old /\ m[k].age < a
    <3>1. j # k
      BY <1>1, <2>3
    <3>2. j \in DOMAIN m /\ m[j].age # m[k].age
      BY <1>1, <2>3, <3>1 DEF Ranked
    <3>3. a \in 0 .. m[j].age
      BY <1>1, <2>3, <3>1, <3>2
    <3>4. PICK i \in DOMAIN m : m[i].age = a
      BY <3>2, <3>3 DEF Ranked
    <3> QED BY <1>1, <2>3, <3>4
  <2>4. t[j].age \in Nat
    BY <1>1
  <2> QED BY <1>1, <2>1, <2>2, <2>3, <2>4
<1>4. Ranked(t)
  BY <1>2, <1>3 DEF Ranked
<1> QED BY <1>4 DEF t

\* Eviction takes the least recent entries, and as many as bring the rest within
\* the budget.
LEMMA Eviction ==
  ASSUME NEW m, IsMap(m), Ranked(m), IsFiniteSet(DOMAIN m), NEW gone,
         gone = Popped(m, BytesOf(m, DOMAIN m))
  PROVE  LET left == BytesOf(m, DOMAIN m) - BytesOf(m, gone)
         IN  /\ Ranked(Keep(m, gone))
             /\ left = BytesOf(Keep(m, gone), DOMAIN Keep(m, gone))
             /\ left <= MaxBytes
<1> DEFINE all == BytesOf(m, DOMAIN m)
           Older(k) == {j \in DOMAIN m : m[j].age > m[k].age}
           kept == Keep(m, gone)
<1>1. /\ gone = {k \in DOMAIN m : all - BytesOf(m, Older(k)) > MaxBytes}
      /\ gone \subseteq DOMAIN m
  BY DEF Popped
<1>2. DOMAIN kept = DOMAIN m \ gone /\ \A j \in DOMAIN kept : kept[j] = m[j]
  BY DEF Keep
<1>3. Weighed(m, DOMAIN m) /\ MaxBytes \in Nat /\ \A j \in DOMAIN m : m[j].age \in Nat
  BY CacheAssumption DEF Weighed, IsMap, Entries
<1>4. \A R \in SUBSET DOMAIN m : Weighed(m, R) /\ BytesOf(m, R) \in Nat
  BY <1>3, WeighedSubset, BytesOfNat
<1>5. \A k \in DOMAIN m : Older(k) \subseteq DOMAIN m
  OBVIOUS
<1> HIDE DEF kept, all
<1>6. ASSUME NEW k \in gone, NEW j \in Older(k)
      PROVE  j \in gone
  <2>1. Older(j) \subseteq Older(k) /\ k \in DOMAIN m /\ j \in DOMAIN m
    BY <1>1, <1>3
  <2> HIDE DEF Older
  <2>2. BytesOf(m, Older(k)) = BytesOf(m, Older(j)) + BytesOf(m, Older(k) \ Older(j))
    <3>1. Weighed(m, Older(k)) /\ Older(j) \in SUBSET Older(k)
      BY <1>4, <1>5, <2>1
    <3> QED BY <3>1, BytesOfSplit
  <2>3. /\ BytesOf(m, Older(k)) \in Nat /\ BytesOf(m, Older(j)) \in Nat /\ all \in Nat
        /\ BytesOf(m, Older(k) \ Older(j)) \in Nat
    BY <1>4, <1>5, <2>1 DEF all
  <2>4. all - BytesOf(m, Older(k)) > MaxBytes
    BY <1>1
  <2>5. all - BytesOf(m, Older(j)) > MaxBytes
    BY <1>3, <2>2, <2>3, <2>4
  <2> QED BY <1>1, <2>1, <2>5
<1>7. Ranked(kept)
  <2>1. ASSUME NEW j \in DOMAIN kept, NEW a \in 0 .. kept[j].age
        PROVE  \E i \in DOMAIN kept : kept[i].age = a
    <3>1. j \in DOMAIN m /\ j \notin gone /\ a \in 0 .. m[j].age
      BY <1>2
    <3>2. PICK i \in DOMAIN m : m[i].age = a
      BY <3>1 DEF Ranked
    <3>3. i \notin gone
      <4>1. i = j \/ m[i].age < m[j].age
        BY <1>3, <3>1, <3>2 DEF Ranked
      <4> QED BY <1>6, <3>1, <4>1
    <3> QED BY <1>2, <3>2, <3>3
  <2> QED BY <1>2, <2>1 DEF Ranked
<1>8. all - BytesOf(m, gone) = BytesOf(kept, DOMAIN kept)
  <2>1. all = BytesOf(m, gone) + BytesOf(m, DOMAIN m \ gone)
    BY <1>1, <1>3, BytesOfSplit DEF all
  <2>2. BytesOf(kept, DOMAIN kept) = BytesOf(m, DOMAIN m \ gone)
    BY <1>2, <1>4, BytesOfSame DEF Weighed
  <2>3. BytesOf(m, gone) \in Nat /\ BytesOf(m, DOMAIN m \ gone) \in Nat
    BY <1>1, <1>4
  <2> QED BY <2>1, <2>2, <2>3
<1>9. all - BytesOf(m, gone) <= MaxBytes
  <2>1. CASE DOMAIN m \ gone = {}
    BY <1>1, <1>3, <1>4, <2>1 DEF all
  <2>2. CASE DOMAIN m \ gone # {}
    <3>1. PICK k \in DOMAIN m \ gone : \A j \in DOMAIN m \ gone : m[j].age <= m[k].age
      <4> DEFINE S == DOMAIN m \ gone
                 R == {p \in S \X S : m[p[2]].age <= m[p[1]].age}
      <4>1. \A a, b \in S : <<a, b>> \in R <=> m[b].age <= m[a].age
        OBVIOUS
      <4>2. S # {} /\ IsFiniteSet(S) /\ \A a \in S : m[a].age \in Nat
        BY <1>3, <1>4, <2>2 DEF Weighed
      <4>3. /\ \A a, b \in S : <<a, b>> \in R \/ <<b, a>> \in R
            /\ \A a, b, c \in S : <<a, b>> \in R /\ <<b, c>> \in R => <<a, c>> \in R
        <5> HIDE DEF R, S
        <5> QED BY <4>1, <4>2
      <4> HIDE DEF R
      <4>4. PICK k \in S : \A j \in S : <<k, j>> \in R
        <5> HIDE DEF S
        <5> QED BY <4>2, <4>3, LeastOfPreorder
      <4> QED BY <4>1, <4>4
    <3>2. Older(k) = gone
      <4>1. Older(k) \subseteq gone
        BY <1>3, <3>1
      <4>2. ASSUME NEW j \in gone PROVE j \in Older(k)
        <5>1. j \in DOMAIN m /\ j # k /\ m[j].age # m[k].age
          BY <1>1, <3>1 DEF Ranked
        <5>2. ~(m[j].age < m[k].age)
          BY <1>6, <3>1
        <5> QED BY <1>3, <5>1, <5>2
      <4> QED BY <4>1, <4>2
    <3>3. ~(all - BytesOf(m, Older(k)) > MaxBytes)
      BY <1>1, <3>1
    <3>4. all \in Nat /\ BytesOf(m, gone) \in Nat
      BY <1>1, <1>4 DEF all
    <3> HIDE DEF Older
    <3> QED BY <1>3, <3>2, <3>3, <3>4
  <2> QED BY <2>1, <2>2
<1> QED BY <1>7, <1>8, <1>9 DEF kept, all

-----------------------------------------------------------------------------
(* The account through every step.                                         *)

\* What a holder of the mutex finds is in order, after recovery too.
Balanced(m, u) ==
  /\ IsFiniteSet(DOMAIN m)
  /\ u = BytesOf(m, DOMAIN m)
  /\ u <= MaxBytes
  /\ Ranked(m)

LEMMA EmptyBalanced == Balanced(EmptyMap, 0)
<1>1. DOMAIN EmptyMap = {}
  BY DEF EmptyMap
<1>2. IsFiniteSet({}) /\ BytesOf(EmptyMap, {}) = 0
  BY FS_EmptySet, BytesOfStep
<1> QED BY <1>1, <1>2, CacheAssumption DEF Balanced, Ranked

LEMMA LockedBalanced ==
  ASSUME TypeOK, Ledger PROVE Balanced(LockedMap, LockedUsed)
<1>1. CASE mutex = "poisoned"
  BY <1>1, EmptyBalanced DEF LockedMap, LockedUsed
<1>2. CASE mutex = "sound"
  BY <1>2 DEF LockedMap, LockedUsed, Ledger, Balanced
<1> QED BY <1>1, <1>2 DEF TypeOK

\* put_if_epoch: replacement takes the old weight out and the new one in,
\* eviction takes out what it pops.
LEMMA PutBalanced ==
  ASSUME TypeOK, Ledger, NEW k \in Keys, NEW v \in 0 .. db, NEW b \in Sizes, NEW e,
         PutIfEpoch(k, v, b, e)
  PROVE  Balanced(map', used')
<1>1. IsMap(LockedMap) /\ Balanced(LockedMap, LockedUsed)
  BY LockedIsMap, LockedBalanced
<1>2. CASE LockedEpoch # e \/ b > MaxBytes
  BY <1>1, <1>2 DEF PutIfEpoch, JustLock
<1>3. CASE ~(LockedEpoch # e \/ b > MaxBytes)
  <2> DEFINE m == LockedMap
             put == Insert(m, k, v, b)
             old == IF k \in DOMAIN m THEN m[k].bytes ELSE 0
             held == LockedUsed - old + b
             gone == Popped(put, held)
             rest == DOMAIN m \ {k}
  <2>1. map' = Keep(put, gone) /\ used' = held - BytesOf(put, gone)
    BY <1>3 DEF PutIfEpoch
  <2>2. IsMap(put) /\ DOMAIN put = DOMAIN m \cup {k} /\ Ranked(put)
    BY <1>1, InsertMap, InsertRanked DEF Balanced
  <2>3. put[k].bytes = b /\ \A j \in rest : put[j].bytes = m[j].bytes
    BY <1>1 DEF Insert, IsMap, Entries
  <2>4. IsFiniteSet(DOMAIN m) /\ IsFiniteSet(DOMAIN put) /\ IsFiniteSet(rest)
    BY <1>1, <2>2, FS_AddElement, FS_RemoveElement DEF Balanced
  <2>5. b \in Nat /\ Weighed(put, DOMAIN put) /\ Weighed(m, DOMAIN m) /\ Weighed(m, rest)
    BY <1>1, <2>2, <2>4, CacheAssumption DEF IsMap, Entries, Weighed
  <2> HIDE DEF m, put, gone
  <2>6. held = BytesOf(put, DOMAIN put)
    <3>1. BytesOf(put, DOMAIN put) = b + BytesOf(m, rest)
      <4>1. BytesOf(put, DOMAIN put) = put[k].bytes + BytesOf(put, DOMAIN put \ {k})
        BY <2>2, <2>5, BytesOfRemove
      <4>2. DOMAIN put \ {k} = rest /\ BytesOf(put, rest) = BytesOf(m, rest)
        BY <2>2, <2>3, <2>4, BytesOfSame
      <4> QED BY <2>3, <4>1, <4>2
    <3>2. LockedUsed = BytesOf(m, DOMAIN m)
      BY <1>1 DEF Balanced, m
    <3>3. BytesOf(m, DOMAIN m) = old + BytesOf(m, rest) /\ old \in Nat
      <4>1. CASE k \in DOMAIN m
        BY <2>5, <4>1, BytesOfRemove DEF Weighed
      <4>2. CASE k \notin DOMAIN m
        <5>1. rest = DOMAIN m
          BY <4>2
        <5> QED BY <2>5, <4>2, <5>1, BytesOfNat
      <4> QED BY <4>1, <4>2
    <3>4. BytesOf(m, rest) \in Nat
      BY <2>5, BytesOfNat
    <3> QED BY <2>5, <3>1, <3>2, <3>3, <3>4
  <2>7. gone = Popped(put, BytesOf(put, DOMAIN put))
    BY <2>6 DEF gone
  <2>8. /\ Ranked(Keep(put, gone))
        /\ held - BytesOf(put, gone) = BytesOf(Keep(put, gone), DOMAIN Keep(put, gone))
        /\ held - BytesOf(put, gone) <= MaxBytes
    <3> HIDE DEF held
    <3> QED BY <2>2, <2>4, <2>6, <2>7, Eviction
  <2>9. IsFiniteSet(DOMAIN Keep(put, gone))
    BY <2>4, FS_Subset DEF Keep
  <2> QED BY <2>1, <2>8, <2>9 DEF Balanced
<1> QED BY <1>2, <1>3

LEMMA LedgerNext == ASSUME IInv, Ledger, [Next]_vars PROVE Ledger'
<1>1. TypeOK
  BY DEF IInv
<1>2. ASSUME Balanced(map', used') PROVE Ledger'
  BY <1>2 DEF Ledger, Balanced
<1>3. ASSUME UNCHANGED cacheVars PROVE Ledger'
  BY <1>3 DEF Ledger, cacheVars
<1>4. ASSUME JustLock PROVE Ledger'
  BY <1>1, <1>2, <1>4, LockedBalanced DEF JustLock
<1>5. ASSUME Clear PROVE Ledger'
  BY <1>2, <1>5, EmptyBalanced DEF Clear
<1>6. ASSUME NEW l \in Loaders, Lookup(l) PROVE Ledger'
  <2>1. CASE load[l].key \in DOMAIN LockedMap /\ map' = Touch(LockedMap, load[l].key)
               /\ used' = LockedUsed
    <3> DEFINE m == LockedMap
               t == Touch(m, load[l].key)
    <3>1. IsMap(m) /\ Balanced(m, LockedUsed) /\ load[l].key \in DOMAIN m
      BY <1>1, <2>1, LockedIsMap, LockedBalanced
    <3>2. Ranked(t) /\ DOMAIN t = DOMAIN m /\ \A j \in DOMAIN m : t[j].bytes = m[j].bytes
      <4> HIDE DEF m, t
      <4> QED BY <3>1, TouchRanked, TouchMap DEF Balanced, t
    <3> HIDE DEF t, m
    <3>3. BytesOf(t, DOMAIN m) = BytesOf(m, DOMAIN m)
      BY <3>1, <3>2, BytesOfSame DEF Balanced
    <3>4. Balanced(t, LockedUsed)
      BY <3>1, <3>2, <3>3 DEF Balanced
    <3> QED BY <1>2, <2>1, <3>4 DEF t, m
  <2> QED BY <1>3, <1>4, <1>6, <2>1 DEF Lookup
<1>7. ASSUME NEW l \in Loaders, PutRows(l) PROVE Ledger'
  <2>1. CASE ~(load[l].key = NoKey \/ MaxBytes = 0)
    <3>1. PICK b \in Sizes : PutIfEpoch(load[l].key, load[l].ver, b, load[l].epoch)
      BY <1>7, <2>1 DEF PutRows
    <3>2. load[l].key \in Keys /\ load[l].ver \in 0 .. db
      BY <1>1, <2>1 DEF TypeOK
    <3>3. Balanced(map', used')
      BY <1>1, <3>1, <3>2, PutBalanced
    <3> QED BY <1>2, <3>3
  <2> QED BY <1>3, <1>7, <2>1 DEF PutRows
<1>8. CASE UNCHANGED vars
  BY <1>3, <1>8 DEF vars, cacheVars
<1>9. ASSUME NEW l \in Loaders,
             \/ \E k \in Keys \cup {NoKey} : StartLoad(l, k)
             \/ SnapEpoch(l) \/ ReadRows(l) \/ EndLoad(l) \/ PanicInPut(l)
      PROVE  Ledger'
  <2>1. CASE PanicInPut(l)
    BY <2>1 DEF PanicInPut, Ledger
  <2> QED BY <1>3, <1>4, <1>9, <2>1 DEF StartLoad, SnapEpoch, ReadRows, EndLoad
<1>10. ASSUME NEW m \in Mutators,
              \/ \E kind \in MutKinds : ArmGuard(m, kind)
              \/ SendCommit(m) \/ Commit(m) \/ CommitWithoutEffect(m)
              \/ FinishMutation(m) \/ CancelMutation(m) \/ CancelInFlight(m)
              \/ OrphanCommits(m) \/ OrphanRollsBack(m)
       PROVE  Ledger'
  BY <1>3, <1>5, <1>10
  DEF ArmGuard, SendCommit, Commit, CommitWithoutEffect, FinishMutation, CancelMutation,
      CancelInFlight, OrphanCommits, OrphanRollsBack
<1>11. CASE AdminClear
  BY <1>5, <1>11 DEF AdminClear
<1> QED BY <1>6, <1>7, <1>8, <1>9, <1>10, <1>11 DEF Next

\* Distinct ranks without a gap are 0 .. n - 1.
LEMMA RanksOfAll ==
  ASSUME NEW m, IsMap(m), IsFiniteSet(DOMAIN m), Ranked(m)
  PROVE  {m[k].age : k \in DOMAIN m} = 0 .. Cardinality(DOMAIN m) - 1
<1> DEFINE S == DOMAIN m
           ages == {m[k].age : k \in S}
           n == Cardinality(S)
           f == [k \in S |-> m[k].age]
<1>1. \A k \in S : m[k].age \in Nat
  BY DEF IsMap, Entries
<1>2. f \in Bijection(S, ages)
  <2>1. f \in [S -> ages] /\ \A i, j \in S : f[i] = f[j] => i = j
    BY DEF Ranked
  <2>2. \A a \in ages : \E k \in S : f[k] = a
    OBVIOUS
  <2> QED BY <2>1, <2>2 DEF Bijection, Injection, Surjection, IsInjective
<1>3. IsFiniteSet(ages) /\ Cardinality(ages) = n
  BY <1>2, FS_Bijection DEF ExistsBijection
<1>4. CASE S = {}
  BY <1>4, FS_EmptySet
<1>5. CASE S # {}
  <2> DEFINE R == {p \in S \X S : m[p[2]].age <= m[p[1]].age}
  <2>1. \A a, b \in S : <<a, b>> \in R <=> m[b].age <= m[a].age
    OBVIOUS
  <2>2. /\ \A a, b \in S : <<a, b>> \in R \/ <<b, a>> \in R
        /\ \A a, b, c \in S : <<a, b>> \in R /\ <<b, c>> \in R => <<a, c>> \in R
    <3> HIDE DEF R, S
    <3> QED BY <1>1, <2>1
  <2> HIDE DEF R
  <2>3. PICK k \in S : \A j \in S : <<k, j>> \in R
    <3> HIDE DEF S
    <3> QED BY <1>5, <2>2, LeastOfPreorder DEF S
  <2>4. ages = 0 .. m[k].age
    <3>1. \A j \in S : m[j].age \in 0 .. m[k].age
      <4> HIDE DEF S
      <4>1. \A j \in S : m[j].age <= m[k].age
        BY <2>1, <2>3
      <4> QED BY <1>1, <4>1
    <3>2. 0 .. m[k].age \subseteq ages
      BY DEF Ranked
    <3> QED BY <3>1, <3>2
  <2>5. m[k].age \in Nat /\ Cardinality(0 .. m[k].age) = m[k].age + 1
    BY <1>1, FS_Interval
  <2>6. n = m[k].age + 1
    BY <1>3, <2>4, <2>5
  <2> HIDE DEF n
  <2>7. ages = 0 .. n - 1
    BY <2>4, <2>5, <2>6
  <2> QED BY <2>7 DEF n
<1> QED BY <1>4, <1>5

\* used_bytes is what the map weighs and within the budget, whatever the loads,
\* handlers and panics do (put_if_epoch, get, clear and the recovery in lock).
THEOREM AccountBalances == Spec => []Accounting
<1>1. Init => Ledger
  BY EmptyBalanced DEF Init, Ledger, Balanced
<1>2. IInv /\ Ledger /\ [Next]_vars => Ledger'
  BY LedgerNext
<1>3. TypeOK /\ Ledger => Accounting
  <2> SUFFICES ASSUME TypeOK, Ledger, mutex = "sound"
               PROVE  {map[k].age : k \in DOMAIN map} = 0 .. Cardinality(DOMAIN map) - 1
    BY DEF Ledger, Accounting
  <2>1. IsMap(map) /\ IsFiniteSet(DOMAIN map) /\ Ranked(map)
    BY DEF TypeOK, IsMap, Entries, Ledger
  <2> QED BY <2>1, RanksOfAll
<1>4. IInv => TypeOK
  BY DEF IInv
<1> QED BY <1>1, <1>2, <1>3, <1>4, Invariance, PTL DEF Spec
=============================================================================
