-------------------------- MODULE EphLayersProofs --------------------------
(***************************************************************************)
(* EphLayers proved for every number of projects, queries, mutations and   *)
(* layers: type correctness, one layer per hash, no orphans, the doomed    *)
(* closure's completeness for what it saw, and the finality of a purge     *)
(* for every layer that does not resolve a location.                       *)
(***************************************************************************)
EXTENDS EphLayers, FiniteSetTheorems, TLAPS

-----------------------------------------------------------------------------
(* The inductive invariant.                                                *)

Drawn == 1 .. nextId - 1
Chains == UNION {[R -> Seq(Drawn)] : R \in SUBSET Roots}
Layers == [root : Roots, verb : Verbs, parent : 0 .. MaxId, extra : Refs,
           base : 0 .. MaxId, ver : 0 .. MaxRows, to : 0 .. MaxId,
           rows : {"whole", "hollow"}, used : {"fresh", "old"}]
Queries == [st : {"idle", "ready", "run", "cancelled"}, verb : Verbs \cup {NoRef},
            ref : Refs, memo : {NoMemo} \cup [Roots -> 0 .. MaxRows], chain : Chains]
Futures == [pc : FutPcs, role : {"base", "supplement"}, own : {"live", "dropped"},
            id : 0 .. nextId - 1, base : 0 .. nextId - 1, ver : 0 .. MaxRows]
Mutations == [op : {"none", "chunk", "finalize", "delete", "purge", "clear"},
              pc : {"idle", "claimed", "inserted", "marked", "delRow", "delRoot",
                    "wantExcl", "excl"},
              root : Roots \cup {NoRef}]

\* The full types of the variables.
Types ==
  /\ rows \in [Roots -> 0 .. MaxRows]
  /\ floor \in [Roots -> 0 .. MaxRows]
  /\ status \in [Roots -> {"uploading", "complete", "deleting", "gone"}]
  /\ nextId \in 1 .. MaxId + 1
  /\ DOMAIN lay \subseteq Drawn
  /\ lay \in [DOMAIN lay -> Layers]
  /\ req \in [Requests -> Queries]
  /\ fut \in [Requests -> [Roots -> Futures]]
  /\ wr \in [Writers -> Mutations]
  /\ gc \in [pc : {"idle", "scanned"}, doomed : SUBSET Drawn, seen : SUBSET Drawn]

\* The chunks that may still be committed stay within the bound.
Uploads(p) == {x \in Writers : wr[x].op = "chunk" /\ wr[x].root = p}
Quota ==
  /\ \A p \in Roots : floor[p] <= rows[p] /\ rows[p] + Cardinality(Uploads(p)) <= MaxRows
  /\ \A w \in Writers : wr[w].op = "chunk" => wr[w].root \in Roots

\* The table lock: whoever has it exclusively is alone.
Exclusive ==
  \A w \in Writers : wr[w].pc = "excl" =>
    gc.pc = "idle" /\ \A r \in Requests, p \in Roots : fut[r][p].pc \notin Txns

\* A future belongs to a running statement, or is a dropped transaction.
Attached(r, p) ==
  /\ fut[r][p].pc # "none" =>
       /\ req[r].st \in {"run", "cancelled"} /\ req[r].verb \in Verbs
       /\ p \in DOMAIN req[r].chain
  /\ req[r].st = "run" => /\ fut[r][p].own = "live"
                          /\ p \in DOMAIN req[r].chain => fut[r][p].pc # "none"
  /\ fut[r][p].own = "dropped" => fut[r][p].pc \in Txns
  /\ fut[r][p].role = "supplement" =>
       p \in DOMAIN req[r].chain /\ req[r].chain[p] # <<>> /\ fut[r][p].base \in Drawn
  /\ fut[r][p].role = "base" => fut[r][p].base = 0
  /\ fut[r][p].pc = "none" => fut[r][p].role = "base"
  /\ fut[r][p].pc = "done" \/ HasRow(r, p) => fut[r][p].id \in Drawn

\* What an open layer transaction relies on is there, and stays there: its
\* row, its parent and base, the symbols its rows point at, its project.
Anchored(r, p) ==
  /\ fut[r][p].pc = "hit" => fut[r][p].id \in DOMAIN lay
  /\ Created(r, p) =>
       /\ status[p] # "gone"
       /\ Parents(r, p) \subseteq DOMAIN lay
       /\ fut[r][p].id \notin DOMAIN lay \cup gc.seen
       /\ \A i \in DOMAIN lay : KeyOf(lay[i]) # Key(r, p)
  /\ fut[r][p].pc = "filled" /\ Points(r, p) => req[r].ref.to \in DOMAIN lay
  /\ fut[r][p].pc = "empty" => ~Points(r, p)

\* The layers row of a key is made by one transaction at a time.
Apart ==
  \A r, s \in Requests, p, q \in Roots : Created(r, p) /\ Created(s, q) =>
    /\ Key(r, p) = Key(s, q) => r = s /\ p = q
    /\ fut[r][p].id = fut[s][q].id => r = s /\ p = q

\* Rows read for a search are not older than the last purge.
Recent(r, p) ==
  fut[r][p].pc \in {"scanned", "filled", "empty"} /\ fut[r][p].role = "base"
    /\ req[r].verb \notin Blocks \cup Locs => fut[r][p].ver >= floor[p]

\* A purge is final for searches.
SearchesAreFinal ==
  \A i \in DOMAIN lay :
    Scans(lay[i]) /\ lay[i].verb \notin Locs => lay[i].ver >= floor[lay[i].root]

\* A layer that has all its rows has the layer they point at.
Grounded == \A i \in DOMAIN lay : lay[i].rows = "whole" => lay[i].to \in DOMAIN lay \cup {0}

\* What the collector saw: the doomed set is closed within it, and no layer in
\* it refers to a later one.
Snapshot ==
  gc.pc = "scanned" =>
    \A i \in gc.seen \cap DOMAIN lay :
      /\ Needs(i) \cap gc.doomed # {} => i \in gc.doomed
      /\ {lay[i].parent, lay[i].base} \subseteq gc.seen \cup {0}
      /\ lay[i].rows = "whole" => lay[i].to \in gc.seen \cup {0}

IInv ==
  /\ Types
  /\ Quota
  /\ Exclusive
  /\ \A r \in Requests, p \in Roots : Attached(r, p) /\ Anchored(r, p) /\ Recent(r, p)
  /\ Apart
  /\ SearchesAreFinal
  /\ NoOrphan
  /\ OneLayerPerHash
  /\ Grounded
  /\ Snapshot

-----------------------------------------------------------------------------
(* Chains, closures, and the table lock.                                   *)

\* A chain per root.
LEMMA ChainsIntro == ASSUME NEW R \in SUBSET Roots, NEW c \in [R -> Seq(Drawn)] PROVE c \in Chains
BY DEF Chains

\* What a chain is made of.
LEMMA ChainsElim ==
  ASSUME NEW c \in Chains
  PROVE  DOMAIN c \subseteq Roots /\ c \in [DOMAIN c -> Seq(Drawn)]
BY DEF Chains

\* The sets that grow with the sequence stay the same without a draw.
LEMMA SameSets ==
  ASSUME UNCHANGED nextId
  PROVE  Drawn' = Drawn /\ Futures' = Futures /\ Queries' = Queries
BY DEF Drawn, Futures, Queries, Chains

\* The last layer of a chain that has one.
LEMMA LastIsDrawn ==
  ASSUME Types, NEW r \in Requests, NEW p \in DOMAIN req[r].chain, req[r].chain[p] # <<>>
  PROVE  ChainLast(r, p) \in Drawn
<1>1. req[r].chain \in Chains
  BY DEF Types, Queries
<1>2. req[r].chain[p] \in Seq(Drawn)
  BY <1>1, ChainsElim
<1>3. Len(req[r].chain[p]) \in 1 .. Len(req[r].chain[p])
  BY <1>2
<1> QED BY <1>2, <1>3 DEF ChainLast, Last

\* The doomed closure has its seed and everything that needs something in it.
LEMMA DoomedIsClosed ==
  ASSUME NEW seed \in SUBSET DOMAIN lay
  PROVE  /\ seed \subseteq DoomedClosure(seed)
         /\ DoomedClosure(seed) \subseteq DOMAIN lay
         /\ \A i \in DOMAIN lay : Needs(i) \cap DoomedClosure(seed) # {} => i \in DoomedClosure(seed)
BY DEF DoomedClosure, Up

\* The cascade takes the layers it starts from and all their children ...
LEMMA CascadeIsClosed ==
  ASSUME NEW T
  PROVE  /\ T \cap DOMAIN lay \subseteq Cascade(T)
         /\ Cascade(T) \subseteq DOMAIN lay
         /\ \A i \in DOMAIN lay : {lay[i].parent, lay[i].base} \cap Cascade(T) # {} => i \in Cascade(T)
BY DEF Cascade, Children

\* ... and nothing else.
LEMMA CascadeIsLeast ==
  ASSUME NEW T, NEW S \in SUBSET DOMAIN lay, T \cap DOMAIN lay \subseteq S,
         \A i \in DOMAIN lay : {lay[i].parent, lay[i].base} \cap S # {} => i \in S
  PROVE  Cascade(T) \subseteq S
BY DEF Cascade, Children

\* The table lock is granted exclusively only to a writer that is alone.
LEMMA ExclusiveIsAlone ==
  ASSUME Types, NEW w \in Writers, TableHolders \subseteq {w}
  PROVE  gc.pc = "idle" /\ \A r \in Requests, p \in Roots : fut[r][p].pc \notin Txns
<1> USE LayersAssumption
<1>1. gc.pc = "idle"
  BY DEF TableHolders, Collector
<1>2. ASSUME NEW r \in Requests, NEW p \in Roots, fut[r][p].pc \in Txns PROVE FALSE
  <2>1. <<r, p>> \in TableHolders
    BY <1>2 DEF TableHolders
  <2> QED BY <2>1
<1> QED BY <1>1, <1>2

\* Futures and queries that do not change mean what they meant.
LEMMA SameFutures ==
  ASSUME UNCHANGED <<fut, req>>, NEW r \in Requests, NEW p \in Roots
  PROVE  /\ Created(r, p)' <=> Created(r, p)
         /\ HasRow(r, p)' <=> HasRow(r, p)
         /\ Points(r, p)' <=> Points(r, p)
         /\ Key(r, p)' = Key(r, p)
         /\ Parents(r, p)' = Parents(r, p)
BY DEF Created, HasRow, Points, Key, Parents, ChainLast

-----------------------------------------------------------------------------
(* Initially, and the steps of mutations.                                  *)

\* No layer, no query, no mutation.
LEMMA InitInv == Init => IInv
<1> SUFFICES ASSUME Init PROVE IInv
  OBVIOUS
<1> USE LayersAssumption DEF Init
<1>1. Types
  <2>1. [p \in {} |-> <<>>] \in Chains
    <3>1. [p \in {} |-> <<>>] \in [{} -> Seq(Drawn)]
      OBVIOUS
    <3> QED BY <3>1, ChainsIntro
  <2>2. Idle \in Queries
    BY <2>1 DEF Idle, Queries, Refs
  <2>3. NoFut \in Futures
    BY DEF NoFut, Futures, FutPcs, Txns
  <2>4. NoOp \in Mutations
    BY DEF NoOp, Mutations
  <2>5. NoGc \in [pc : {"idle", "scanned"}, doomed : SUBSET Drawn, seen : SUBSET Drawn]
    BY DEF NoGc
  <2>6. DOMAIN lay = {} /\ lay \in [DOMAIN lay -> Layers]
    OBVIOUS
  <2> QED BY <2>2, <2>3, <2>4, <2>5, <2>6 DEF Types, Drawn
<1>2. Quota
  <2>1. \A p \in Roots : Uploads(p) = {}
    BY DEF Uploads, NoOp
  <2>2. \A p \in Roots : Cardinality(Uploads(p)) = 0
    BY <2>1, FS_EmptySet
  <2>3. \A w \in Writers : wr[w].op # "chunk"
    BY DEF NoOp
  <2> HIDE DEF Init
  <2>4. \A p \in Roots : floor[p] = 0 /\ rows[p] = 0
    BY DEF Init
  <2> QED BY <2>2, <2>3, <2>4 DEF Quota
<1>3. Exclusive /\ SearchesAreFinal /\ NoOrphan /\ Grounded /\ Snapshot
  BY DEF Exclusive, NoOp, SearchesAreFinal, NoOrphan, Grounded, Snapshot, NoGc
<1>4. \A r \in Requests, p \in Roots :
        Attached(r, p) /\ Anchored(r, p) /\ Recent(r, p) /\ ~Created(r, p)
  BY DEF Attached, Anchored, Recent, Created, HasRow, NoFut, Idle, Txns
<1>5. Apart /\ OneLayerPerHash
  BY <1>4 DEF Apart, OneLayerPerHash
<1> QED BY <1>1, <1>2, <1>3, <1>4, <1>5 DEF IInv

\* A mutation that publishes nothing but the rows of a chunk.
LEMMA WriterStep ==
  ASSUME IInv, UNCHANGED <<lay, nextId, req, fut, gc, floor>>,
         wr' \in [Writers -> Mutations],
         status' \in [Roots -> {"uploading", "complete", "deleting", "gone"}],
         \A p \in Roots : status[p] # "gone" => status'[p] # "gone",
         rows' \in [Roots -> 0 .. MaxRows], Quota', Exclusive'
  PROVE  IInv'
<1>1. Types'
  BY DEF IInv, Types, Drawn, Queries, Chains, Futures
<1>2. \A r \in Requests, p \in Roots : Attached(r, p)' /\ Anchored(r, p)' /\ Recent(r, p)'
  <2> SUFFICES ASSUME NEW r \in Requests, NEW p \in Roots
               PROVE  Attached(r, p)' /\ Anchored(r, p)' /\ Recent(r, p)'
    OBVIOUS
  <2>1. Attached(r, p) /\ Anchored(r, p) /\ Recent(r, p)
    BY DEF IInv
  <2>2. Attached(r, p)'
    BY <2>1, SameFutures DEF Attached, Drawn
  <2>3. Anchored(r, p)'
    BY <2>1, SameFutures DEF Anchored
  <2> QED BY <2>1, <2>2, <2>3 DEF Recent
<1>3. Apart' /\ OneLayerPerHash'
  BY SameFutures DEF IInv, Apart, OneLayerPerHash
<1>4. NoOrphan'
  BY DEF IInv, NoOrphan, Types, Layers
<1>5. SearchesAreFinal' /\ Grounded' /\ Snapshot'
  BY DEF IInv, SearchesAreFinal, Grounded, Snapshot, Needs
<1> QED BY <1>1, <1>2, <1>3, <1>4, <1>5 DEF IInv

\* No writer takes up a chunk, so the bound stays out of reach.
LEMMA QuotaStays ==
  ASSUME Types, Quota, UNCHANGED <<rows, floor>>, NEW w \in Writers,
         wr' \in [Writers -> Mutations], \A x \in Writers \ {w} : wr'[x] = wr[x],
         wr'[w].op = "chunk" => wr[w].op = "chunk" /\ wr'[w].root = wr[w].root
  PROVE  Quota'
<1>1. \A p \in Roots : Uploads(p)' \subseteq Uploads(p) /\ IsFiniteSet(Uploads(p))
  BY LayersAssumption, FS_Subset DEF Uploads
<1>2. \A p \in Roots : /\ Cardinality(Uploads(p)') <= Cardinality(Uploads(p))
                       /\ Cardinality(Uploads(p)') \in Nat /\ Cardinality(Uploads(p)) \in Nat
  BY <1>1, FS_Subset, FS_CardinalityType
<1>3. \A p \in Roots : floor'[p] <= rows'[p] /\ rows'[p] + Cardinality(Uploads(p)') <= MaxRows
  BY <1>2, LayersAssumption DEF Types, Quota
<1>4. \A x \in Writers : wr'[x].op = "chunk" => wr'[x].root \in Roots
  BY DEF Quota
<1> QED BY <1>3, <1>4 DEF Quota

\* The table lock changes hands only through TakeExclusive.
LEMMA ExclusiveStays ==
  ASSUME Exclusive, UNCHANGED <<fut, gc>>, NEW w \in Writers,
         wr' \in [Writers -> Mutations], \A x \in Writers \ {w} : wr'[x] = wr[x],
         wr'[w].pc # "excl"
  PROVE  Exclusive'
BY DEF Exclusive

\* Mutations on their way to their commit.
LEMMA MutationSteps ==
  ASSUME IInv, NEW w \in Writers,
         \/ InsertChunk(w) \/ DeleteRows(w) \/ DeleteRoot(w) \/ RequestExclusive(w)
         \/ ClearCaches(w) \/ RollBackWrite(w) \/ TakeExclusive(w)
         \/ \E p \in Roots : LockForFinalize(w, p) \/ MarkDeleting(w, p) \/ DeleteZombie(w, p)
  PROVE  IInv'
<1>1. Types /\ Quota /\ Exclusive /\ wr[w] \in Mutations
  BY DEF IInv, Types
<1>2. PICK m \in Mutations : /\ wr' = [wr EXCEPT ![w] = m]
                             /\ m.op = "chunk" => wr[w].op = "chunk" /\ m.root = wr[w].root
                             /\ m.pc = "excl" => TableHolders \subseteq {w}
  <2> DEFINE Fit(m) == /\ m \in Mutations
                       /\ wr' = [wr EXCEPT ![w] = m]
                       /\ m.op = "chunk" => wr[w].op = "chunk" /\ m.root = wr[w].root
                       /\ m.pc = "excl" => TableHolders \subseteq {w}
  <2> SUFFICES \E m : Fit(m)
    OBVIOUS
  <2>1. ASSUME NEW pc \in {"inserted", "delRow", "delRoot", "wantExcl"}, Go(w, pc)
        PROVE  Fit([wr[w] EXCEPT !.pc = pc])
    BY <1>1, <2>1 DEF Go, Mutations
  <2>2. ASSUME NEW op \in {"finalize", "delete", "purge", "clear"},
               NEW pc \in {"wantExcl", "marked", "delRow"},
               NEW p \in Roots \cup {NoRef}, Write(w, op, pc, p)
        PROVE  Fit([op |-> op, pc |-> pc, root |-> p])
    BY <2>2 DEF Write, Mutations
  <2>3. ASSUME wr' = [wr EXCEPT ![w] = NoOp] PROVE Fit(NoOp)
    BY <2>3 DEF NoOp, Mutations
  <2>4. ASSUME TakeExclusive(w) PROVE Fit([wr[w] EXCEPT !.pc = "excl"])
    BY <1>1, <2>4 DEF TakeExclusive, Go, Mutations
  <2>5. wr[w].root \in Roots \cup {NoRef}
    BY <1>1 DEF Mutations
  <2> HIDE DEF Fit
  <2>6. CASE InsertChunk(w) \/ DeleteRoot(w) \/ RequestExclusive(w)
    BY <2>1, <2>6 DEF InsertChunk, DeleteRoot, RequestExclusive
  <2>7. CASE DeleteRows(w) \/ ClearCaches(w)
    BY <2>1, <2>2, <2>5, <2>7 DEF DeleteRows, ClearCaches
  <2>8. CASE RollBackWrite(w) \/ TakeExclusive(w)
    BY <2>3, <2>4, <2>8 DEF RollBackWrite
  <2>9. CASE \E p \in Roots : LockForFinalize(w, p) \/ MarkDeleting(w, p) \/ DeleteZombie(w, p)
    BY <2>2, <2>9 DEF LockForFinalize, MarkDeleting, DeleteZombie
  <2> QED BY <2>6, <2>7, <2>8, <2>9
<1>3. UNCHANGED <<rows, lay, nextId, req, fut, gc, floor>>
  BY DEF InsertChunk, DeleteRows, DeleteRoot, RequestExclusive, ClearCaches, RollBackWrite,
         TakeExclusive, LockForFinalize, MarkDeleting, DeleteZombie
<1>4. /\ status' \in [Roots -> {"uploading", "complete", "deleting", "gone"}]
      /\ \A p \in Roots : status[p] # "gone" => status'[p] # "gone"
  BY DEF InsertChunk, DeleteRows, DeleteRoot, RequestExclusive, ClearCaches, RollBackWrite,
         TakeExclusive, LockForFinalize, MarkDeleting, DeleteZombie, IInv, Types
<1>5. wr' \in [Writers -> Mutations] /\ wr'[w] = m /\ \A x \in Writers \ {w} : wr'[x] = wr[x]
  BY <1>2 DEF IInv, Types
<1>6. Quota'
  BY <1>1, <1>2, <1>3, <1>5, QuotaStays
<1>7. Exclusive'
  <2>1. CASE m.pc = "excl"
    <3>1. gc.pc = "idle" /\ \A r \in Requests, p \in Roots : fut[r][p].pc \notin Txns
      BY <1>1, <1>2, <2>1, ExclusiveIsAlone
    <3> QED BY <1>3, <3>1 DEF Exclusive
  <2>2. CASE m.pc # "excl"
    BY <1>1, <1>3, <1>5, <2>2, ExclusiveStays
  <2> QED BY <2>1, <2>2
<1>8. rows' \in [Roots -> 0 .. MaxRows]
  BY <1>1, <1>3 DEF Types
<1> QED BY <1>3, <1>4, <1>5, <1>6, <1>7, <1>8, WriterStep

\* A chunk is taken up while there is room for it, and committed.
LEMMA ChunkSteps ==
  ASSUME IInv, NEW w \in Writers, (\E p \in Roots : ClaimChunk(w, p)) \/ CommitChunk(w)
  PROVE  IInv'
<1> USE LayersAssumption
<1>1. Types /\ Quota /\ Exclusive
  BY DEF IInv
<1>2. \A p \in Roots : IsFiniteSet(Uploads(p)) /\ Cardinality(Uploads(p)) \in Nat
  BY FS_Subset, FS_CardinalityType DEF Uploads
<1>3. ASSUME NEW p \in Roots, ClaimChunk(w, p) PROVE IInv'
  <2> DEFINE m == [op |-> "chunk", pc |-> "claimed", root |-> p]
  <2>1. m \in Mutations /\ wr' = [wr EXCEPT ![w] = m]
          /\ UNCHANGED <<rows, status, lay, nextId, req, fut, gc, floor>>
    BY <1>3 DEF ClaimChunk, Write, Mutations
  <2>2. wr' \in [Writers -> Mutations] /\ wr'[w] = m /\ \A x \in Writers \ {w} : wr'[x] = wr[x]
    BY <1>1, <2>1 DEF Types
  <2>3. Uploads(p)' \subseteq Uploads(p) \cup {w} /\ \A q \in Roots : q # p => Uploads(q)' \subseteq Uploads(q)
    BY <2>2 DEF Uploads
  <2>4. rows[p] + Cardinality(Uploads(p)) < MaxRows
    BY <1>3 DEF ClaimChunk, Uploads
  <2>5. Quota'
    <3>1. ASSUME NEW q \in Roots PROVE rows[q] + Cardinality(Uploads(q)') <= MaxRows
      <4>1. CASE q = p
        <5>0. /\ IsFiniteSet(Uploads(p) \cup {w})
              /\ Cardinality(Uploads(p) \cup {w}) \in {Cardinality(Uploads(p)), Cardinality(Uploads(p)) + 1}
          BY <1>2, FS_AddElement
        <5>1. /\ IsFiniteSet(Uploads(p) \cup {w})
              /\ Cardinality(Uploads(p) \cup {w}) <= Cardinality(Uploads(p)) + 1
              /\ Cardinality(Uploads(p) \cup {w}) \in Nat
          BY <1>2, <5>0
        <5>2. Cardinality(Uploads(p)') <= Cardinality(Uploads(p) \cup {w}) /\ Cardinality(Uploads(p)') \in Nat
          BY <2>3, <5>1, FS_Subset, FS_CardinalityType
        <5> QED BY <1>1, <1>2, <2>4, <4>1, <5>1, <5>2 DEF Types
      <4>2. CASE q # p
        <5>1. Cardinality(Uploads(q)') <= Cardinality(Uploads(q)) /\ Cardinality(Uploads(q)') \in Nat
          BY <1>2, <2>3, <4>2, FS_Subset, FS_CardinalityType
        <5> QED BY <1>1, <1>2, <5>1 DEF Types, Quota
      <4> QED BY <4>1, <4>2
    <3>2. \A x \in Writers : wr'[x].op = "chunk" => wr'[x].root \in Roots
      BY <1>1, <2>2 DEF Quota
    <3> QED BY <1>1, <2>1, <3>1, <3>2 DEF Quota
  <2>6. Exclusive'
    BY <1>1, <2>1, <2>2, ExclusiveStays
  <2> QED BY <1>1, <2>1, <2>2, <2>5, <2>6, WriterStep DEF Types
<1>4. ASSUME CommitChunk(w) PROVE IInv'
  <2>1. PICK p \in Roots :
        /\ wr[w].op = "chunk" /\ p = wr[w].root
        /\ rows' = [rows EXCEPT ![p] = @ + 1] /\ wr' = [wr EXCEPT ![w] = NoOp]
        /\ UNCHANGED <<status, lay, nextId, req, fut, gc, floor>>
    BY <1>1, <1>4 DEF CommitChunk, Quota
  <2>2. NoOp \in Mutations /\ NoOp.op = "none" /\ NoOp.pc = "idle"
    BY DEF NoOp, Mutations
  <2>3. wr' \in [Writers -> Mutations] /\ wr'[w] = NoOp /\ \A x \in Writers \ {w} : wr'[x] = wr[x]
    BY <1>1, <2>1, <2>2 DEF Types
  <2>4. Uploads(p)' = Uploads(p) \ {w} /\ w \in Uploads(p)
          /\ \A q \in Roots : q # p => Uploads(q)' \subseteq Uploads(q)
    BY <2>1, <2>2, <2>3 DEF Uploads
  <2>5. Cardinality(Uploads(p)') = Cardinality(Uploads(p)) - 1 /\ Cardinality(Uploads(p)') \in Nat
    BY <1>2, <2>1, <2>4, FS_RemoveElement, FS_CardinalityType
  <2>6. rows'[p] = rows[p] + 1 /\ \A q \in Roots : q # p => rows'[q] = rows[q]
    BY <1>1, <2>1 DEF Types
  <2>7. ASSUME NEW q \in Roots PROVE floor[q] <= rows'[q] /\ rows'[q] + Cardinality(Uploads(q)') <= MaxRows
    <3>1. CASE q = p
      BY <1>1, <1>2, <2>1, <2>5, <2>6, <3>1 DEF Types, Quota
    <3>2. CASE q # p
      <4>1. Cardinality(Uploads(q)') <= Cardinality(Uploads(q)) /\ Cardinality(Uploads(q)') \in Nat
        BY <1>2, <2>4, <3>2, FS_Subset, FS_CardinalityType
      <4> QED BY <1>1, <1>2, <2>6, <3>2, <4>1 DEF Types, Quota
    <3> QED BY <3>1, <3>2
  <2>8. rows' \in [Roots -> 0 .. MaxRows]
    <3>1. rows[p] + 1 \in 0 .. MaxRows
      BY <1>1, <1>2, <2>1, <2>5, <2>6, <2>7 DEF Types
    <3> QED BY <1>1, <2>1, <3>1 DEF Types
  <2>9. Quota'
    BY <1>1, <2>1, <2>2, <2>3, <2>7 DEF Quota
  <2>10. Exclusive'
    BY <1>1, <2>1, <2>2, <2>3, ExclusiveStays
  <2> QED BY <1>1, <2>1, <2>3, <2>8, <2>9, <2>10, WriterStep DEF Types
<1> QED BY <1>3, <1>4

-----------------------------------------------------------------------------
(* Steps of one future.                                                    *)

\* A query is the same as before, apart from what loc has resolved.
SameQuery(s) ==
  /\ req'[s].st = req[s].st
  /\ req'[s].verb = req[s].verb
  /\ req'[s].ref = req[s].ref
  /\ req'[s].chain = req[s].chain

\* A future and a query that are the same mean the same.
LEMMA OtherFuture ==
  ASSUME NEW s \in Requests, NEW q \in Roots, fut'[s][q] = fut[s][q], SameQuery(s)
  PROVE  /\ Created(s, q)' <=> Created(s, q)
         /\ HasRow(s, q)' <=> HasRow(s, q)
         /\ Points(s, q)' <=> Points(s, q)
         /\ Key(s, q)' = Key(s, q)
         /\ Parents(s, q)' = Parents(s, q)
BY DEF Created, HasRow, Points, Key, Parents, ChainLast, SameQuery

\* The layers are the same, apart from when they were used.
Touched ==
  /\ DOMAIN lay' = DOMAIN lay
  /\ lay' \in [DOMAIN lay -> Layers]
  /\ \A i \in DOMAIN lay :
       /\ KeyOf(lay'[i]) = KeyOf(lay[i])
       /\ lay'[i].root = lay[i].root /\ lay'[i].verb = lay[i].verb
       /\ lay'[i].parent = lay[i].parent /\ lay'[i].base = lay[i].base
       /\ lay'[i].ver = lay[i].ver /\ lay'[i].to = lay[i].to /\ lay'[i].rows = lay[i].rows

\* Nothing is touched, or last_used is.
LEMMA TouchedBy ==
  ASSUME Types, UNCHANGED lay \/ \E i \in DOMAIN lay, u \in {"fresh", "old"} :
                                   lay' = [lay EXCEPT ![i].used = u]
  PROVE  Touched
<1>1. CASE UNCHANGED lay
  BY <1>1 DEF Types, Touched
<1>2. ASSUME NEW i \in DOMAIN lay, NEW u \in {"fresh", "old"}, lay' = [lay EXCEPT ![i].used = u]
      PROVE  Touched
  <2>1. DOMAIN lay' = DOMAIN lay /\ lay' \in [DOMAIN lay -> Layers]
    <3> DEFINE l == [lay[i] EXCEPT !.used = u]
    <3>1. lay' = [lay EXCEPT ![i] = l]
      BY <1>2
    <3>2. lay[i] \in Layers
      BY DEF Types
    <3>3. l \in Layers
      BY <3>2 DEF Layers
    <3> HIDE DEF l
    <3> QED BY <3>1, <3>3 DEF Types
  <2>2. \A j \in DOMAIN lay :
          /\ lay'[j].root = lay[j].root /\ lay'[j].verb = lay[j].verb
          /\ lay'[j].parent = lay[j].parent /\ lay'[j].base = lay[j].base
          /\ lay'[j].ver = lay[j].ver /\ lay'[j].to = lay[j].to /\ lay'[j].rows = lay[j].rows
          /\ lay'[j].extra = lay[j].extra
    BY <1>2 DEF Types, Layers
  <2> QED BY <2>1, <2>2 DEF Touched, KeyOf
<1> QED BY <1>1, <1>2

\* What is said of layers alone does not depend on when they were used.
LEMMA TouchedLayers ==
  ASSUME IInv, Touched, UNCHANGED <<status, floor, gc>>
  PROVE  /\ SearchesAreFinal' /\ NoOrphan' /\ Grounded' /\ Snapshot'
         /\ \A i, j \in DOMAIN lay' : KeyOf(lay'[i]) = KeyOf(lay'[j]) => i = j
<1>1. SearchesAreFinal' /\ NoOrphan' /\ Grounded'
  BY DEF IInv, Touched, SearchesAreFinal, Scans, NoOrphan, Grounded
<1>2. Snapshot'
  BY DEF IInv, Touched, Snapshot, Needs
<1>3. \A i, j \in DOMAIN lay' : KeyOf(lay'[i]) = KeyOf(lay'[j]) => i = j
  BY DEF IInv, Touched, OneLayerPerHash
<1> QED BY <1>1, <1>2, <1>3

\* Futures at their start, and failed ones.
LEMMA FreshFuture ==
  ASSUME Types
  PROVE  /\ NoFut \in Futures
         /\ \A pc \in FutPcs : [NoFut EXCEPT !.pc = pc] \in Futures
<1>1. 0 \in 0 .. nextId - 1 /\ 0 \in 0 .. MaxRows
  BY LayersAssumption DEF Types
<1>2. NoFut \in Futures
  BY <1>1 DEF NoFut, Futures, FutPcs
<1> QED BY <1>2 DEF Futures

\* One future moves: what the others rely on is not touched.
LEMMA OneFuture ==
  ASSUME IInv, NEW r \in Requests, NEW p \in Roots, NEW f \in Futures,
         fut' = [fut EXCEPT ![r][p] = f],
         req' \in [Requests -> Queries], \A s \in Requests : SameQuery(s),
         UNCHANGED <<rows, status, nextId, wr, gc, floor>>, Touched,
         Attached(r, p)', Anchored(r, p)', Recent(r, p)',
         f.pc \in Txns => fut[r][p].pc \in Txns \/ Excluding = {},
         Created(r, p)' => /\ Created(r, p)
                           /\ f.role = fut[r][p].role /\ f.id = fut[r][p].id
  PROVE  IInv'
<1>1. fut' \in [Requests -> [Roots -> Futures]] /\ fut'[r][p] = f
        /\ \A s \in Requests, q \in Roots : <<s, q>> # <<r, p>> => fut'[s][q] = fut[s][q]
  BY DEF IInv, Types
<1>2. Types'
  BY <1>1 DEF IInv, Types, Touched, Drawn, Futures, Queries, Chains
<1>3. Quota'
  BY DEF IInv, Quota, Uploads
<1>4. Exclusive'
  BY <1>1 DEF IInv, Exclusive, Excluding
<1>5. ASSUME NEW s \in Requests, NEW q \in Roots
      PROVE  Attached(s, q)' /\ Anchored(s, q)' /\ Recent(s, q)'
  <2>1. CASE <<s, q>> = <<r, p>>
    BY <2>1
  <2>2. CASE <<s, q>> # <<r, p>>
    <3>1. fut'[s][q] = fut[s][q] /\ SameQuery(s) /\ Attached(s, q) /\ Anchored(s, q) /\ Recent(s, q)
      BY <1>1, <2>2 DEF IInv
    <3>2. Attached(s, q)'
      BY <3>1, OtherFuture DEF Attached, SameQuery, Drawn
    <3>3. Anchored(s, q)'
      BY <3>1, OtherFuture DEF Anchored, SameQuery, Touched
    <3>4. Recent(s, q)'
      BY <3>1 DEF Recent, SameQuery
    <3> QED BY <3>2, <3>3, <3>4
  <2> QED BY <2>1, <2>2
<1>6. \A s \in Requests, q \in Roots : Created(s, q)' =>
        Created(s, q) /\ Key(s, q)' = Key(s, q) /\ fut'[s][q].id = fut[s][q].id
  <2> SUFFICES ASSUME NEW s \in Requests, NEW q \in Roots, Created(s, q)'
               PROVE  Created(s, q) /\ Key(s, q)' = Key(s, q) /\ fut'[s][q].id = fut[s][q].id
    OBVIOUS
  <2>1. CASE <<s, q>> = <<r, p>>
    <3>1. s = r /\ q = p
      BY <2>1
    <3> QED BY <1>1, <3>1 DEF Key, ChainLast, SameQuery
  <2>2. CASE <<s, q>> # <<r, p>>
    BY <1>1, <2>2, OtherFuture
  <2> QED BY <2>1, <2>2
<1>7. Apart'
  BY <1>6 DEF IInv, Apart
<1>8. OneLayerPerHash'
  <2>1. \A s \in Requests, q \in Roots : Created(s, q)' => \A i \in DOMAIN lay' : KeyOf(lay'[i]) # Key(s, q)'
    BY <1>6 DEF IInv, OneLayerPerHash, Touched
  <2> QED BY <2>1, TouchedLayers DEF OneLayerPerHash
<1> QED BY <1>2, <1>3, <1>4, <1>5, <1>7, <1>8, TouchedLayers DEF IInv

\* The lock on the table is granted, or the transaction is rolled back.
LEMMA QueueSteps ==
  ASSUME IInv, NEW r \in Requests, NEW p \in Roots, LockTable(r, p) \/ FailLayer(r, p)
  PROVE  IInv'
<1>1. /\ UNCHANGED <<rows, status, lay, nextId, req, wr, gc, floor>>
      /\ fut[r][p].own = "live" /\ fut[r][p].pc \in Txns \cup {"want"}
  BY DEF LockTable, FailLayer, Running
<1>2. Types /\ fut[r][p] \in Futures /\ Attached(r, p)
  BY DEF IInv, Types
<1>3. Touched /\ req' \in [Requests -> Queries] /\ \A s \in Requests : SameQuery(s)
  BY <1>1, <1>2, TouchedBy DEF Types, SameQuery
<1>4. CASE LockTable(r, p)
  <2> DEFINE f == [fut[r][p] EXCEPT !.pc = "queued"]
  <2>1. /\ f \in Futures /\ f.pc = "queued"
        /\ f.own = fut[r][p].own /\ f.role = fut[r][p].role /\ f.id = fut[r][p].id
        /\ f.base = fut[r][p].base
    BY <1>2 DEF Futures, FutPcs, Txns
  <2>2. fut' = [fut EXCEPT ![r][p] = f] /\ Excluding = {} /\ fut[r][p].pc = "want"
    BY <1>4 DEF LockTable, Step, Running
  <2> HIDE DEF f
  <2>3. fut'[r][p] = f
    BY <1>2, <2>2 DEF IInv, Types
  <2>4. ~Created(r, p)' /\ ~HasRow(r, p)'
    BY <2>1, <2>3 DEF Created, HasRow
  <2>5. Attached(r, p)'
    BY <1>1, <1>2, <1>3, <2>1, <2>2, <2>3, <2>4 DEF Attached, SameQuery, Drawn
  <2>6. Anchored(r, p)' /\ Recent(r, p)'
    BY <2>1, <2>3, <2>4 DEF Anchored, Recent
  <2> QED BY <1>1, <1>3, <2>1, <2>2, <2>4, <2>5, <2>6, OneFuture
<1>5. CASE FailLayer(r, p)
  <2> DEFINE f == [NoFut EXCEPT !.pc = "failed"]
  <2>1. /\ f \in Futures /\ f.pc = "failed" /\ f.own = "live" /\ f.role = "base" /\ f.base = 0
    BY <1>2, FreshFuture DEF NoFut, FutPcs
  <2>2. fut' = [fut EXCEPT ![r][p] = f] /\ fut[r][p].pc \in Txns
    BY <1>5 DEF FailLayer, Step
  <2> HIDE DEF f
  <2>3. fut'[r][p] = f
    BY <1>2, <2>2 DEF IInv, Types
  <2>4. ~Created(r, p)' /\ ~HasRow(r, p)' /\ f.pc \notin Txns
    BY <2>1, <2>3 DEF Created, HasRow, Txns
  <2>5. Attached(r, p)'
    BY <1>1, <1>2, <1>3, <2>1, <2>2, <2>3, <2>4 DEF Attached, SameQuery, Txns
  <2>6. Anchored(r, p)' /\ Recent(r, p)'
    BY <2>1, <2>3, <2>4 DEF Anchored, Recent
  <2> QED BY <1>1, <1>3, <2>1, <2>2, <2>4, <2>5, <2>6, OneFuture
<1> QED BY <1>4, <1>5

\* A populate goes on: the same row, the same hash.
LEMMA PopulateSteps ==
  ASSUME IInv, NEW r \in Requests, NEW p \in Roots, Scan(r, p) \/ Fill(r, p)
  PROVE  IInv'
<1> USE LayersAssumption
<1>1. UNCHANGED <<rows, status, lay, nextId, wr, gc, floor>> /\ fut[r][p].own = "live"
        /\ fut[r][p].pc \in {"open", "scanned"}
  BY DEF Scan, Fill, Running
<1>2. Types /\ Quota /\ fut[r][p] \in Futures /\ Attached(r, p) /\ Anchored(r, p) /\ Recent(r, p)
  BY DEF IInv, Types
<1>3. Touched
  BY <1>1, <1>2, TouchedBy
<1>4. \E f \in Futures :
        /\ fut' = [fut EXCEPT ![r][p] = f]
        /\ f.pc \in {"scanned", "filled", "empty"}
        /\ f.own = fut[r][p].own /\ f.role = fut[r][p].role /\ f.id = fut[r][p].id
        /\ f.base = fut[r][p].base
        /\ f.pc = "filled" => f.ver = fut[r][p].ver /\ fut[r][p].pc = "scanned"
                              /\ (Points(r, p) => req[r].ref.to \in DOMAIN lay)
        /\ f.pc # "filled" /\ f.role = "base" /\ req[r].verb \notin Locs => f.ver = rows[p]
        /\ f.pc = "empty" => ~Points(r, p)
  <2>1. CASE Fill(r, p)
    <3> DEFINE f == [fut[r][p] EXCEPT !.pc = "filled"]
    <3>1. f \in Futures /\ fut' = [fut EXCEPT ![r][p] = f]
      BY <1>2, <2>1 DEF Fill, Step, Futures, FutPcs, Txns
    <3>2. /\ f.pc = "filled" /\ f.own = fut[r][p].own /\ f.role = fut[r][p].role
          /\ f.id = fut[r][p].id /\ f.base = fut[r][p].base /\ f.ver = fut[r][p].ver
      BY <1>2 DEF Futures
    <3>3. fut[r][p].pc = "scanned" /\ (Points(r, p) => req[r].ref.to \in DOMAIN lay)
      BY <2>1 DEF Fill, Running
    <3> HIDE DEF f
    <3> QED BY <3>1, <3>2, <3>3
  <2>2. CASE Scan(r, p)
    <3> DEFINE loc == fut[r][p].role = "base" /\ req[r].verb \in Locs
               seen == IF loc THEN Resolved(r) ELSE rows
    <3>1. seen[p] \in 0 .. MaxRows
      BY <1>2 DEF Types, Queries, Resolved
    <3>2. PICK pc \in {"scanned", "empty"} :
            /\ fut' = [fut EXCEPT ![r][p] = [fut[r][p] EXCEPT !.pc = pc, !.ver = seen[p]]]
            /\ Points(r, p) => pc = "scanned"
      BY <2>2 DEF Scan, Step
    <3> HIDE DEF seen
    <3> DEFINE f == [fut[r][p] EXCEPT !.pc = pc, !.ver = seen[p]]
    <3>3. f \in Futures
      BY <1>2, <3>1 DEF Futures, FutPcs, Txns
    <3>4. /\ f.pc = pc /\ f.own = fut[r][p].own /\ f.role = fut[r][p].role
          /\ f.id = fut[r][p].id /\ f.base = fut[r][p].base /\ f.ver = seen[p]
      BY <1>2 DEF Futures
    <3>5. fut' = [fut EXCEPT ![r][p] = f]
      BY <3>2
    <3>6. fut[r][p].role = "base" /\ req[r].verb \notin Locs => seen[p] = rows[p]
      BY DEF seen
    <3> HIDE DEF f
    <3> QED BY <3>2, <3>3, <3>4, <3>5, <3>6
  <2> QED BY <2>1, <2>2
<1>5. PICK f \in Futures :
        /\ fut' = [fut EXCEPT ![r][p] = f]
        /\ f.pc \in {"scanned", "filled", "empty"}
        /\ f.own = fut[r][p].own /\ f.role = fut[r][p].role /\ f.id = fut[r][p].id
        /\ f.base = fut[r][p].base
        /\ f.pc = "filled" => f.ver = fut[r][p].ver /\ fut[r][p].pc = "scanned"
                              /\ (Points(r, p) => req[r].ref.to \in DOMAIN lay)
        /\ f.pc # "filled" /\ f.role = "base" /\ req[r].verb \notin Locs => f.ver = rows[p]
        /\ f.pc = "empty" => ~Points(r, p)
  BY <1>4
<1>6. req' \in [Requests -> Queries] /\ \A s \in Requests : SameQuery(s)
  <2>1. CASE UNCHANGED req
    BY <1>2, <2>1 DEF Types, SameQuery
  <2>2. CASE req' = [req EXCEPT ![r].memo = Resolved(r)]
    <3>1. Resolved(r) \in [Roots -> 0 .. MaxRows]
      BY <1>2 DEF Types, Queries, Resolved
    <3>0. req[r] \in Queries
      BY <1>2 DEF Types
    <3>2. [req[r] EXCEPT !.memo = Resolved(r)] \in Queries
      BY <3>1, <3>0 DEF Queries
    <3>3. req' \in [Requests -> Queries]
      BY <1>2, <2>2, <3>2 DEF Types
    <3>4. \A s \in Requests : SameQuery(s)
      BY <1>2, <2>2 DEF Types, Queries, SameQuery
    <3> QED BY <3>3, <3>4
  <2> QED BY <2>1, <2>2 DEF Scan, Fill
<1>7. fut'[r][p] = f
  BY <1>2, <1>5 DEF Types
<1>8. /\ Created(r, p)' /\ Created(r, p) /\ f.pc \in Txns /\ fut[r][p].pc \in Txns
      /\ HasRow(r, p)' /\ HasRow(r, p)
  BY <1>1, <1>5, <1>7 DEF Created, HasRow, Txns
<1>9. /\ Key(r, p)' = Key(r, p) /\ Parents(r, p)' = Parents(r, p)
      /\ Points(r, p)' <=> Points(r, p)
  BY <1>5, <1>6, <1>7 DEF Key, Parents, Points, ChainLast, SameQuery
<1>10. Attached(r, p)'
  BY <1>1, <1>2, <1>5, <1>6, <1>7, <1>8 DEF Attached, SameQuery, Drawn
<1>11. Anchored(r, p)'
  <2>1. /\ status[p] # "gone" /\ Parents(r, p) \subseteq DOMAIN lay
        /\ fut[r][p].id \notin DOMAIN lay \cup gc.seen
        /\ \A i \in DOMAIN lay : KeyOf(lay[i]) # Key(r, p)
    BY <1>2, <1>8 DEF Anchored
  <2> QED BY <1>1, <1>5, <1>6, <1>7, <1>9, <2>1 DEF Anchored, SameQuery
<1>12. Recent(r, p)'
  BY <1>1, <1>2, <1>5, <1>6, <1>7 DEF Recent, SameQuery, Quota, Types
<1> QED BY <1>1, <1>3, <1>5, <1>6, <1>8, <1>10, <1>11, <1>12, OneFuture

\* The future goes on behind a layer whose transaction is through.
LEMMA AdvanceFuture ==
  ASSUME IInv, NEW r \in Requests, NEW p \in Roots, NEW i \in Drawn, i = fut[r][p].id,
         Advance(r, p, i), fut[r][p].own = "live", HasRow(r, p), UNCHANGED <<req, nextId>>
  PROVE  \E f \in Futures :
           /\ fut' = [fut EXCEPT ![r][p] = f]
           /\ fut'[r][p] = f /\ f.pc \in {"want", "done"} /\ f.pc \notin Txns
           /\ ~Created(r, p)'
           /\ Attached(r, p)' /\ Anchored(r, p)' /\ Recent(r, p)'
<1>1. Types /\ fut[r][p] \in Futures /\ Attached(r, p)
  BY DEF IInv, Types
<1>2. fut[r][p].pc # "none"
  BY DEF HasRow, Txns
<1>3. p \in DOMAIN req[r].chain /\ req[r].verb \in Verbs /\ req[r].st \in {"run", "cancelled"}
  BY <1>1, <1>2 DEF Attached
<1>4. PICK f \in Futures : /\ fut' = [fut EXCEPT ![r][p] = f]
                           /\ f.pc \in {"want", "done"} /\ f.own = "live"
                           /\ f.role = "supplement" => req[r].chain[p] # <<>> /\ f.base \in Drawn
                           /\ f.role = "base" => f.base = 0
                           /\ f.pc = "done" => f.id = i
  <2>1. CASE fut[r][p].role = "base" /\ req[r].chain[p] # <<>>
    <3> DEFINE f == [NoFut EXCEPT !.pc = "want", !.role = "supplement", !.base = i]
    <3>1. fut' = [fut EXCEPT ![r][p] = f]
      BY <2>1 DEF Advance, Step
    <3>2. f.pc = "want" /\ f.own = "live" /\ f.role = "supplement" /\ f.base = i
      BY DEF NoFut
    <3>3. NoFut \in Futures /\ i \in 0 .. nextId - 1
      BY <1>1, FreshFuture DEF Drawn, Types
    <3>4. f \in Futures
      BY <3>3 DEF Futures, FutPcs
    <3> HIDE DEF f
    <3> QED BY <2>1, <3>1, <3>2, <3>4
  <2>2. CASE ~(fut[r][p].role = "base" /\ req[r].chain[p] # <<>>)
    <3> DEFINE f == [fut[r][p] EXCEPT !.pc = "done"]
    <3>1. fut' = [fut EXCEPT ![r][p] = f]
      BY <2>2 DEF Advance, Step
    <3>2. /\ f \in Futures /\ f.pc = "done" /\ f.own = fut[r][p].own /\ f.role = fut[r][p].role
          /\ f.base = fut[r][p].base /\ f.id = fut[r][p].id
      BY <1>1 DEF Futures, FutPcs
    <3> HIDE DEF f
    <3> QED BY <1>1, <3>1, <3>2 DEF Attached
  <2> QED BY <2>1, <2>2
<1>5. fut'[r][p] = f
  BY <1>1, <1>4 DEF Types
<1>6. ~Created(r, p)' /\ ~HasRow(r, p)' /\ f.pc \notin Txns
  BY <1>4, <1>5 DEF Created, HasRow, Txns
<1>7. Attached(r, p)'
  BY <1>1, <1>3, <1>4, <1>5, <1>6 DEF Attached, Drawn
<1>8. Anchored(r, p)' /\ Recent(r, p)'
  BY <1>4, <1>5, <1>6 DEF Anchored, Recent
<1> QED BY <1>4, <1>5, <1>6, <1>7, <1>8

\* A hit: the row is there and stays as it is.
LEMMA HitStep ==
  ASSUME IInv, NEW r \in Requests, NEW p \in Roots, CommitHit(r, p)
  PROVE  IInv'
<1>1. /\ UNCHANGED <<rows, status, nextId, req, wr, gc, floor>>
      /\ fut[r][p].own = "live" /\ fut[r][p].pc = "hit"
      /\ Advance(r, p, fut[r][p].id)
  BY DEF CommitHit, Running
<1>2. Types /\ fut[r][p].id \in DOMAIN lay /\ fut[r][p].id \in Drawn /\ HasRow(r, p)
  BY <1>1 DEF IInv, Types, Anchored, HasRow, Txns
<1>3. Touched
  BY <1>2, TouchedBy DEF CommitHit
<1>4. req' \in [Requests -> Queries] /\ \A s \in Requests : SameQuery(s)
  BY <1>1, <1>2 DEF Types, SameQuery
<1>5. PICK f \in Futures :
           /\ fut' = [fut EXCEPT ![r][p] = f]
           /\ fut'[r][p] = f /\ f.pc \in {"want", "done"} /\ f.pc \notin Txns
           /\ ~Created(r, p)'
           /\ Attached(r, p)' /\ Anchored(r, p)' /\ Recent(r, p)'
  BY <1>1, <1>2, AdvanceFuture
<1> QED BY <1>1, <1>3, <1>4, <1>5, OneFuture

\* A populated layer is committed.
LEMMA CommitStep ==
  ASSUME IInv, NEW r \in Requests, NEW p \in Roots, CommitLayer(r, p)
  PROVE  IInv'
<1> USE LayersAssumption
<1>1. /\ UNCHANGED <<rows, status, nextId, req, wr, gc, floor>>
      /\ fut[r][p].own = "live" /\ fut[r][p].pc \in {"filled", "empty"}
      /\ Advance(r, p, fut[r][p].id)
  BY DEF CommitLayer, Running
<1>2. /\ Types /\ Created(r, p) /\ HasRow(r, p) /\ fut[r][p] \in Futures
      /\ Attached(r, p) /\ Anchored(r, p) /\ Recent(r, p)
  BY <1>1 DEF IInv, Types, Created, HasRow, Txns
<1>3. PICK i \in Drawn : i = fut[r][p].id /\ i \notin DOMAIN lay \cup gc.seen
  BY <1>2 DEF Attached, Anchored
<1>4. PICK f \in Futures :
           /\ fut' = [fut EXCEPT ![r][p] = f]
           /\ fut'[r][p] = f /\ f.pc \in {"want", "done"} /\ f.pc \notin Txns
           /\ ~Created(r, p)'
           /\ Attached(r, p)' /\ Anchored(r, p)' /\ Recent(r, p)'
  BY <1>1, <1>2, <1>3, AdvanceFuture
<1> DEFINE l == [root |-> p, verb |-> req[r].verb, parent |-> Key(r, p).parent,
                 extra |-> Key(r, p).extra, base |-> fut[r][p].base, ver |-> fut[r][p].ver,
                 to |-> IF Points(r, p) THEN req[r].ref.to ELSE 0,
                 rows |-> "whole", used |-> "fresh"]
<1>5. lay' = [j \in DOMAIN lay \cup {i} |-> IF j = i THEN l ELSE lay[j]]
  BY <1>3 DEF CommitLayer
<1>6. KeyOf(l) = Key(r, p)
  BY DEF KeyOf, Key
<1>7. PICK k : k = l
  OBVIOUS
<1>8. /\ k.root = p /\ k.verb = req[r].verb /\ k.base = fut[r][p].base
      /\ k.ver = fut[r][p].ver /\ k.rows = "whole"
      /\ k.parent = IF fut[r][p].role = "base" THEN 0 ELSE ChainLast(r, p)
      /\ k.to = IF Points(r, p) THEN req[r].ref.to ELSE 0
  BY <1>7 DEF Key
<1>9. /\ fut[r][p].role = "supplement" => ChainLast(r, p) \in Drawn
      /\ req[r].verb \in Verbs /\ req[r].ref \in Refs
  <2>1. req[r].ref \in Refs
    BY <1>2 DEF Types, Queries
  <2>2. fut[r][p].pc # "none"
    BY <1>1
  <2> QED BY <1>2, <2>1, <2>2, LastIsDrawn DEF Attached
<1>10. k \in Layers
  <2>1. Drawn \subseteq 0 .. MaxId
    BY <1>2 DEF Types, Drawn
  <2>2. Key(r, p).parent \in 0 .. MaxId
    <3>1. 0 \in 0 .. MaxId
      OBVIOUS
    <3>2. fut[r][p].role \in {"base", "supplement"}
      BY <1>2 DEF Futures
    <3> QED BY <1>9, <2>1, <3>1, <3>2 DEF Key
  <2>3. Key(r, p).extra \in Refs
    BY <1>9 DEF Key, Refs
  <2>4. fut[r][p].base \in 0 .. MaxId /\ fut[r][p].ver \in 0 .. MaxRows
    BY <1>2 DEF Futures, Types
  <2>5. (IF Points(r, p) THEN req[r].ref.to ELSE 0) \in 0 .. MaxId
    BY <1>9 DEF Points, Refs, Ids
  <2> QED BY <1>7, <1>9, <2>2, <2>3, <2>4, <2>5 DEF Layers
<1>11. /\ DOMAIN lay' = DOMAIN lay \cup {i} /\ lay'[i] = k
       /\ \A j \in DOMAIN lay : lay'[j] = lay[j]
       /\ lay' \in [DOMAIN lay' -> Layers]
  BY <1>2, <1>3, <1>5, <1>7, <1>10 DEF Types
<1>12. KeyOf(k) = Key(r, p) /\ \A j \in DOMAIN lay : KeyOf(lay[j]) # Key(r, p)
  BY <1>2, <1>6, <1>7 DEF Anchored
<1> HIDE DEF l
<1>13. /\ fut' \in [Requests -> [Roots -> Futures]]
       /\ \A s \in Requests, q \in Roots : <<s, q>> # <<r, p>> => fut'[s][q] = fut[s][q]
  BY <1>2, <1>4 DEF Types
<1>14. \A s \in Requests, q \in Roots : Created(s, q)' =>
         /\ Created(s, q) /\ Key(s, q)' = Key(s, q) /\ fut'[s][q].id = fut[s][q].id
         /\ Key(s, q) # Key(r, p) /\ fut[s][q].id # i
  <2> SUFFICES ASSUME NEW s \in Requests, NEW q \in Roots, Created(s, q)'
               PROVE  /\ Created(s, q) /\ Key(s, q)' = Key(s, q) /\ fut'[s][q].id = fut[s][q].id
                      /\ Key(s, q) # Key(r, p) /\ fut[s][q].id # i
    OBVIOUS
  <2>1. <<s, q>> # <<r, p>>
    BY <1>4
  <2>2. fut'[s][q] = fut[s][q] /\ SameQuery(s)
    BY <1>1, <1>13, <2>1 DEF SameQuery
  <2>3. Created(s, q) /\ Key(s, q)' = Key(s, q)
    BY <2>2, OtherFuture
  <2> QED BY <1>2, <1>3, <2>1, <2>2, <2>3 DEF IInv, Apart
<1>15. Types'
  <2>1. Drawn' = Drawn /\ Futures' = Futures /\ Queries' = Queries
    BY <1>1, SameSets
  <2> QED BY <1>1, <1>2, <1>3, <1>11, <1>13, <2>1 DEF Types
<1>16. Quota' /\ Exclusive'
  BY <1>1, <1>4, <1>13 DEF IInv, Quota, Uploads, Exclusive
<1>17. ASSUME NEW s \in Requests, NEW q \in Roots
       PROVE  Attached(s, q)' /\ Anchored(s, q)' /\ Recent(s, q)'
  <2>1. CASE <<s, q>> = <<r, p>>
    BY <1>4, <2>1
  <2>2. CASE <<s, q>> # <<r, p>>
    <3>1. fut'[s][q] = fut[s][q] /\ SameQuery(s) /\ Attached(s, q) /\ Anchored(s, q) /\ Recent(s, q)
      BY <1>1, <1>13, <2>2 DEF IInv, SameQuery
    <3>2. Attached(s, q)'
      BY <1>1, <3>1, OtherFuture DEF Attached, SameQuery, Drawn
    <3>3. Anchored(s, q)'
      BY <1>1, <1>11, <1>12, <1>14, <3>1, OtherFuture DEF Anchored, SameQuery
    <3>4. Recent(s, q)'
      BY <1>1, <3>1 DEF Recent, SameQuery
    <3> QED BY <3>2, <3>3, <3>4
  <2> QED BY <2>1, <2>2
<1>18. Apart'
  BY <1>14 DEF IInv, Apart
<1>19. OneLayerPerHash'
  <2>1. \A a, b \in DOMAIN lay' : KeyOf(lay'[a]) = KeyOf(lay'[b]) => a = b
    BY <1>11, <1>12 DEF IInv, OneLayerPerHash
  <2>2. \A s \in Requests, q \in Roots : Created(s, q)' => \A j \in DOMAIN lay' : KeyOf(lay'[j]) # Key(s, q)'
    BY <1>11, <1>12, <1>14 DEF IInv, OneLayerPerHash
  <2> QED BY <2>1, <2>2 DEF OneLayerPerHash
<1>20. NoOrphan'
  <2>1. status[p] # "gone" /\ {k.parent, k.base} \subseteq DOMAIN lay \cup {0}
    <3>1. CASE fut[r][p].role = "base"
      BY <1>2, <1>8, <3>1 DEF Anchored, Attached
    <3>2. CASE fut[r][p].role = "supplement"
      BY <1>2, <1>8, <3>2 DEF Anchored, Parents
    <3> QED BY <1>2, <3>1, <3>2 DEF Futures
  <2> QED BY <1>1, <1>8, <1>11, <2>1 DEF IInv, NoOrphan
<1>21. Grounded'
  BY <1>1, <1>2, <1>8, <1>11 DEF IInv, Grounded, Anchored
<1>22. SearchesAreFinal'
  <2>1. Scans(k) /\ k.verb \notin Locs => k.ver >= floor[p]
    <3>1. 0 \notin Drawn
      BY DEF Drawn
    <3>2. Scans(k) => fut[r][p].role = "base"
      BY <1>2, <1>8, <1>9, <3>1 DEF Scans, Futures
    <3> QED BY <1>1, <1>2, <1>8, <3>2 DEF Scans, Recent
  <2> QED BY <1>1, <1>8, <1>11, <2>1 DEF IInv, SearchesAreFinal
<1>23. Snapshot'
  BY <1>1, <1>3, <1>11 DEF IInv, Snapshot, Needs
<1> QED BY <1>15, <1>16, <1>17, <1>18, <1>19, <1>20, <1>21, <1>22, <1>23 DEF IInv

\* Sets grow with a draw.
LEMMA SetsGrow ==
  ASSUME Types, nextId <= MaxId, nextId' = nextId + 1
  PROVE  /\ Drawn \subseteq Drawn' /\ nextId \in Drawn' /\ nextId \notin Drawn
         /\ nextId' \in 1 .. MaxId + 1
         /\ Futures \subseteq Futures' /\ Queries \subseteq Queries'
<1>1. /\ Drawn \subseteq Drawn' /\ nextId \in Drawn' /\ nextId \notin Drawn
      /\ nextId' \in 1 .. MaxId + 1 /\ 0 .. nextId - 1 \subseteq 0 .. nextId' - 1
  BY LayersAssumption DEF Types, Drawn
<1>2. Futures \subseteq Futures'
  BY <1>1 DEF Futures
<1>3. Chains \subseteq Chains'
  <2> SUFFICES ASSUME NEW c \in Chains PROVE c \in Chains'
    OBVIOUS
  <2>1. DOMAIN c \subseteq Roots /\ c \in [DOMAIN c -> Seq(Drawn)]
    BY ChainsElim
  <2>2. Seq(Drawn) \subseteq Seq(Drawn')
    BY <1>1
  <2>3. c \in [DOMAIN c -> Seq(Drawn')]
    BY <2>1, <2>2
  <2> QED BY <2>1, <2>3 DEF Chains
<1>4. Queries \subseteq Queries'
  BY <1>3 DEF Queries
<1> QED BY <1>1, <1>2, <1>4

\* The upsert finds the row of its hash, or inserts it: nobody else is at it.
LEMMA UpsertStep ==
  ASSUME IInv, NEW r \in Requests, NEW p \in Roots, Upsert(r, p)
  PROVE  IInv'
<1> USE LayersAssumption
<1>1. /\ UNCHANGED <<rows, status, lay, req, wr, gc, floor>>
      /\ fut[r][p].own = "live" /\ fut[r][p].pc = "queued" /\ SameHash(r, p) = {}
  BY DEF Upsert, Running
<1>2. Types /\ fut[r][p] \in Futures /\ Attached(r, p) /\ \A s \in Requests : SameQuery(s)
  BY <1>1 DEF IInv, Types, SameQuery
<1>3. fut[r][p].pc \in Txns
  BY <1>1 DEF Txns
<1>4. \A w \in Writers : wr[w].pc # "excl"
  BY <1>3 DEF IInv, Exclusive
<1> DEFINE hits == {i \in DOMAIN lay : KeyOf(lay[i]) = Key(r, p)}
<1>5. CASE hits # {}
  <2>1. PICK i \in DOMAIN lay : fut' = [fut EXCEPT ![r][p] = [fut[r][p] EXCEPT !.pc = "hit", !.id = i]]
    <3>1. (CHOOSE i \in hits : TRUE) \in DOMAIN lay
      BY <1>5
    <3> QED BY <1>5, <3>1 DEF Upsert, Step
  <2> DEFINE f == [fut[r][p] EXCEPT !.pc = "hit", !.id = i]
  <2>2. i \in Drawn /\ i \in 0 .. nextId - 1
    BY <1>2 DEF Types, Drawn
  <2>3. f \in Futures
    BY <1>2, <2>2 DEF Futures, FutPcs, Txns
  <2>4. f.pc = "hit" /\ f.id = i /\ f.own = "live" /\ f.role = fut[r][p].role /\ f.base = fut[r][p].base
    BY <1>1, <1>2 DEF Futures
  <2>5. fut' = [fut EXCEPT ![r][p] = f] /\ UNCHANGED nextId
    BY <1>5, <2>1 DEF Upsert
  <2> HIDE DEF f
  <2>6. fut'[r][p] = f
    BY <1>2, <2>5 DEF Types
  <2>7. ~Created(r, p)' /\ Touched
    BY <1>1, <1>2, <2>4, <2>6, TouchedBy DEF Created
  <2>8. Attached(r, p)'
    BY <1>1, <1>2, <2>2, <2>4, <2>5, <2>6 DEF Attached, HasRow, Drawn, Txns
  <2>9. Anchored(r, p)' /\ Recent(r, p)'
    BY <1>1, <2>4, <2>6, <2>7 DEF Anchored, Recent
  <2>10. req' \in [Requests -> Queries]
    BY <1>1, <1>2 DEF Types
  <2> QED BY <1>1, <1>2, <1>3, <2>3, <2>5, <2>7, <2>8, <2>9, <2>10, OneFuture
<1>6. CASE hits = {}
  <2> DEFINE f == [fut[r][p] EXCEPT !.pc = "open", !.id = nextId]
  <2>1. /\ status[p] # "gone" /\ Parents(r, p) \subseteq DOMAIN lay
        /\ nextId <= MaxId /\ nextId' = nextId + 1
        /\ fut' = [fut EXCEPT ![r][p] = f]
    BY <1>6 DEF Upsert, Step
  <2>2. /\ Drawn \subseteq Drawn' /\ nextId \in Drawn' /\ nextId \notin Drawn
        /\ nextId' \in 1 .. MaxId + 1
        /\ Futures \subseteq Futures' /\ Queries \subseteq Queries'
    BY <1>2, <2>1, SetsGrow
  <2>3. f \in Futures'
    <3>1. nextId \in 0 .. nextId' - 1 /\ fut[r][p] \in Futures'
      BY <1>2, <2>1, <2>2 DEF Types
    <3> QED BY <3>1 DEF Futures, FutPcs, Txns
  <2>4. PICK n : n = nextId
    OBVIOUS
  <2>5. f.pc = "open" /\ f.id = n /\ f.own = "live" /\ f.role = fut[r][p].role /\ f.base = fut[r][p].base
    BY <1>1, <1>2, <2>4 DEF Futures
  <2> HIDE DEF f
  <2>6. /\ fut' \in [Requests -> [Roots -> Futures']] /\ fut'[r][p] = f
        /\ \A s \in Requests, q \in Roots : <<s, q>> # <<r, p>> => fut'[s][q] = fut[s][q]
    BY <1>2, <2>1, <2>2, <2>3 DEF Types
  <2>7. Types'
    BY <1>1, <1>2, <2>2, <2>6 DEF Types
  <2>8. Quota' /\ Exclusive'
    BY <1>1, <1>4, <2>6 DEF IInv, Quota, Uploads, Exclusive
  <2>9. Key(r, p)' = Key(r, p) /\ Parents(r, p)' = Parents(r, p) /\ (Points(r, p)' <=> Points(r, p))
    BY <1>1, <2>5, <2>6 DEF Key, Parents, Points, ChainLast
  <2>10. \A i \in DOMAIN lay : KeyOf(lay[i]) # Key(r, p)
    BY <1>6
  <2>11. \A s \in Requests, q \in Roots : Created(s, q) /\ <<s, q>> # <<r, p>> =>
           Key(s, q) # Key(r, p) /\ fut[s][q].id \in Drawn
    <3> SUFFICES ASSUME NEW s \in Requests, NEW q \in Roots, Created(s, q), <<s, q>> # <<r, p>>
                 PROVE  Key(s, q) # Key(r, p) /\ fut[s][q].id \in Drawn
      OBVIOUS
    <3>1. HasRow(s, q)
      BY DEF Created, HasRow, Txns
    <3>2. <<s, q>> \in (Requests \X Roots) \ {<<r, p>>}
      OBVIOUS
    <3>3. Key(s, q) # Key(r, p)
      BY <1>1, <3>1, <3>2 DEF SameHash
    <3> QED BY <3>1, <3>3 DEF IInv, Attached
  <2>12. ASSUME NEW s \in Requests, NEW q \in Roots
         PROVE  Attached(s, q)' /\ Anchored(s, q)' /\ Recent(s, q)'
    <3>1. CASE <<s, q>> = <<r, p>>
      <4>1. s = r /\ q = p
        BY <3>1
      <4>2. Attached(r, p)'
        BY <1>1, <1>2, <2>2, <2>4, <2>5, <2>6 DEF Attached, Txns
      <4>3. n \notin DOMAIN lay \cup gc.seen
        BY <1>2, <2>2, <2>4 DEF Types
      <4>4. Anchored(r, p)'
        BY <1>1, <2>1, <2>5, <2>6, <2>9, <2>10, <4>3 DEF Anchored
      <4>5. Recent(r, p)'
        BY <2>5, <2>6 DEF Recent
      <4> QED BY <4>1, <4>2, <4>4, <4>5
    <3>2. CASE <<s, q>> # <<r, p>>
      <4>1. fut'[s][q] = fut[s][q] /\ SameQuery(s) /\ Attached(s, q) /\ Anchored(s, q) /\ Recent(s, q)
        BY <1>2, <2>6, <3>2 DEF IInv
      <4>2. Attached(s, q)'
        BY <1>1, <2>2, <4>1, OtherFuture DEF Attached, SameQuery
      <4>3. Anchored(s, q)'
        BY <1>1, <4>1, OtherFuture DEF Anchored, SameQuery
      <4>4. Recent(s, q)'
        BY <1>1, <4>1 DEF Recent, SameQuery
      <4> QED BY <4>2, <4>3, <4>4
    <3> QED BY <3>1, <3>2
  <2>13. \A s \in Requests, q \in Roots : <<s, q>> # <<r, p>> =>
           /\ Created(s, q)' <=> Created(s, q)
           /\ Key(s, q)' = Key(s, q) /\ fut'[s][q].id = fut[s][q].id
    BY <1>2, <2>6, OtherFuture
  <2>14. fut'[r][p].id \notin Drawn
    BY <2>2, <2>4, <2>5, <2>6
  <2>15. Apart'
    <3> SUFFICES ASSUME NEW s \in Requests, NEW t \in Requests, NEW q \in Roots, NEW u \in Roots,
                        Created(s, q)', Created(t, u)', <<s, q>> # <<t, u>>
                 PROVE  Key(s, q)' # Key(t, u)' /\ fut'[s][q].id # fut'[t][u].id
      BY DEF Apart
    <3>1. CASE <<s, q>> = <<r, p>>
      <4>1. s = r /\ q = p /\ <<t, u>> # <<r, p>>
        BY <3>1
      <4> QED BY <2>9, <2>11, <2>13, <2>14, <4>1
    <3>2. CASE <<t, u>> = <<r, p>>
      <4>1. t = r /\ u = p /\ <<s, q>> # <<r, p>>
        BY <3>2
      <4> QED BY <2>9, <2>11, <2>13, <2>14, <4>1
    <3>3. CASE <<s, q>> # <<r, p>> /\ <<t, u>> # <<r, p>>
      <4>1. s # t \/ q # u
        OBVIOUS
      <4> QED BY <2>13, <3>3, <4>1 DEF IInv, Apart
    <3> QED BY <3>1, <3>2, <3>3
  <2>16. OneLayerPerHash'
    BY <1>1, <2>9, <2>10, <2>13 DEF IInv, OneLayerPerHash
  <2>17. SearchesAreFinal' /\ NoOrphan' /\ Grounded' /\ Snapshot'
    BY <1>1 DEF IInv, SearchesAreFinal, NoOrphan, Grounded, Snapshot, Needs
  <2> QED BY <2>7, <2>8, <2>12, <2>15, <2>16, <2>17 DEF IInv
<1> QED BY <1>5, <1>6

-----------------------------------------------------------------------------
(* Steps of a whole query.                                                 *)

\* A query and its futures change; none of them ends up in a transaction that
\* it was not in before, with the same row and the same key.
LEMMA QueryChange ==
  ASSUME IInv, NEW r \in Requests, NEW q \in Queries, NEW g \in [Roots -> Futures],
         req' = [req EXCEPT ![r] = q], fut' = [fut EXCEPT ![r] = g],
         UNCHANGED <<rows, status, lay, nextId, wr, gc, floor>>,
         \A p \in Roots : Attached(r, p)',
         \A p \in Roots : g[p].pc \in Txns =>
           /\ g[p] = [fut[r][p] EXCEPT !.own = g[p].own]
           /\ q.verb = req[r].verb /\ q.ref = req[r].ref /\ q.chain = req[r].chain
  PROVE  IInv'
<1>1. /\ req' \in [Requests -> Queries] /\ req'[r] = q
      /\ \A s \in Requests : s # r => req'[s] = req[s]
      /\ fut' \in [Requests -> [Roots -> Futures]] /\ fut'[r] = g
      /\ \A s \in Requests : s # r => fut'[s] = fut[s]
  BY DEF IInv, Types
<1>2. Types'
  <2>1. Drawn' = Drawn /\ Futures' = Futures /\ Queries' = Queries
    BY SameSets
  <2> QED BY <1>1, <2>1 DEF IInv, Types
<1>3. ASSUME NEW p \in Roots, g[p].pc \in Txns
      PROVE  /\ g[p].pc = fut[r][p].pc /\ g[p].role = fut[r][p].role /\ g[p].id = fut[r][p].id
             /\ g[p].base = fut[r][p].base /\ g[p].ver = fut[r][p].ver
  <2>1. fut[r][p] \in Futures
    BY DEF IInv, Types
  <2> QED BY <1>3, <2>1 DEF Futures
<1>4. Quota' /\ Exclusive'
  BY <1>1, <1>3 DEF IInv, Quota, Uploads, Exclusive
<1>5. ASSUME NEW s \in Requests, NEW p \in Roots, fut'[s][p].pc \in Txns
      PROVE  /\ fut'[s][p].pc = fut[s][p].pc /\ fut'[s][p].role = fut[s][p].role
             /\ fut'[s][p].id = fut[s][p].id /\ fut'[s][p].ver = fut[s][p].ver
             /\ req'[s].verb = req[s].verb /\ req'[s].ref = req[s].ref
             /\ Created(s, p)' <=> Created(s, p)
             /\ Points(s, p)' <=> Points(s, p)
             /\ Key(s, p)' = Key(s, p) /\ Parents(s, p)' = Parents(s, p)
  <2>1. /\ fut'[s][p].pc = fut[s][p].pc /\ fut'[s][p].role = fut[s][p].role
        /\ fut'[s][p].id = fut[s][p].id /\ fut'[s][p].ver = fut[s][p].ver
        /\ fut'[s][p].base = fut[s][p].base
        /\ req'[s].verb = req[s].verb /\ req'[s].ref = req[s].ref /\ req'[s].chain = req[s].chain
    BY <1>1, <1>3, <1>5
  <2> QED BY <2>1 DEF Created, Points, Key, Parents, ChainLast
<1>6. \A s \in Requests, p \in Roots : Created(s, p)' => fut'[s][p].pc \in Txns
  BY DEF Created, Txns
<1>7. ASSUME NEW s \in Requests, NEW p \in Roots
      PROVE  Attached(s, p)' /\ Anchored(s, p)' /\ Recent(s, p)'
  <2>1. Attached(s, p) /\ Anchored(s, p) /\ Recent(s, p)
    BY DEF IInv
  <2>2. Attached(s, p)'
    <3>1. CASE s = r
      BY <3>1
    <3>2. CASE s # r
      <4>1. fut'[s][p] = fut[s][p] /\ SameQuery(s) /\ Drawn' = Drawn
        BY <1>1, <3>2, SameSets DEF SameQuery
      <4> QED BY <2>1, <4>1, OtherFuture DEF Attached, SameQuery
    <3> QED BY <3>1, <3>2
  <2>3. CASE fut'[s][p].pc \in Txns
    BY <1>5, <2>1, <2>2, <2>3 DEF Anchored, Recent
  <2>4. CASE fut'[s][p].pc \notin Txns
    BY <1>6, <2>2, <2>4 DEF Anchored, Recent, Txns
  <2> QED BY <2>2, <2>3, <2>4
<1>8. Apart' /\ OneLayerPerHash'
  BY <1>5, <1>6 DEF IInv, Apart, OneLayerPerHash
<1>9. SearchesAreFinal' /\ NoOrphan' /\ Grounded' /\ Snapshot'
  BY DEF IInv, SearchesAreFinal, NoOrphan, Grounded, Snapshot, Needs
<1> QED BY <1>2, <1>4, <1>7, <1>8, <1>9 DEF IInv

\* A query between its statements.
LEMMA IdleQuery ==
  ASSUME Types
  PROVE  /\ Idle \in Queries /\ Idle.st = "idle"
         /\ \A c \in Chains : LET q == [Idle EXCEPT !.st = "ready", !.chain = c] IN
              q \in Queries /\ q.st = "ready" /\ q.chain = c
<1>1. [p \in {} |-> <<>>] \in Chains
  <2>1. [p \in {} |-> <<>>] \in [{} -> Seq(Drawn)]
    OBVIOUS
  <2> QED BY <2>1, ChainsIntro
<1>2. Idle \in Queries /\ Idle.st = "idle"
  BY <1>1 DEF Idle, Queries, Refs
<1>3. ASSUME NEW c \in Chains
      PROVE  LET q == [Idle EXCEPT !.st = "ready", !.chain = c] IN
               q \in Queries /\ q.st = "ready" /\ q.chain = c
  BY <1>2 DEF Queries, Idle
<1> QED BY <1>2, <1>3

\* Futures that are not there are attached to anything that does not run.
LEMMA NoFuture ==
  ASSUME NEW r \in Requests, NEW p \in Roots, req'[r].st # "run",
         fut'[r][p].pc = "none", fut'[r][p].own = "live", fut'[r][p].role = "base",
         fut'[r][p].base = 0
  PROVE  Attached(r, p)'
BY DEF Attached, HasRow, Txns

\* A query starts, or ends.
LEMMA RequestSteps ==
  ASSUME IInv, NEW r \in Requests, Begin(r) \/ EndRequest(r)
  PROVE  IInv'
<1>1. Types /\ UNCHANGED <<rows, status, lay, nextId, fut, wr, gc, floor>>
  BY DEF IInv, Begin, EndRequest
<1>2. \A p \in Roots : /\ fut[r][p].pc = "none" /\ fut[r][p].own = "live"
                       /\ fut[r][p].role = "base" /\ fut[r][p].base = 0
  <2> SUFFICES ASSUME NEW p \in Roots
               PROVE  /\ fut[r][p].pc = "none" /\ fut[r][p].own = "live"
                      /\ fut[r][p].role = "base" /\ fut[r][p].base = 0
    OBVIOUS
  <2>1. Attached(r, p) /\ fut[r][p] \in Futures
    BY DEF IInv, Types
  <2>2. fut[r][p].pc = "none"
    BY <2>1 DEF Begin, EndRequest, Attached
  <2> QED BY <2>1, <2>2 DEF Attached, Futures, Txns
<1>3. PICK q \in Queries : req' = [req EXCEPT ![r] = q] /\ q.st \in {"idle", "ready"}
  <2>1. CASE Begin(r)
    <3> DEFINE R == {p \in Roots : status[p] # "gone"}
               c == [p \in R |-> <<>>]
    <3>1. c \in [R -> Seq(Drawn)]
      OBVIOUS
    <3>2. c \in Chains
      BY <3>1, ChainsIntro
    <3>3. req' = [req EXCEPT ![r] = [Idle EXCEPT !.st = "ready", !.chain = c]]
      BY <2>1 DEF Begin
    <3> HIDE DEF c
    <3> QED BY <1>1, <3>2, <3>3, IdleQuery
  <2>2. CASE EndRequest(r)
    BY <1>1, <2>2, IdleQuery DEF EndRequest
  <2> QED BY <2>1, <2>2
<1>4. fut[r] \in [Roots -> Futures] /\ fut' = [fut EXCEPT ![r] = fut[r]]
  BY <1>1 DEF Types
<1>5. req'[r] = q
  BY <1>1, <1>3 DEF Types
<1>6. \A p \in Roots : Attached(r, p)'
  BY <1>1, <1>2, <1>3, <1>5, NoFuture
<1>7. \A p \in Roots : fut[r][p].pc \notin Txns
  BY <1>2 DEF Txns
<1> QED BY <1>1, <1>3, <1>4, <1>6, <1>7, QueryChange

\* A statement starts a future on each of the query's roots.
LEMMA StartStep ==
  ASSUME IInv, NEW r \in Requests, NEW v \in Verbs,
         NEW ref \in {NoRef} \cup [at : Roots, to : DOMAIN lay], StartStatement(r, v, ref)
  PROVE  IInv'
<1> USE LayersAssumption
<1>1. Types /\ UNCHANGED <<rows, status, lay, nextId, wr, gc, floor>> /\ req[r] \in Queries
  BY DEF IInv, Types, StartStatement
<1> DEFINE q == [req[r] EXCEPT !.st = "run", !.verb = v, !.ref = ref, !.memo = NoMemo]
           want == [NoFut EXCEPT !.pc = "want"]
           g == [p \in Roots |-> IF p \in DOMAIN req[r].chain THEN want ELSE NoFut]
<1>2. req' = [req EXCEPT ![r] = q] /\ fut' = [fut EXCEPT ![r] = g]
  BY DEF StartStatement
<1>3. ref \in Refs
  BY <1>1 DEF Refs, Ids, Types, Drawn
<1>4. q \in Queries /\ q.st = "run" /\ q.verb = v /\ q.chain = req[r].chain
  BY <1>1, <1>3 DEF Queries
<1>5. /\ NoFut \in Futures /\ want \in Futures
      /\ NoFut.pc = "none" /\ NoFut.own = "live" /\ NoFut.role = "base" /\ NoFut.base = 0
      /\ want.pc = "want" /\ want.own = "live" /\ want.role = "base" /\ want.base = 0
  BY <1>1, FreshFuture DEF NoFut, FutPcs
<1> HIDE DEF q, want
<1>6. g \in [Roots -> Futures] /\ \A p \in Roots : g[p] \in {NoFut, want}
        /\ (p \in DOMAIN q.chain <=> g[p] = want)
  BY <1>4, <1>5
<1> HIDE DEF g
<1>7. req'[r] = q /\ fut'[r] = g
  BY <1>1, <1>2 DEF Types
<1>8. ASSUME NEW p \in Roots PROVE Attached(r, p)' /\ g[p].pc \notin Txns
  BY <1>4, <1>5, <1>6, <1>7 DEF Attached, HasRow, Txns
<1> QED BY <1>1, <1>2, <1>4, <1>6, <1>8, QueryChange

\* A statement ends: its layers are pushed on the chains, or the query fails.
LEMMA FinishStep ==
  ASSUME IInv, NEW r \in Requests, FinishStatement(r)
  PROVE  IInv'
<1>1. Types /\ UNCHANGED <<rows, status, lay, nextId, wr, gc, floor>> /\ req[r] \in Queries
  BY DEF IInv, Types, FinishStatement
<1> DEFINE g == [p \in Roots |-> NoFut]
<1>2. /\ NoFut \in Futures /\ NoFut.pc = "none" /\ NoFut.own = "live" /\ NoFut.role = "base"
      /\ NoFut.base = 0 /\ fut' = [fut EXCEPT ![r] = g] /\ g \in [Roots -> Futures]
  BY <1>1, FreshFuture DEF NoFut, FinishStatement
<1>3. PICK q \in Queries : req' = [req EXCEPT ![r] = q] /\ q.st \in {"idle", "ready"}
  <2>1. CASE \E p \in Roots : fut[r][p].pc = "failed"
    BY <1>1, <2>1, IdleQuery DEF FinishStatement
  <2>2. CASE ~ \E p \in Roots : fut[r][p].pc = "failed"
    <3> DEFINE R == DOMAIN req[r].chain
               round(p) == IF fut[r][p].role = "base" THEN <<fut[r][p].id>>
                           ELSE <<fut[r][p].base, fut[r][p].id>>
               c == [p \in R |-> req[r].chain[p] \o round(p)]
    <3>1. R \subseteq Roots /\ \A p \in R : req[r].chain[p] \in Seq(Drawn)
      BY <1>1, ChainsElim DEF Queries
    <3>2. ASSUME NEW p \in R PROVE round(p) \in Seq(Drawn)
      <4>1. Attached(r, p) /\ p \in Roots /\ fut[r][p] \in Futures
        BY <1>1, <3>1 DEF IInv, Types
      <4>2. fut[r][p].pc = "done"
        BY <2>2, <4>1 DEF Attached, FinishStatement, Settled
      <4>3. fut[r][p].id \in Drawn /\ (fut[r][p].role = "supplement" => fut[r][p].base \in Drawn)
        BY <4>1, <4>2 DEF Attached
      <4>4. fut[r][p].role \in {"base", "supplement"}
        BY <4>1 DEF Futures
      <4> QED BY <4>3, <4>4
    <3>3. c \in [R -> Seq(Drawn)]
      <4> HIDE DEF round
      <4> QED BY <3>1, <3>2
    <3>4. c \in Chains
      <4> HIDE DEF c
      <4> QED BY <3>1, <3>3, ChainsIntro
    <3>5. req' = [req EXCEPT ![r] = [Idle EXCEPT !.st = "ready", !.chain = c]]
      BY <2>2 DEF FinishStatement
    <3> HIDE DEF c
    <3> QED BY <1>1, <3>4, <3>5, IdleQuery
  <2> QED BY <2>1, <2>2
<1>4. req'[r] = q /\ fut'[r] = g
  BY <1>1, <1>2, <1>3 DEF Types
<1>5. \A p \in Roots : Attached(r, p)' /\ g[p].pc \notin Txns
  BY <1>2, <1>3, <1>4, NoFuture DEF Txns
<1> HIDE DEF g
<1> QED BY <1>1, <1>2, <1>3, <1>5, QueryChange

\* The futures of a query are dropped: their open transactions stay.
LEMMA CancelStep ==
  ASSUME IInv, NEW r \in Requests, Cancel(r)
  PROVE  IInv'
<1>1. Types /\ UNCHANGED <<rows, status, lay, nextId, wr, gc, floor>> /\ req[r] \in Queries
        /\ fut[r] \in [Roots -> Futures]
  BY DEF IInv, Types, Cancel
<1> DEFINE g == [p \in Roots |-> Dropped(fut[r][p])]
<1>2. /\ NoFut \in Futures /\ NoFut.pc = "none" /\ NoFut.own = "live" /\ NoFut.role = "base"
      /\ NoFut.base = 0
  BY <1>1, FreshFuture DEF NoFut
<1>3. fut' = [fut EXCEPT ![r] = g]
  BY DEF Cancel
<1>4. ASSUME NEW p \in Roots
      PROVE  /\ g[p] \in Futures
             /\ fut[r][p].pc \notin Txns => g[p] = NoFut
             /\ fut[r][p].pc \in Txns =>
                  /\ g[p] = [fut[r][p] EXCEPT !.own = "dropped"]
                  /\ g[p].own = "dropped" /\ g[p].pc = fut[r][p].pc /\ g[p].role = fut[r][p].role
                  /\ g[p].base = fut[r][p].base /\ g[p].id = fut[r][p].id
  <2>1. fut[r][p] \in Futures
    BY <1>1
  <2>2. CASE fut[r][p].pc \in Txns
    <3>1. g[p] = [fut[r][p] EXCEPT !.own = "dropped"]
      BY <2>2 DEF Dropped
    <3> QED BY <2>1, <2>2, <3>1 DEF Futures
  <2>3. CASE fut[r][p].pc \notin Txns
    BY <1>2, <2>3 DEF Dropped
  <2> QED BY <2>2, <2>3
<1>5. g \in [Roots -> Futures]
  BY <1>4
<1>6. PICK q \in Queries :
        /\ req' = [req EXCEPT ![r] = q]
        /\ q.st \in {"idle", "cancelled"}
        /\ (\E p \in Roots : fut[r][p].pc \in Txns) =>
             /\ q.st = "cancelled"
             /\ q.verb = req[r].verb /\ q.ref = req[r].ref /\ q.chain = req[r].chain
  <2>1. CASE \E p \in Roots : fut[r][p].pc \in Txns
    <3> DEFINE q == [req[r] EXCEPT !.st = "cancelled"]
    <3>1. /\ q \in Queries /\ q.st = "cancelled"
          /\ q.verb = req[r].verb /\ q.ref = req[r].ref /\ q.chain = req[r].chain
      BY <1>1 DEF Queries
    <3>2. req' = [req EXCEPT ![r] = q]
      BY <2>1 DEF Cancel
    <3> HIDE DEF q
    <3> QED BY <3>1, <3>2
  <2>2. CASE ~ \E p \in Roots : fut[r][p].pc \in Txns
    BY <1>1, <2>2, IdleQuery DEF Cancel
  <2> QED BY <2>1, <2>2
<1>7. req'[r] = q /\ fut'[r] = g
  BY <1>1, <1>3, <1>6 DEF Types
<1> HIDE DEF g
<1>8. ASSUME NEW p \in Roots PROVE Attached(r, p)'
  <2>1. CASE fut[r][p].pc \in Txns
    <3>1. Attached(r, p) /\ Drawn' = Drawn
      BY <1>1, SameSets DEF IInv
    <3>2. /\ fut'[r][p].own = "dropped" /\ fut'[r][p].pc = fut[r][p].pc
          /\ fut'[r][p].role = fut[r][p].role /\ fut'[r][p].base = fut[r][p].base
          /\ fut'[r][p].id = fut[r][p].id
      BY <1>4, <1>7, <2>1
    <3>3. req'[r].st = "cancelled" /\ req'[r].verb = req[r].verb /\ req'[r].chain = req[r].chain
      BY <1>6, <1>7, <2>1
    <3>4. fut[r][p].pc # "none" /\ fut[r][p].pc # "done" /\ (HasRow(r, p)' <=> HasRow(r, p))
      BY <2>1, <3>2 DEF HasRow, Txns
    <3> QED BY <2>1, <3>1, <3>2, <3>3, <3>4 DEF Attached
  <2>2. CASE fut[r][p].pc \notin Txns
    BY <1>2, <1>4, <1>6, <1>7, <2>2, NoFuture
  <2> QED BY <2>1, <2>2
<1>9. ASSUME NEW p \in Roots, g[p].pc \in Txns
      PROVE  /\ g[p] = [fut[r][p] EXCEPT !.own = g[p].own]
             /\ q.verb = req[r].verb /\ q.ref = req[r].ref /\ q.chain = req[r].chain
  <2>1. fut[r][p].pc \in Txns
    BY <1>2, <1>4, <1>9 DEF Txns
  <2> QED BY <1>4, <1>6, <2>1
<1> QED BY <1>1, <1>3, <1>5, <1>6, <1>8, <1>9, QueryChange

\* A dropped transaction is rolled back.
LEMMA RecycleStep ==
  ASSUME IInv, NEW r \in Requests, NEW p \in Roots, Recycle(r, p)
  PROVE  IInv'
<1>1. Types /\ UNCHANGED <<rows, status, lay, nextId, wr, gc, floor>> /\ req[r] \in Queries
        /\ fut[r] \in [Roots -> Futures] /\ fut[r][p].own = "dropped"
  BY DEF IInv, Types, Recycle
<1> DEFINE g == [fut[r] EXCEPT ![p] = NoFut]
<1>2. /\ NoFut \in Futures /\ NoFut.pc = "none" /\ NoFut.own = "live" /\ NoFut.role = "base"
      /\ NoFut.base = 0
  BY <1>1, FreshFuture DEF NoFut
<1>3. fut' = [fut EXCEPT ![r] = g]
  BY <1>1 DEF Recycle, Step
<1>4. g \in [Roots -> Futures] /\ g[p] = NoFut /\ \A o \in Roots \ {p} : g[o] = fut[r][o]
  BY <1>1, <1>2
<1> HIDE DEF g
<1>5. req[r].st # "run"
  BY <1>1 DEF IInv, Attached
<1>6. PICK q \in Queries :
        /\ req' = [req EXCEPT ![r] = q] /\ q.st # "run"
        /\ q = req[r] \/ \A o \in Roots \ {p} : fut[r][o].pc = "none"
  BY <1>1, <1>5, IdleQuery DEF Recycle, Types
<1>7. req'[r] = q /\ fut'[r] = g
  BY <1>1, <1>3, <1>6 DEF Types
<1>8. ASSUME NEW o \in Roots PROVE Attached(r, o)'
  <2>1. CASE o = p
    BY <1>2, <1>4, <1>6, <1>7, <2>1, NoFuture
  <2>2. CASE o # p /\ q = req[r]
    <3>1. fut'[r][o] = fut[r][o] /\ SameQuery(r) /\ Attached(r, o) /\ Drawn' = Drawn
      BY <1>1, <1>4, <1>7, <2>2, SameSets DEF IInv, SameQuery
    <3> QED BY <3>1, OtherFuture DEF Attached, SameQuery
  <2>3. CASE o # p /\ fut[r][o].pc = "none"
    <3>1. Attached(r, o) /\ fut[r][o] \in Futures
      BY <1>1 DEF IInv
    <3>2. fut[r][o].own = "live" /\ fut[r][o].role = "base" /\ fut[r][o].base = 0
      BY <2>3, <3>1 DEF Attached, Futures, Txns
    <3> QED BY <1>4, <1>6, <1>7, <2>3, <3>2, NoFuture
  <2> QED BY <1>6, <2>1, <2>2, <2>3
<1>9. ASSUME NEW o \in Roots, g[o].pc \in Txns
      PROVE  /\ g[o] = [fut[r][o] EXCEPT !.own = g[o].own]
             /\ q.verb = req[r].verb /\ q.ref = req[r].ref /\ q.chain = req[r].chain
  <2>1. o # p
    BY <1>2, <1>4, <1>9 DEF Txns
  <2>2. g[o] = fut[r][o] /\ fut[r][o] \in Futures /\ fut[r][o].pc # "none"
    BY <1>1, <1>4, <1>9, <2>1 DEF Txns
  <2>3. g[o] = [fut[r][o] EXCEPT !.own = g[o].own]
    BY <2>2 DEF Futures
  <2> QED BY <1>6, <2>1, <2>2, <2>3
<1> QED BY <1>1, <1>3, <1>4, <1>6, <1>8, <1>9, QueryChange

-----------------------------------------------------------------------------
(* Purges and the collector.                                               *)

\* Steps that leave the futures alone, and what is left of the layers is what
\* it was: nothing that a transaction relies on goes.
LEMMA LayerStep ==
  ASSUME IInv, UNCHANGED <<rows, nextId, req, fut, wr, floor, status>>,
         gc' \in [pc : {"idle", "scanned"}, doomed : SUBSET Drawn, seen : SUBSET Drawn],
         gc'.seen \subseteq gc.seen \cup DOMAIN lay,
         gc'.pc = "scanned" => gc.pc = "scanned" \/ Excluding = {},
         DOMAIN lay' \subseteq DOMAIN lay, lay' \in [DOMAIN lay' -> Layers],
         \A i \in DOMAIN lay' :
           /\ KeyOf(lay'[i]) = KeyOf(lay[i])
           /\ lay'[i].root = lay[i].root /\ lay'[i].verb = lay[i].verb
           /\ lay'[i].parent = lay[i].parent /\ lay'[i].base = lay[i].base
           /\ lay'[i].ver = lay[i].ver,
         \A r \in Requests, p \in Roots : ~PinsOne(r, p, DOMAIN lay \ DOMAIN lay'),
         \A i \in DOMAIN lay' : {lay[i].parent, lay[i].base} \subseteq DOMAIN lay' \cup {0},
         Grounded', Snapshot'
  PROVE  IInv'
<1>1. Types'
  <2>1. Drawn' = Drawn /\ Futures' = Futures /\ Queries' = Queries
    BY SameSets
  <2> QED BY <2>1 DEF IInv, Types
<1>2. Quota' /\ Exclusive'
  BY DEF IInv, Quota, Uploads, Exclusive, Excluding
<1>3. ASSUME NEW r \in Requests, NEW p \in Roots
      PROVE  Attached(r, p)' /\ Anchored(r, p)' /\ Recent(r, p)'
  <2>1. Attached(r, p) /\ Anchored(r, p) /\ Recent(r, p) /\ Drawn' = Drawn
    BY SameSets DEF IInv
  <2>2. Attached(r, p)' /\ Recent(r, p)'
    BY <2>1, SameFutures DEF Attached, Recent
  <2>3. Anchored(r, p)'
    <3>1. ~PinsOne(r, p, DOMAIN lay \ DOMAIN lay')
      OBVIOUS
    <3> QED BY <2>1, <3>1, SameFutures DEF Anchored, PinsOne
  <2> QED BY <2>2, <2>3
<1>4. Apart' /\ OneLayerPerHash'
  BY SameFutures DEF IInv, Apart, OneLayerPerHash
<1>5. NoOrphan'
  BY DEF IInv, NoOrphan
<1>6. SearchesAreFinal'
  BY DEF IInv, SearchesAreFinal, Scans
<1> QED BY <1>1, <1>2, <1>3, <1>4, <1>5, <1>6 DEF IInv

\* Nothing goes, so nothing is pinned of it.
LEMMA NothingGoes ==
  ASSUME DOMAIN lay' = DOMAIN lay
  PROVE  \A r \in Requests, p \in Roots : ~PinsOne(r, p, DOMAIN lay \ DOMAIN lay')
BY DEF PinsOne

\* Layers get old; the collector looks for doomed ones, or fails.
LEMMA CollectorQuiet ==
  ASSUME IInv, (\E i \in Ids : Age(i)) \/ ScanDoomed \/ FailGc
  PROVE  IInv'
<1>1. Types /\ UNCHANGED <<rows, status, nextId, req, fut, wr, floor>>
  BY DEF IInv, Age, ScanDoomed, FailGc
<1>2. Touched /\ DOMAIN lay' = DOMAIN lay
  <2>1. CASE UNCHANGED lay
    BY <1>1, <2>1, TouchedBy DEF Touched
  <2>2. CASE \E i \in Ids : Age(i)
    BY <1>1, <2>2, TouchedBy DEF Age, Touched
  <2> QED BY <2>1, <2>2 DEF ScanDoomed, FailGc
<1>3. /\ gc' \in [pc : {"idle", "scanned"}, doomed : SUBSET Drawn, seen : SUBSET Drawn]
      /\ gc'.seen \subseteq gc.seen \cup DOMAIN lay
      /\ gc'.pc = "scanned" => gc.pc = "scanned" \/ Excluding = {}
      /\ Snapshot'
  <2>1. CASE UNCHANGED gc
    <3>1. UNCHANGED status /\ UNCHANGED floor
      BY <1>1
    <3> QED BY <1>1, <1>2, <2>1, <3>1, TouchedLayers DEF Types
  <2>2. CASE gc' = NoGc
    BY <2>2 DEF NoGc, Snapshot
  <2>3. CASE ScanDoomed
    <3> DEFINE old == {i \in DOMAIN lay : lay[i].used = "old"}
    <3>1. PICK D : D = DoomedClosure(old)
      OBVIOUS
    <3>2. gc' = [pc |-> "scanned", doomed |-> D, seen |-> DOMAIN lay] /\ Excluding = {} /\ lay' = lay
      BY <2>3, <3>1 DEF ScanDoomed
    <3>3. D \subseteq DOMAIN lay /\ \A i \in DOMAIN lay : Needs(i) \cap D # {} => i \in D
      <4>1. old \in SUBSET DOMAIN lay
        OBVIOUS
      <4> HIDE DEF old
      <4> QED BY <3>1, <4>1, DoomedIsClosed
    <3>4. gc'.pc = "scanned" /\ gc'.doomed = D /\ gc'.seen = DOMAIN lay
      BY <3>2
    <3>5. gc' \in [pc : {"idle", "scanned"}, doomed : SUBSET Drawn, seen : SUBSET Drawn]
      BY <1>1, <3>2, <3>3 DEF Types
    <3>6. Snapshot'
      BY <3>2, <3>3, <3>4 DEF IInv, Snapshot, NoOrphan, Grounded, Needs
    <3> QED BY <3>2, <3>4, <3>5, <3>6
  <2> QED BY <2>1, <2>2, <2>3 DEF Age, FailGc
<1>4. Grounded'
  BY <1>1, <1>2 DEF IInv, Grounded, Touched
<1>5. \A i \in DOMAIN lay' : {lay[i].parent, lay[i].base} \subseteq DOMAIN lay' \cup {0}
  BY <1>2 DEF IInv, NoOrphan
<1> QED BY <1>1, <1>2, <1>3, <1>4, <1>5, NothingGoes, LayerStep DEF Touched

\* What the cascade takes of what the collector saw was doomed.
LEMMA CascadeTakesDoomed ==
  ASSUME IInv, gc.pc = "scanned"
  PROVE  Cascade(gc.doomed) \cap gc.seen \subseteq gc.doomed
<1> DEFINE S == (gc.doomed \cap DOMAIN lay) \cup (DOMAIN lay \ gc.seen)
<1>1. \A i \in DOMAIN lay : {lay[i].parent, lay[i].base} \cap S # {} => i \in S
  <2> SUFFICES ASSUME NEW i \in DOMAIN lay, i \in gc.seen, {lay[i].parent, lay[i].base} \cap S # {}
               PROVE  i \in gc.doomed
    OBVIOUS
  <2>1. 0 \notin S
    BY DEF IInv, Types, Drawn
  <2>2. {lay[i].parent, lay[i].base} \subseteq gc.seen \cup {0}
    BY DEF IInv, Snapshot
  <2>3. {lay[i].parent, lay[i].base} \cap gc.doomed # {}
    BY <2>1, <2>2
  <2>4. 0 \notin gc.doomed
    BY DEF IInv, Types, Drawn
  <2>5. Needs(i) \cap gc.doomed # {}
    BY <2>3, <2>4 DEF Needs
  <2> QED BY <2>5 DEF IInv, Snapshot
<1>2. S \in SUBSET DOMAIN lay /\ gc.doomed \cap DOMAIN lay \subseteq S
  OBVIOUS
<1>3. Cascade(gc.doomed) \subseteq S
  <2> HIDE DEF S
  <2> QED BY <1>1, <1>2, CascadeIsLeast
<1> QED BY <1>3

\* The collector deletes what it found and what the cascade takes with it.
LEMMA DeleteStep ==
  ASSUME IInv, DeleteDoomed
  PROVE  IInv'
<1>1. PICK gone : gone = Cascade(gc.doomed)
  OBVIOUS
<1>2. /\ UNCHANGED <<rows, status, nextId, req, fut, wr, floor>> /\ gc' = NoGc /\ Pins(gone) = {}
      /\ lay' = [i \in DOMAIN lay \ gone |->
                   IF lay[i].to \in gone THEN [lay[i] EXCEPT !.rows = "hollow"] ELSE lay[i]]
  BY <1>1 DEF DeleteDoomed
<1>3. /\ gone \subseteq DOMAIN lay
      /\ \A i \in DOMAIN lay : {lay[i].parent, lay[i].base} \cap gone # {} => i \in gone
  BY <1>1, CascadeIsClosed
<1>4. DOMAIN lay' = DOMAIN lay \ gone /\ DOMAIN lay \ DOMAIN lay' = gone
  BY <1>2, <1>3
<1>5. ASSUME NEW i \in DOMAIN lay'
      PROVE  /\ lay'[i] \in Layers
             /\ KeyOf(lay'[i]) = KeyOf(lay[i])
             /\ lay'[i].root = lay[i].root /\ lay'[i].verb = lay[i].verb
             /\ lay'[i].parent = lay[i].parent /\ lay'[i].base = lay[i].base
             /\ lay'[i].ver = lay[i].ver /\ lay'[i].to = lay[i].to
             /\ lay'[i].rows = IF lay[i].to \in gone THEN "hollow" ELSE lay[i].rows
  <2>1. lay[i] \in Layers /\ i \in DOMAIN lay
    BY <1>4 DEF IInv, Types
  <2>2. CASE lay[i].to \in gone
    <3>1. lay'[i] = [lay[i] EXCEPT !.rows = "hollow"]
      BY <1>2, <1>4, <2>2
    <3> QED BY <2>1, <2>2, <3>1 DEF Layers, KeyOf
  <2>3. CASE lay[i].to \notin gone
    <3>1. lay'[i] = lay[i]
      BY <1>2, <1>4, <2>3
    <3> QED BY <2>1, <2>3, <3>1
  <2> QED BY <2>2, <2>3
<1>6. lay' \in [DOMAIN lay' -> Layers]
  BY <1>2, <1>4, <1>5
<1>7. ASSUME NEW r \in Requests, NEW p \in Roots PROVE ~PinsOne(r, p, DOMAIN lay \ DOMAIN lay')
  <2>1. <<r, p>> \in Requests \X Roots /\ <<r, p>> \notin Pins(gone)
    BY <1>2
  <2>2. ~PinsOne(r, p, gone)
    BY <2>1 DEF Pins
  <2> QED BY <1>4, <2>2
<1>8. \A i \in DOMAIN lay' : {lay[i].parent, lay[i].base} \subseteq DOMAIN lay' \cup {0}
  BY <1>3, <1>4 DEF IInv, NoOrphan
<1>9. Grounded'
  BY <1>4, <1>5 DEF IInv, Grounded
<1>10. /\ gc' \in [pc : {"idle", "scanned"}, doomed : SUBSET Drawn, seen : SUBSET Drawn]
       /\ gc'.pc = "idle" /\ gc'.seen = {} /\ Snapshot'
  BY <1>2 DEF NoGc, Snapshot
<1>11. UNCHANGED <<rows, nextId, req, fut, wr, floor, status>> /\ DOMAIN lay' \subseteq DOMAIN lay
  BY <1>2, <1>4
<1> QED BY <1>5, <1>6, <1>7, <1>8, <1>9, <1>10, <1>11, LayerStep

\* A purge is alone with the table.
LEMMA PurgeStep ==
  ASSUME IInv, NEW w \in Writers, PurgeAndCommit(w)
  PROVE  IInv'
<1>1. /\ wr[w].pc = "excl" /\ floor' = rows /\ status' = StatusAfter(w)
      /\ wr' = [wr EXCEPT ![w] = NoOp] /\ UNCHANGED <<rows, nextId, req, fut, gc>>
      /\ DOMAIN lay' = {} /\ lay' \in [DOMAIN lay' -> Layers]
  BY DEF PurgeAndCommit
<1>2. /\ Types /\ Quota /\ Exclusive /\ gc.pc = "idle"
      /\ \A r \in Requests, p \in Roots : fut[r][p].pc \notin Txns
  BY <1>1 DEF IInv, Exclusive
<1>3. \A r \in Requests, p \in Roots : ~Created(r, p)' /\ ~Created(r, p)
  BY <1>1, <1>2 DEF Created, Txns
<1>4. NoOp \in Mutations /\ NoOp.op = "none" /\ NoOp.pc = "idle"
  BY DEF NoOp, Mutations
<1>5. wr' \in [Writers -> Mutations] /\ wr'[w] = NoOp /\ \A x \in Writers \ {w} : wr'[x] = wr[x]
  BY <1>1, <1>2, <1>4 DEF Types
<1>6. Types'
  <2>1. Drawn' = Drawn /\ Futures' = Futures /\ Queries' = Queries
    BY <1>1, SameSets
  <2>2. status' \in [Roots -> {"uploading", "complete", "deleting", "gone"}]
    BY <1>1, <1>2 DEF StatusAfter, Types
  <2> QED BY <1>1, <1>2, <1>5, <2>1, <2>2 DEF Types
<1>7. Quota'
  <2>1. \A p \in Roots : Uploads(p)' \subseteq Uploads(p) /\ IsFiniteSet(Uploads(p))
    BY <1>4, <1>5, LayersAssumption, FS_Subset DEF Uploads
  <2>2. \A p \in Roots : /\ Cardinality(Uploads(p)') <= Cardinality(Uploads(p))
                         /\ Cardinality(Uploads(p)') \in Nat /\ Cardinality(Uploads(p)) \in Nat
    BY <2>1, FS_Subset, FS_CardinalityType
  <2>3. \A p \in Roots : floor'[p] <= rows'[p] /\ rows'[p] + Cardinality(Uploads(p)') <= MaxRows
    BY <1>1, <1>2, <2>2, LayersAssumption DEF Types, Quota
  <2>4. \A x \in Writers : wr'[x].op = "chunk" => wr'[x].root \in Roots
    BY <1>2, <1>4, <1>5 DEF Quota
  <2> QED BY <2>3, <2>4 DEF Quota
<1>8. Exclusive'
  BY <1>1, <1>2, <1>4, <1>5, ExclusiveStays
<1>9. ASSUME NEW r \in Requests, NEW p \in Roots
      PROVE  Attached(r, p)' /\ Anchored(r, p)' /\ Recent(r, p)'
  <2>1. Attached(r, p) /\ Drawn' = Drawn
    BY <1>1, SameSets DEF IInv
  <2>2. Attached(r, p)'
    BY <1>1, <2>1, SameFutures DEF Attached
  <2>3. Anchored(r, p)' /\ Recent(r, p)'
    BY <1>1, <1>2, <1>3 DEF Anchored, Recent, Txns
  <2> QED BY <2>2, <2>3
<1>10. Apart' /\ OneLayerPerHash'
  BY <1>1, <1>3 DEF Apart, OneLayerPerHash
<1>11. SearchesAreFinal' /\ NoOrphan' /\ Grounded' /\ Snapshot'
  BY <1>1, <1>2 DEF SearchesAreFinal, NoOrphan, Grounded, Snapshot
<1> QED BY <1>6, <1>7, <1>8, <1>9, <1>10, <1>11 DEF IInv

-----------------------------------------------------------------------------
(* The theorems.                                                           *)

\* Every step keeps the invariant.
LEMMA StepInv == IInv /\ [Next]_vars => IInv'
<1> SUFFICES ASSUME IInv, [Next]_vars PROVE IInv'
  OBVIOUS
<1>1. ASSUME NEW r \in Requests, QueryStep(r) PROVE IInv'
  BY <1>1, RequestSteps, StartStep, FinishStep, CancelStep, RecycleStep, QueueSteps, UpsertStep,
     PopulateSteps, CommitStep, HitStep DEF QueryStep
<1>2. ASSUME NEW w \in Writers, WriteStep(w) PROVE IInv'
  BY <1>2, MutationSteps, ChunkSteps, PurgeStep DEF WriteStep
<1>3. CASE (\E i \in Ids : Age(i)) \/ ScanDoomed \/ FailGc \/ DeleteDoomed
  BY <1>3, CollectorQuiet, DeleteStep
<1>4. CASE UNCHANGED vars
  <2>1. UNCHANGED <<lay, nextId, req, fut, gc, floor, wr, status, rows>>
    BY <1>4 DEF vars
  <2>2. Types /\ Quota' /\ Exclusive'
    BY <2>1 DEF IInv, Quota, Uploads, Exclusive
  <2> QED BY <2>1, <2>2, WriterStep DEF Types
<1> QED BY <1>1, <1>2, <1>3, <1>4 DEF Next

\* The invariant holds in every reachable state.
LEMMA Invariance == Spec => []IInv
BY InitInv, StepInv, PTL DEF Spec

\* Layers, queries, layer transactions, mutations and the collector keep their
\* types, through cancellations, recycled connections and rollbacks.
THEOREM TypeCorrect == Spec => []TypeOK
<1>1. IInv => TypeOK
  <2> SUFFICES ASSUME IInv PROVE TypeOK
    OBVIOUS
  <2>1. Types
    BY DEF IInv
  <2>2. ASSUME NEW r \in Requests
        PROVE  /\ req[r].st \in {"idle", "ready", "run", "cancelled"}
               /\ req[r].ref \in Refs
               /\ req[r].memo = NoMemo \/ req[r].memo \in [Roots -> 0 .. MaxRows]
               /\ DOMAIN req[r].chain \subseteq Roots
               /\ Visible(r) \subseteq 1 .. nextId - 1
    <3>1. req[r] \in Queries
      BY <2>1 DEF Types
    <3>2. req[r].chain \in Chains
      BY <3>1 DEF Queries
    <3>3. DOMAIN req[r].chain \subseteq Roots /\ req[r].chain \in [DOMAIN req[r].chain -> Seq(Drawn)]
      BY <3>2, ChainsElim
    <3>4. \A p \in DOMAIN req[r].chain : Range(req[r].chain[p]) \subseteq Drawn
      BY <3>3 DEF Range
    <3>5. Visible(r) \subseteq 1 .. nextId - 1
      BY <3>4 DEF Visible, Drawn
    <3> QED BY <3>1, <3>3, <3>5 DEF Queries
  <2>3. gc.doomed \subseteq Ids
    <3>1. Drawn \subseteq Ids
      BY <2>1, LayersAssumption DEF Types, Drawn, Ids
    <3> QED BY <2>1, <3>1 DEF Types
  <2>4. \A i \in DOMAIN lay : lay[i] \in Layers
    BY <2>1 DEF Types
  <2> QED
    BY <2>1, <2>2, <2>3, <2>4 DEF TypeOK, Types, Layers, Futures, Drawn
<1> QED BY <1>1, Invariance, PTL

\* The upsert of create_eph_layer makes racing creators of a key populate it
\* once, purges and rollbacks in between included.
THEOREM LayersAreUnique == Spec => []OneLayerPerHash
BY Invariance, PTL DEF IInv

\* No layer outlives its project, its parent or its base, whatever
\* purge_eph_cache, delete_project and purge_old_eph_layers delete meanwhile.
THEOREM LayersAreAnchored == Spec => []NoOrphan
BY Invariance, PTL DEF IInv

\* A layer of a search is never served with rows older than the last
\* purge_eph_cache published, whatever else runs: the LOCK TABLE comes before
\* the scan on one side and before the DELETE on the other.
THEOREM SearchesFinal == Spec => []SearchesAreFinal
BY Invariance, PTL DEF IInv

\* Without a loc, whose OnceCell carries one transaction's rows into another's
\* (the layer_loc run), a purge is final for every layer.
THEOREM PurgesAreFinal == ASSUME Locs = {} PROVE Spec => []PurgeIsFinal
<1>1. IInv => PurgeIsFinal
  BY DEF IInv, SearchesAreFinal, PurgeIsFinal
<1> QED BY <1>1, Invariance, PTL

\* The recursive closure of purge_old_eph_layers is complete: the cascades of
\* its DELETE take no rows out of a layer that its snapshot saw.
THEOREM CollectorSparesSeen == Spec => ClosureSparesSeen
<1> DEFINE Spared == \A i \in DOMAIN lay \cap DOMAIN lay' :
                       lay[i].rows = "whole" /\ lay'[i].rows = "hollow" => i \notin gc.seen
<1>1. IInv /\ [Next]_vars => [Spared]_vars
  <2> SUFFICES ASSUME IInv, [Next]_vars, NEW i \in DOMAIN lay \cap DOMAIN lay',
                      lay[i].rows = "whole", lay'[i].rows = "hollow", i \in gc.seen
               PROVE  FALSE
    OBVIOUS
  <2>1. Types /\ lay[i] \in Layers
    BY DEF IInv, Types
  <2>2. ~Touched /\ lay' # lay
    <3>1. ~Touched
      BY DEF Touched
    <3> QED BY <2>1, <3>1, TouchedBy
  <2>3. \A r \in Requests, p \in Roots : ~CommitLayer(r, p) /\ ~CommitHit(r, p)
    <3> SUFFICES ASSUME NEW r \in Requests, NEW p \in Roots PROVE ~CommitLayer(r, p) /\ ~CommitHit(r, p)
      OBVIOUS
    <3>1. Attached(r, p) /\ Anchored(r, p)
      BY DEF IInv
    <3>2. ~CommitHit(r, p)
      BY <2>1, <2>2, <3>1, TouchedBy DEF CommitHit, Running, Anchored
    <3>3. ~CommitLayer(r, p)
      BY DEF CommitLayer
    <3> QED BY <3>2, <3>3
  <2>4. ASSUME NEW r \in Requests, QueryStep(r) PROVE FALSE
    <3>1. ~Begin(r) /\ ~FinishStatement(r) /\ ~EndRequest(r) /\ ~Cancel(r)
      BY <2>2 DEF Begin, FinishStatement, EndRequest, Cancel
    <3>2. \A v \in Verbs : \A ref \in {NoRef} \cup [at : Roots, to : DOMAIN lay] : ~StartStatement(r, v, ref)
      BY <2>2 DEF StartStatement
    <3>3. \A p \in Roots : ~LockTable(r, p) /\ ~Upsert(r, p) /\ ~Scan(r, p)
      BY <2>2 DEF LockTable, Upsert, Scan
    <3>4. \A p \in Roots : ~Fill(r, p) /\ ~FailLayer(r, p) /\ ~Recycle(r, p)
      BY <2>2 DEF Fill, FailLayer, Recycle
    <3> QED BY <2>3, <2>4, <3>1, <3>2, <3>3, <3>4 DEF QueryStep
  <2>5. \A w \in Writers : ~WriteStep(w)
    BY <2>2 DEF WriteStep, ClaimChunk, LockForFinalize, MarkDeleting, DeleteZombie, ClearCaches,
       InsertChunk, CommitChunk, DeleteRows, DeleteRoot, RequestExclusive, TakeExclusive,
       PurgeAndCommit, RollBackWrite
  <2>6. \A j \in Ids : ~Age(j)
    BY <2>1, <2>2, TouchedBy DEF Age
  <2>7. DeleteDoomed
    BY <2>2, <2>4, <2>5, <2>6 DEF Next, vars, ScanDoomed, FailGc
  <2>8. PICK gone : gone = Cascade(gc.doomed)
    OBVIOUS
  <2>9. /\ gc.pc = "scanned"
        /\ lay' = [j \in DOMAIN lay \ gone |->
                   IF lay[j].to \in gone THEN [lay[j] EXCEPT !.rows = "hollow"] ELSE lay[j]]
    BY <2>7, <2>8 DEF DeleteDoomed
  <2>10. lay[i].to \in gone /\ i \notin gone
    BY <2>9
  <2>11. gone \subseteq DOMAIN lay /\ gc.doomed \cap DOMAIN lay \subseteq gone
    BY <2>8, CascadeIsClosed
  <2>12. lay[i].to # 0
    BY <2>1, <2>10, <2>11 DEF Types, Drawn
  <2>13. lay[i].to \in gc.seen
    BY <2>9, <2>12 DEF IInv, Snapshot
  <2>14. lay[i].to \in gc.doomed
    BY <2>8, <2>9, <2>10, <2>13, CascadeTakesDoomed
  <2>15. Needs(i) \cap gc.doomed # {}
    BY <2>12, <2>14 DEF Needs
  <2>16. i \in gc.doomed
    BY <2>9, <2>15 DEF IInv, Snapshot
  <2> QED BY <2>10, <2>11, <2>16
<1> QED BY <1>1, Invariance, PTL DEF Spec, ClosureSparesSeen
=============================================================================
