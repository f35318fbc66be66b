------------------------ MODULE ProjectUploadProofs ------------------------
(***************************************************************************)
(* ProjectUpload proved for every number of clients, chunks, faults and    *)
(* projects: type correctness, exactly-once chunks, the phase barrier and  *)
(* acknowledgements that hold, without any assumption on the uploads that  *)
(* meet; whole and frozen complete projects when uploads with the same     *)
(* number of symbol chunks agree on the object chunks too                  *)
(* (ResumeMatchesTotals is violated, and CompleteIsWhole with it, when     *)
(* they do not).                                                           *)
(***************************************************************************)
EXTENDS ProjectUpload, OrderLemmas

-----------------------------------------------------------------------------
(* The inductive invariant.                                                *)

Pcs == {"start", "look", "insert", "mark", "erase", "details", "symbols", "objects",
        "finalize", "done", "rejected"}
Statuses == {"uploading", "complete", "deleting"}
Rows == [status : Statuses, symTotal : Nat, objTotal : Nat, claims : SUBSET AllChunks,
         data : [AllChunks -> Seq(Clients)]]
Pids == 1 .. nextPid - 1
Requests == [chunk : AllChunks, attempt : Nat]
States == [pc : Pcs, pid : {NoPid} \cup Pids, ok : SUBSET AllChunks, sent : SUBSET Requests]

\* Where a client knows the id of its project.
Uploading == {"details", "symbols", "objects", "finalize"}

\* The full types of the variables; the name is in use at most once.
Types ==
  /\ nextPid \in 1 .. MaxPid + 1
  /\ DOMAIN proj \subseteq Pids
  /\ proj \in [DOMAIN proj -> Rows]
  /\ \A i, j \in DOMAIN proj : i = j
  /\ cl \in [Clients -> States]
  /\ \A c \in Clients : cl[c].pc \in Uploading => cl[c].pid \in Pids
  /\ calls \subseteq [from : Clients, pid : Pids, chunk : AllChunks, attempt : Nat,
                      st : {"queued", "claimed"}]
  /\ IsFiniteSet(calls)
  /\ faults \in 0 .. MaxFaults

\* An uncommitted claim holds its slot alone, and its project's row is there.
Claims ==
  /\ \A h \in calls : h.st = "claimed" =>
       h.pid \in DOMAIN proj /\ h.chunk \notin proj[h.pid].claims
  /\ \A g, h \in calls :
       g.st = "claimed" /\ h.st = "claimed" /\ g.pid = h.pid /\ g.chunk = h.chunk => g = h

\* What a client believes to be committed is, as long as its project is there;
\* past the symbol phase that is every symbol chunk it has.
Barrier ==
  /\ \A c \in Clients : cl[c].pc \in {"symbols", "objects", "finalize"}
                          /\ cl[c].pid \in DOMAIN proj =>
       /\ cl[c].ok \subseteq proj[cl[c].pid].claims
       /\ cl[c].pc # "symbols" => Symbols(c) \subseteq proj[cl[c].pid].claims
  /\ SymbolsFirst

IInv == Types /\ Claims /\ ExactlyOnce /\ Barrier

-----------------------------------------------------------------------------
(* Numbers and sets.                                                       *)

\* Counting the rows of a kind is counting numbers.
LEMMA ChunkCount ==
  ASSUME NEW kind, NEW n \in Nat
  PROVE  IsFiniteSet(Chunk(kind, n)) /\ Cardinality(Chunk(kind, n)) = n
<1> DEFINE f == [s \in 0 .. n - 1 |-> [kind |-> kind, seq |-> s]]
<1>1. f \in Bijection(0 .. n - 1, Chunk(kind, n))
  BY DEF Chunk, Bijection, Injection, Surjection, IsInjective
<1>2. ExistsBijection(0 .. n - 1, Chunk(kind, n))
  BY <1>1 DEF ExistsBijection
<1>3. IsFiniteSet(0 .. n - 1) /\ Cardinality(0 .. n - 1) = n
  BY FS_Interval
<1> QED
  BY <1>2, <1>3, FS_Bijection

\* There is always a number that no running attempt has.
LEMMA AttemptIsNat ==
  ASSUME Types, NEW c \in Clients, NEW ch
  PROVE  Attempt(c, ch) \in Nat
<1> DEFINE S == {g \in calls : g.from = c /\ g.pid = cl[c].pid /\ g.chunk = ch}
           taken == {h.attempt : h \in S}
           free == (0 .. Cardinality(taken)) \ taken
           f == [h \in S |-> h.attempt]
<1>1. IsFiniteSet(S)
  BY FS_Subset DEF Types
<1>2. f \in Surjection(S, taken)
  BY DEF Surjection
<1>3. IsFiniteSet(taken)
  <2> HIDE DEF S, taken, f
  <2> QED BY <1>1, <1>2, FS_Surjection
<1> HIDE DEF taken
<1>4. Cardinality(taken) \in Nat
  BY <1>3, FS_CardinalityType
<1>5. free # {}
  <2> SUFFICES ASSUME free = {} PROVE FALSE
    OBVIOUS
  <2>1. 0 .. Cardinality(taken) \in SUBSET taken
    OBVIOUS
  <2>2. Cardinality(0 .. Cardinality(taken)) <= Cardinality(taken)
    BY <1>3, <2>1, FS_Subset
  <2>3. Cardinality(0 .. Cardinality(taken)) = Cardinality(taken) + 1
    BY <1>4, FS_Interval
  <2> QED BY <1>4, <2>2, <2>3
<1>6. \E n \in free : \A m \in free : n <= m
  <2>1. free \subseteq Nat
    BY <1>4
  <2> HIDE DEF free
  <2> QED BY <1>5, <2>1, LeastNat
<1>7. Attempt(c, ch) = CHOOSE n \in free : \A m \in free : n <= m
  BY DEF Attempt, taken
<1> QED
  BY <1>4, <1>6, <1>7

\* The chunks of a client are chunks.
LEMMA MineAreChunks ==
  ASSUME NEW c \in Clients
  PROVE  Mine(c) \subseteq AllChunks /\ Symbols(c) \subseteq AllChunks
BY DEF Mine, AllChunks

-----------------------------------------------------------------------------
(* Initially, and step by step.                                            *)

\* No project, no request, every client about to run.
LEMMA InitInv == Init => IInv
<1> SUFFICES ASSUME Init PROVE IInv
  OBVIOUS
<1> USE UploadAssumption DEF Init, Started
<1>1. Types
  BY FS_EmptySet DEF Types, Pids, States, Pcs, Requests, Uploading
<1>2. Claims /\ ExactlyOnce /\ Barrier
  BY DEF Claims, ExactlyOnce, Barrier, SymbolsFirst
<1> QED BY <1>1, <1>2 DEF IInv

\* Actions of a client that leave the rows and the requests alone: it starts,
\* gives up or is refused, or learns something.
LEMMA QuietStep ==
  ASSUME IInv, NEW c \in Clients,
         UNCHANGED <<proj, nextPid, calls>>,
         faults' \in 0 .. MaxFaults,
         NEW s \in States, cl' = [cl EXCEPT ![c] = s],
         s.pc \in Uploading => s.pid \in Pids,
         s.pc \in {"symbols", "objects", "finalize"} /\ s.pid \in DOMAIN proj =>
           /\ s.ok \subseteq proj[s.pid].claims
           /\ s.pc # "symbols" => Symbols(c) \subseteq proj[s.pid].claims
  PROVE  IInv'
<1>1. Types'
  BY DEF IInv, Types, Pids, States
<1>2. Claims' /\ ExactlyOnce'
  BY DEF IInv, Claims, ExactlyOnce
<1>3. Barrier'
  BY DEF IInv, Types, Barrier, SymbolsFirst, SymbolsThere
<1> QED BY <1>1, <1>2, <1>3 DEF IInv

\* Counting a fault stays within the bound.
LEMMA FaultCounts == ASSUME Types, Fault PROVE faults' \in 0 .. MaxFaults
BY UploadAssumption DEF Types, Fault

\* A run starts, ends, or is taken up again.
LEMMA RunSteps ==
  ASSUME IInv, NEW c \in Clients, Run(c) \/ RunForced(c) \/ Crash(c)
  PROVE  IInv'
<1> USE UploadAssumption
<1>1. CASE Run(c)
  <2> DEFINE s == [cl[c] EXCEPT !.pc = "look"]
  <2>1. s \in States /\ s.pc = "look" /\ cl' = [cl EXCEPT ![c] = s]
    BY <1>1 DEF Run, Client, IInv, Types, States, Pcs
  <2> HIDE DEF s
  <2> QED BY <1>1, <2>1, QuietStep DEF Run, IInv, Types, Uploading
<1>2. CASE RunForced(c)
  <2> DEFINE i == CHOOSE j \in DOMAIN proj : TRUE
             s == IF DOMAIN proj = {} THEN [cl[c] EXCEPT !.pc = "look"]
                  ELSE [cl[c] EXCEPT !.pc = "mark", !.pid = i]
  <2>1. DOMAIN proj # {} => i \in DOMAIN proj
    OBVIOUS
  <2>2. cl' = [cl EXCEPT ![c] = s]
    BY <1>2 DEF RunForced
  <2> HIDE DEF i
  <2>3. s \in States /\ s.pc \in {"look", "mark"}
    BY <2>1 DEF IInv, Types, States, Pcs
  <2> HIDE DEF s
  <2>4. faults' \in 0 .. MaxFaults /\ UNCHANGED <<proj, nextPid, calls>>
    BY <1>2, FaultCounts DEF RunForced, IInv
  <2> QED BY <2>2, <2>3, <2>4, QuietStep DEF Uploading
<1>3. CASE Crash(c)
  <2>1. Started \in States /\ Started.pc = "start"
    BY DEF Started, States, Pcs
  <2>2. faults' \in 0 .. MaxFaults /\ UNCHANGED <<proj, nextPid, calls>>
    BY <1>3, FaultCounts DEF Crash, IInv
  <2>3. cl' = [cl EXCEPT ![c] = Started]
    BY <1>3 DEF Crash, Interrupted
  <2> QED BY <2>1, <2>2, <2>3, QuietStep DEF Uploading
<1> QED BY <1>1, <1>2, <1>3

\* A resumed client starts from the chunk records of its project.
LEMMA FetchStep ==
  ASSUME IInv, NEW c \in Clients, FetchDetails(c)
  PROVE  IInv'
<1> DEFINE known == IF cl[c].pid \in DOMAIN proj THEN proj[cl[c].pid].claims ELSE {}
           s == [cl[c] EXCEPT !.pc = "symbols", !.ok = known]
<1>1. s \in States /\ s.pc = "symbols" /\ s.ok = known /\ s.pid = cl[c].pid
        /\ cl' = [cl EXCEPT ![c] = s]
  BY DEF FetchDetails, IInv, Types, States, Pcs, Rows
<1>2. s.pid \in DOMAIN proj => s.ok \subseteq proj[s.pid].claims
  BY <1>1
<1>3. s.pid \in Pids
  BY <1>1 DEF FetchDetails, IInv, Types, Uploading
<1> HIDE DEF s, known
<1> QED BY <1>1, <1>2, <1>3, QuietStep DEF FetchDetails, IInv, Types

\* A request is given up, or a phase ends with everything acknowledged.
LEMMA PhaseSteps ==
  ASSUME IInv, NEW c \in Clients, EndPhase(c) \/ \E a \in cl[c].sent : Timeout(c, a)
  PROVE  IInv'
<1> USE UploadAssumption
<1>1. CASE EndPhase(c)
  <2> DEFINE s == [cl[c] EXCEPT !.pc = IF cl[c].pc = "symbols" THEN "objects" ELSE "finalize"]
  <2>1. s \in States /\ s.ok = cl[c].ok /\ s.pid = cl[c].pid /\ cl' = [cl EXCEPT ![c] = s]
    BY <1>1 DEF EndPhase, Client, IInv, Types, States, Pcs
  <2>2. s.pid \in DOMAIN proj =>
          s.ok \subseteq proj[s.pid].claims /\ Symbols(c) \subseteq proj[s.pid].claims
    <3>1. CASE cl[c].pc = "symbols"
      BY <1>1, <2>1, <3>1 DEF EndPhase, Mine, IInv, Barrier
    <3>2. CASE cl[c].pc = "objects"
      BY <1>1, <2>1, <3>2 DEF EndPhase, IInv, Barrier
    <3> QED BY <1>1, <3>1, <3>2 DEF EndPhase
  <2>3. s.pid \in Pids
    BY <1>1, <2>1 DEF EndPhase, IInv, Types, Uploading
  <2> HIDE DEF s
  <2> QED BY <1>1, <2>1, <2>2, <2>3, QuietStep DEF EndPhase, IInv, Types
<1>2. ASSUME NEW a \in cl[c].sent, Timeout(c, a) PROVE IInv'
  <2> DEFINE s == [cl[c] EXCEPT !.sent = @ \ {a}]
  <2>1. s \in States /\ s.ok = cl[c].ok /\ s.pid = cl[c].pid /\ s.pc = cl[c].pc
          /\ cl' = [cl EXCEPT ![c] = s]
    BY <1>2 DEF Timeout, IInv, Types, States
  <2>2. s.pc \in {"symbols", "objects", "finalize"} /\ s.pid \in DOMAIN proj =>
          /\ s.ok \subseteq proj[s.pid].claims
          /\ s.pc # "symbols" => Symbols(c) \subseteq proj[s.pid].claims
    BY <2>1 DEF IInv, Barrier
  <2>3. faults' \in 0 .. MaxFaults /\ UNCHANGED <<proj, nextPid, calls>>
    BY <1>2, FaultCounts DEF Timeout, IInv
  <2>4. s.pc \in Uploading => s.pid \in Pids
    BY <2>1 DEF IInv, Types
  <2> HIDE DEF s
  <2> QED BY <2>1, <2>2, <2>3, <2>4, QuietStep
<1> QED BY <1>1, <1>2

\* A step that changes nothing of a row but its status.
LEMMA StatusStep ==
  ASSUME IInv, NEW c \in Clients, NEW i \in DOMAIN proj, NEW st \in Statuses,
         proj' = [proj EXCEPT ![i].status = st],
         UNCHANGED <<nextPid, calls, faults>>,
         NEW pc \in {"erase", "done"}, cl' = [cl EXCEPT ![c].pc = pc]
  PROVE  IInv'
<1>1. /\ DOMAIN proj' = DOMAIN proj
      /\ \A j \in DOMAIN proj : /\ proj'[j].claims = proj[j].claims
                                /\ proj'[j].data = proj[j].data
                                /\ proj'[j] \in Rows
  BY DEF IInv, Types, Rows
<1>2. Types'
  BY <1>1 DEF IInv, Types, Pids, States, Pcs, Uploading
<1>3. Claims' /\ ExactlyOnce'
  BY <1>1 DEF IInv, Types, Claims, ExactlyOnce
<1>4. Barrier'
  BY <1>1 DEF IInv, Types, States, Barrier, SymbolsFirst, SymbolsThere
<1> QED BY <1>2, <1>3, <1>4 DEF IInv

\* delete_project's mark.
LEMMA MarkStep ==
  ASSUME IInv, NEW c \in Clients, MarkDeleting(c)
  PROVE  IInv'
<1>1. CASE cl[c].pid \in DOMAIN proj
  BY <1>1, StatusStep DEF MarkDeleting, Client, Statuses
<1>2. CASE cl[c].pid \notin DOMAIN proj
  <2> DEFINE s == [cl[c] EXCEPT !.pc = "look"]
  <2>1. s \in States /\ s.pc = "look" /\ cl' = [cl EXCEPT ![c] = s]
    BY <1>2 DEF MarkDeleting, Client, IInv, Types, States, Pcs
  <2> HIDE DEF s
  <2> QED BY <1>2, <2>1, QuietStep DEF MarkDeleting, IInv, Types, Uploading
<1> QED BY <1>1, <1>2

\* delete_project's transaction: nobody has a claim on what goes.
LEMMA EraseStep ==
  ASSUME IInv, NEW c \in Clients, Erase(c)
  PROVE  IInv'
<1>1. /\ DOMAIN proj' \subseteq DOMAIN proj
      /\ \A j \in DOMAIN proj' : proj'[j] = proj[j]
      /\ \A h \in calls : h.st = "claimed" => h.pid # cl[c].pid
      /\ DOMAIN proj' = DOMAIN proj \ {cl[c].pid}
  BY DEF Erase, Pinned
<1>2. cl' = [cl EXCEPT ![c].pc = "look"] /\ UNCHANGED <<nextPid, calls, faults>>
  BY DEF Erase, Client
<1>3. Types'
  <2>1. proj' \in [DOMAIN proj' -> Rows]
    BY <1>1 DEF Erase, IInv, Types
  <2> QED BY <1>1, <1>2, <2>1 DEF IInv, Types, Pids, States, Pcs, Uploading
<1>4. Claims' /\ ExactlyOnce'
  BY <1>1, <1>2 DEF IInv, Types, Claims, ExactlyOnce
<1>5. Barrier'
  BY <1>1, <1>2 DEF IInv, Types, States, Barrier, SymbolsFirst, SymbolsThere
<1> QED BY <1>3, <1>4, <1>5 DEF IInv

\* A new row replaces whatever had the name: nobody has a claim on that.
LEMMA InsertStep ==
  ASSUME IInv, NEW c \in Clients, Insert(c, {}),
         \A h \in calls : h.st # "claimed",
         UNCHANGED <<calls, faults>>
  PROVE  IInv'
<1> USE UploadAssumption
<1>1. proj' = [i \in {nextPid} |-> FreshRow(c)] /\ nextPid' = nextPid + 1
        /\ nextPid \in 1 .. MaxPid
  BY DEF Insert, IInv, Types
<1>2. FreshRow(c) \in Rows
  BY DEF FreshRow, Rows, Statuses
<1>3. /\ FreshRow(c).claims = {}
      /\ FreshRow(c).data = [ch \in AllChunks |-> <<>>]
  BY DEF FreshRow
<1>4. \A h \in calls : h.pid # nextPid
  BY DEF IInv, Types, Pids
<1>5. \A d \in Clients : cl[d].pid # nextPid
  BY <1>1 DEF IInv, Types, Pids, States
<1> DEFINE s == [Started EXCEPT !.pc = "symbols", !.pid = nextPid]
<1>6. /\ cl' = [cl EXCEPT ![c] = s]
      /\ s.pc = "symbols" /\ s.pid = nextPid /\ s.ok = {}
  BY DEF Insert, Started
<1>7. Types'
  <2>1. Pids \subseteq Pids' /\ nextPid \in Pids' /\ nextPid' \in 1 .. MaxPid + 1
    BY <1>1 DEF Pids, IInv, Types
  <2>2. DOMAIN proj' \subseteq Pids' /\ proj' \in [DOMAIN proj' -> Rows]
          /\ \A i, j \in DOMAIN proj' : i = j
    BY <1>1, <1>2, <2>1
  <2>3. cl' \in [Clients -> States']
    <3>1. s \in States' /\ States \subseteq States'
      BY <2>1 DEF States, Pcs, Started
    <3> QED BY <1>6, <3>1 DEF IInv, Types
  <2> HIDE DEF s
  <2>4. \A d \in Clients : cl'[d].pc \in Uploading => cl'[d].pid \in Pids'
    BY <1>6, <2>1 DEF IInv, Types
  <2> QED BY <2>1, <2>2, <2>3, <2>4 DEF IInv, Types
<1> HIDE DEF s
<1>8. Claims' /\ ExactlyOnce'
  BY <1>1, <1>3 DEF IInv, Claims, ExactlyOnce
<1>9. Barrier'
  BY <1>1, <1>3, <1>4, <1>5, <1>6 DEF IInv, Types, Barrier, SymbolsFirst, SymbolsThere
<1> QED BY <1>7, <1>8, <1>9 DEF IInv

\* create_project: a row, a resumed upload, or a refusal.
LEMMA CreateSteps ==
  ASSUME IInv, NEW c \in Clients, LookUp(c) \/ InsertProject(c)
  PROVE  IInv'
<1>1. UNCHANGED <<calls, faults>>
  BY DEF LookUp, InsertProject
<1>2. ASSUME NEW pc \in {"insert", "rejected"}, Client(c, pc), UNCHANGED <<proj, nextPid>>
      PROVE  IInv'
  <2> DEFINE s == [cl[c] EXCEPT !.pc = pc]
  <2>1. s \in States /\ s.pc \in {"insert", "rejected"} /\ cl' = [cl EXCEPT ![c] = s]
    BY <1>2 DEF Client, IInv, Types, States, Pcs
  <2> HIDE DEF s
  <2> QED BY <1>1, <1>2, <2>1, QuietStep DEF IInv, Types, Uploading
<1>3. ASSUME Interrupted(c), UNCHANGED <<proj, nextPid>> PROVE IInv'
  <2>1. Started \in States /\ Started.pc = "start"
    BY DEF Started, States, Pcs
  <2>2. cl' = [cl EXCEPT ![c] = Started]
    BY <1>3 DEF Interrupted
  <2> QED BY <1>1, <1>3, <2>1, <2>2, QuietStep DEF IInv, Types, Uploading
<1>4. ASSUME NEW i \in DOMAIN proj, UNCHANGED <<proj, nextPid>>,
             cl' = [cl EXCEPT ![c] = [Started EXCEPT !.pc = "details", !.pid = i]]
      PROVE  IInv'
  <2> DEFINE s == [Started EXCEPT !.pc = "details", !.pid = i]
  <2>1. s \in States /\ s.pc = "details" /\ s.pid \in Pids
    BY DEF Started, IInv, Types, States, Pcs
  <2> HIDE DEF s
  <2> QED BY <1>1, <1>4, <2>1, QuietStep DEF IInv, Types, s
<1>5. ASSUME DOMAIN proj = {} \/ \E i \in DOMAIN proj : ~Pinned(i)
      PROVE  \A h \in calls : h.st # "claimed"
  BY <1>5 DEF IInv, Types, Claims, Pinned
<1>6. CASE LookUp(c)
  BY <1>1, <1>2, <1>4, <1>5, <1>6, InsertStep DEF LookUp, SameTotals
<1>7. CASE InsertProject(c)
  BY <1>1, <1>3, <1>5, <1>7, InsertStep DEF InsertProject
<1> QED BY <1>6, <1>7

\* finalize_project, and a CLI that gives up.
LEMMA FinalizeStep ==
  ASSUME IInv, NEW c \in Clients, Finalize(c)
  PROVE  IInv'
<1>1. UNCHANGED <<nextPid, calls, faults>>
  BY DEF Finalize
<1>2. ASSUME Interrupted(c), UNCHANGED proj PROVE IInv'
  <2>1. Started \in States /\ Started.pc = "start"
    BY DEF Started, States, Pcs
  <2>2. cl' = [cl EXCEPT ![c] = Started]
    BY <1>2 DEF Interrupted
  <2> QED BY <1>1, <1>2, <2>1, <2>2, QuietStep DEF IInv, Types, Uploading
<1>3. ASSUME Client(c, "done"), UNCHANGED proj PROVE IInv'
  <2> DEFINE s == [cl[c] EXCEPT !.pc = "done"]
  <2>1. s \in States /\ s.pc = "done" /\ cl' = [cl EXCEPT ![c] = s]
    BY <1>3 DEF Client, IInv, Types, States, Pcs
  <2> HIDE DEF s
  <2> QED BY <1>1, <1>3, <2>1, QuietStep DEF IInv, Types, Uploading
<1>4. ASSUME cl[c].pid \in DOMAIN proj, Client(c, "done"),
             proj' = [proj EXCEPT ![cl[c].pid].status = "complete"]
      PROVE  IInv'
  BY <1>1, <1>4, StatusStep DEF Client, Statuses
<1> QED BY <1>2, <1>3, <1>4 DEF Finalize

-----------------------------------------------------------------------------
(* Chunk requests.                                                         *)

\* A request goes out; past the barrier the symbols are there.
LEMMA SendStep ==
  ASSUME IInv, NEW c \in Clients, NEW ch \in AllChunks, SendChunk(c, ch)
  PROVE  IInv'
<1> DEFINE n == Attempt(c, ch)
           a == [chunk |-> ch, attempt |-> n]
           h == [from |-> c, pid |-> cl[c].pid, chunk |-> ch, attempt |-> n, st |-> "queued"]
<1>1. n \in Nat
  BY AttemptIsNat DEF IInv
<1>2. /\ cl' = [cl EXCEPT ![c].sent = @ \cup {a}]
      /\ calls' = calls \cup {h}
      /\ UNCHANGED <<proj, nextPid, faults>>
  BY DEF SendChunk
<1> HIDE DEF n
<1>3. cl[c].pc \in {"symbols", "objects"} /\ ch \in Mine(c) /\ cl[c].pid \in Pids
  BY DEF SendChunk, Mine, IInv, Types, Uploading
<1>4. h \in [from : Clients, pid : Pids, chunk : AllChunks, attempt : Nat,
             st : {"queued", "claimed"}] /\ a \in Requests
  BY <1>1, <1>3 DEF Requests
<1>5. /\ h.st = "queued" /\ h.pid = cl[c].pid /\ h.chunk = ch /\ h.from = c
      /\ \A d \in Clients : /\ cl'[d].pc = cl[d].pc
                            /\ cl'[d].pid = cl[d].pid
                            /\ cl'[d].ok = cl[d].ok
  BY <1>2 DEF IInv, Types, States
<1> HIDE DEF h, a
<1>6. Types'
  <2>1. IsFiniteSet(calls')
    BY <1>2, FS_AddElement DEF IInv, Types
  <2>2. cl' \in [Clients -> States]
    BY <1>2, <1>4 DEF IInv, Types, States
  <2> QED BY <1>2, <1>4, <1>5, <2>1, <2>2 DEF IInv, Types, States, Pids
<1>7. Claims' /\ ExactlyOnce'
  BY <1>2, <1>5 DEF IInv, Claims, ExactlyOnce
<1>8. Barrier'
  <2>1. ch.kind = "objects" => cl[c].pc = "objects"
    BY <1>3 DEF Mine, Symbols, Chunk
  <2>2. SymbolsFirst'
    BY <1>2, <1>3, <1>5, <2>1 DEF IInv, Barrier, SymbolsFirst, SymbolsThere
  <2> QED BY <1>2, <1>5, <2>2 DEF IInv, Barrier
<1> QED BY <1>6, <1>7, <1>8 DEF IInv

\* A handler is through without a commit: fewer requests, and a client that
\* was told nothing new.
LEMMA DropStep ==
  ASSUME IInv, NEW h \in calls, calls' = calls \ {h}, UNCHANGED <<proj, nextPid>>,
         faults' \in 0 .. MaxFaults,
         cl' \in [Clients -> States],
         \A c \in Clients : cl'[c].pc \in Uploading =>
           /\ cl'[c].pc = cl[c].pc /\ cl'[c].pid = cl[c].pid
           /\ cl'[c].pid \in DOMAIN proj =>
                cl'[c].ok \subseteq cl[c].ok \cup proj[cl'[c].pid].claims
  PROVE  IInv'
<1>1. Types'
  BY FS_RemoveElement DEF IInv, Types, Pids, States
<1>2. Claims' /\ ExactlyOnce'
  BY DEF IInv, Claims, ExactlyOnce
<1>3. Barrier'
  BY DEF IInv, Types, Barrier, Uploading, SymbolsFirst, SymbolsThere
<1> QED BY <1>1, <1>2, <1>3 DEF IInv

\* The 200 of a chunk that is recorded: the client may rely on it.
LEMMA AnswerTells ==
  ASSUME IInv, NEW h \in calls, Answer(h), NEW claims,
         h.chunk \in claims
  PROVE  /\ cl' \in [Clients -> States]
         /\ \A c \in Clients :
              /\ cl'[c].pc = cl[c].pc /\ cl'[c].pid = cl[c].pid
              /\ cl'[c].ok = cl[c].ok \/ (cl[c].pid = h.pid /\ cl'[c].ok \subseteq cl[c].ok \cup claims)
<1>1. CASE Awaits(h)
  BY <1>1 DEF Answer, Awaits, IInv, Types, States
<1>2. CASE ~Awaits(h)
  BY <1>2 DEF Answer, IInv, Types
<1> QED BY <1>1, <1>2

\* Refused and aborted handlers.
LEMMA EndSteps ==
  ASSUME IInv, NEW h \in calls, RefuseChunk(h) \/ AbortChunk(h)
  PROVE  IInv'
<1>1. Started \in States /\ Started.pc = "start"
  BY DEF Started, States, Pcs
<1>2. CASE RefuseChunk(h)
  <2>1. cl' \in [Clients -> States] /\ \A c \in Clients : cl'[c] = cl[c] \/ cl'[c] = Started
    BY <1>1, <1>2 DEF RefuseChunk, Interrupted, IInv, Types
  <2>2. calls' = calls \ {h} /\ UNCHANGED <<proj, nextPid>> /\ faults' \in 0 .. MaxFaults
    BY <1>2 DEF RefuseChunk, IInv, Types
  <2> QED BY <1>1, <2>1, <2>2, DropStep DEF Uploading
<1>3. CASE AbortChunk(h)
  <2>1. /\ cl' \in [Clients -> States]
        /\ \A c \in Clients : /\ cl'[c].pc = cl[c].pc /\ cl'[c].pid = cl[c].pid
                              /\ cl'[c].ok = cl[c].ok
    BY <1>3 DEF AbortChunk, IInv, Types, States
  <2>2. calls' = calls \ {h} /\ UNCHANGED <<proj, nextPid>> /\ faults' \in 0 .. MaxFaults
    BY <1>3, FaultCounts DEF AbortChunk, IInv
  <2> QED BY <2>1, <2>2, DropStep
<1> QED BY <1>2, <1>3

\* A claim: the slot is taken and free of other claims, or recorded already.
LEMMA ClaimStep ==
  ASSUME IInv, NEW h \in calls, ClaimChunk(h)
  PROVE  IInv'
<1>1. UNCHANGED <<proj, nextPid, faults>> /\ h.pid \in DOMAIN proj /\ h.st = "queued"
  BY DEF ClaimChunk
<1>2. CASE h.chunk \in proj[h.pid].claims
  <2>1. calls' = calls \ {h} /\ Answer(h)
    BY <1>2 DEF ClaimChunk
  <2>2. /\ cl' \in [Clients -> States]
        /\ \A c \in Clients :
             /\ cl'[c].pc = cl[c].pc /\ cl'[c].pid = cl[c].pid
             /\ cl'[c].ok = cl[c].ok \/ (cl[c].pid = h.pid /\
                  cl'[c].ok \subseteq cl[c].ok \cup proj[h.pid].claims)
    BY <1>2, <2>1, AnswerTells
  <2>3. \A c \in Clients : cl'[c].pid \in DOMAIN proj =>
          cl'[c].ok \subseteq cl[c].ok \cup proj[cl'[c].pid].claims
    BY <2>2
  <2>4. faults' \in 0 .. MaxFaults
    BY <1>1 DEF IInv, Types
  <2> QED BY <1>1, <2>1, <2>2, <2>3, <2>4, DropStep
<1>3. CASE h.chunk \notin proj[h.pid].claims
  <2> DEFINE g == [h EXCEPT !.st = "claimed"]
  <2>1. calls' = (calls \ {h}) \cup {g} /\ cl' = cl
    BY <1>3 DEF ClaimChunk
  <2>2. /\ g \in [from : Clients, pid : Pids, chunk : AllChunks, attempt : Nat,
                  st : {"queued", "claimed"}]
        /\ g.st = "claimed" /\ g.pid = h.pid /\ g.chunk = h.chunk /\ g.from = h.from
    BY DEF IInv, Types
  <2>3. \A f \in calls : f.st = "claimed" /\ f.pid = h.pid => f.chunk # h.chunk
    BY DEF ClaimChunk
  <2> HIDE DEF g
  <2>4. Types'
    <3>1. IsFiniteSet(calls')
      BY <2>1, FS_AddElement, FS_RemoveElement DEF IInv, Types
    <3> QED BY <1>1, <2>1, <2>2, <3>1 DEF IInv, Types, Pids, States
  <2>5. Claims'
    BY <1>1, <1>3, <2>1, <2>2, <2>3 DEF IInv, Claims
  <2>6. ExactlyOnce' /\ Barrier'
    BY <1>1, <2>1, <2>2 DEF IInv, ExactlyOnce, Barrier, SymbolsFirst, SymbolsThere
  <2> QED BY <2>4, <2>5, <2>6 DEF IInv
<1> QED BY <1>2, <1>3

\* A commit: record and rows together, in a slot that was empty.
LEMMA CommitStep ==
  ASSUME IInv, NEW h \in calls, CommitChunk(h)
  PROVE  IInv'
<1> DEFINE i == h.pid
           d == [proj[i].data EXCEPT ![h.chunk] = Append(@, h.from)]
           row == [proj[i] EXCEPT !.claims = @ \cup {h.chunk}, !.data = d]
<1>1. i \in DOMAIN proj /\ h.chunk \notin proj[i].claims /\ h.chunk \in AllChunks
        /\ h.from \in Clients /\ proj[i] \in Rows /\ h.st = "claimed"
  BY DEF CommitChunk, IInv, Types, Claims
<1>2. proj' = [proj EXCEPT ![i] = row] /\ calls' = calls \ {h} /\ Answer(h)
        /\ UNCHANGED <<nextPid, faults>>
  BY DEF CommitChunk
<1>3. /\ row.claims = proj[i].claims \cup {h.chunk}
      /\ row.data = d
      /\ row \in Rows
  <2>1. proj[i].data \in [AllChunks -> Seq(Clients)]
    BY <1>1 DEF Rows
  <2>2. Append(proj[i].data[h.chunk], h.from) \in Seq(Clients)
    BY <1>1, <2>1
  <2>3. d \in [AllChunks -> Seq(Clients)]
    BY <1>1, <2>1, <2>2
  <2> HIDE DEF d
  <2> QED BY <1>1, <2>3 DEF Rows
<1> HIDE DEF row
<1>4. /\ cl' \in [Clients -> States]
      /\ \A c \in Clients :
           /\ cl'[c].pc = cl[c].pc /\ cl'[c].pid = cl[c].pid
           /\ cl'[c].ok = cl[c].ok \/ (cl[c].pid = i /\ cl'[c].ok \subseteq cl[c].ok \cup row.claims)
  BY <1>2, <1>3, AnswerTells
<1>5. DOMAIN proj' = DOMAIN proj /\ proj'[i] = row
        /\ \A j \in DOMAIN proj : j # i => proj'[j] = proj[j]
  BY <1>1, <1>2 DEF IInv, Types
<1>6. Types'
  <2>1. IsFiniteSet(calls')
    BY <1>2, FS_RemoveElement DEF IInv, Types
  <2>2. proj' \in [DOMAIN proj' -> Rows]
    BY <1>2, <1>3, <1>5 DEF IInv, Types
  <2> QED BY <1>2, <1>4, <1>5, <2>1, <2>2 DEF IInv, Types, Pids, States
<1>7. Claims'
  BY <1>1, <1>2, <1>3, <1>5 DEF IInv, Claims
<1>8. ExactlyOnce'
  <2>1. Len(proj[i].data[h.chunk]) = 0
    BY <1>1 DEF IInv, ExactlyOnce
  <2>2. \A ch \in AllChunks : Len(row.data[ch]) = IF ch \in row.claims THEN 1 ELSE 0
    BY <1>1, <1>3, <2>1 DEF IInv, ExactlyOnce, Rows
  <2> QED BY <1>5, <2>2 DEF IInv, ExactlyOnce
<1>9. Barrier'
  <2>1. \A j \in DOMAIN proj : proj[j].claims \subseteq proj'[j].claims
    BY <1>3, <1>5
  <2>2. \A c \in Clients : cl'[c].pid \in DOMAIN proj =>
          cl'[c].ok \subseteq cl[c].ok \cup proj'[cl'[c].pid].claims
    BY <1>4, <1>5
  <2> QED BY <1>2, <1>4, <1>5, <2>1, <2>2 DEF IInv, Barrier, SymbolsFirst, SymbolsThere
<1> QED BY <1>6, <1>7, <1>8, <1>9 DEF IInv

-----------------------------------------------------------------------------
(* The theorems that hold whatever uploads meet.                           *)

\* Every step keeps the invariant.
LEMMA StepInv == IInv /\ [Next]_vars => IInv'
<1> SUFFICES ASSUME IInv, [Next]_vars PROVE IInv'
  OBVIOUS
<1>1. ASSUME NEW c \in Clients, ClientStep(c) PROVE IInv'
  BY <1>1, RunSteps, MarkStep, EraseStep, CreateSteps, FetchStep, SendStep, PhaseSteps,
     FinalizeStep DEF ClientStep
<1>2. ASSUME NEW c \in Clients, RunForced(c) \/ Crash(c) \/ \E a \in cl[c].sent : Timeout(c, a)
      PROVE  IInv'
  BY <1>2, RunSteps, PhaseSteps
<1>3. ASSUME NEW h \in calls, HandlerStep(h) \/ AbortChunk(h) PROVE IInv'
  BY <1>3, ClaimStep, CommitStep, EndSteps DEF HandlerStep
<1>4. CASE UNCHANGED vars
  BY <1>4 DEF vars, IInv, Types, Pids, States, Claims, ExactlyOnce, Barrier, SymbolsFirst,
             SymbolsThere
<1> QED
  BY <1>1, <1>2, <1>3, <1>4 DEF Next, Ended

\* The invariant holds in every reachable state.
LEMMA Invariance == Spec => []IInv
BY InitInv, StepInv, PTL DEF Spec

\* Every variable keeps its type, and the unique index on project names lets a
\* name be in use at most once, through delete_project, zombies and racing
\* create_projects.
THEOREM TypeCorrect == Spec => []TypeOK
<1>1. IInv => TypeOK
  <2> SUFFICES ASSUME IInv PROVE TypeOK
    OBVIOUS
  <2>1. Cardinality(DOMAIN proj) <= 1
    <3>1. CASE DOMAIN proj = {}
      BY <3>1, FS_EmptySet
    <3>2. CASE DOMAIN proj # {}
      <4>1. PICK i \in DOMAIN proj : TRUE
        BY <3>2
      <4>2. DOMAIN proj = {i}
        BY <4>1 DEF IInv, Types
      <4> QED BY <4>2, FS_Singleton
    <3> QED BY <3>1, <3>2
  <2>2. \A c \in Clients : InFlight(c) \subseteq AllChunks
    BY DEF IInv, Types, States, Requests, InFlight
  <2> QED
    BY <2>1, <2>2, UploadAssumption DEF TypeOK, IInv, Types, Rows, Statuses, States, Pids, Calls
<1> QED
  BY <1>1, Invariance, PTL

\* The chunk record's unique key (claim_chunk) makes retried, duplicated and
\* overtaken chunk requests insert a chunk's rows once.
THEOREM ChunksLandOnce == Spec => []ExactlyOnce
BY Invariance, PTL DEF IInv

\* upload_chunks_windowed ends the symbol phase before the first object chunk:
\* at the server, no object rows of a client without its symbol rows.
THEOREM SymbolsPrecedeObjects == Spec => []SymbolsFirst
BY Invariance, PTL DEF IInv, Barrier

-----------------------------------------------------------------------------
(* What a client was told holds, whatever uploads meet.                    *)

\* From the first chunk on a client has something to rely on.
Working == {"symbols", "objects", "finalize", "done"}

\* Before that a client relies on nothing and waits for nothing; each phase ends
\* with all of its chunks acknowledged; what was acknowledged is recorded.
Honest(c) ==
  /\ cl[c].pc \notin Working => cl[c].ok = {} /\ cl[c].sent = {}
  /\ cl[c].pc \in {"objects", "finalize", "done"} => Symbols(c) \subseteq cl[c].ok
  /\ cl[c].pc \in {"finalize", "done"} => Objects(c) \subseteq cl[c].ok
  /\ cl[c].pid \in DOMAIN proj => cl[c].ok \subseteq proj[cl[c].pid].claims

Told == \A c \in Clients : Honest(c)

\* A project that stays keeps its chunk records, and a new one has a new id.
RowsGrow ==
  \A i \in DOMAIN proj' \cap Pids :
    i \in DOMAIN proj /\ proj[i].claims \subseteq proj'[i].claims

LEMMA RowsOnlyGrow == IInv /\ [Next]_vars => RowsGrow
<1> SUFFICES ASSUME IInv, [Next]_vars PROVE RowsGrow
  OBVIOUS
<1>1. CASE UNCHANGED proj
  BY <1>1 DEF RowsGrow
<1>2. ASSUME NEW c \in Clients, Insert(c, {}) PROVE RowsGrow
  BY <1>2 DEF Insert, RowsGrow, IInv, Types, Pids
<1>3. ASSUME NEW c \in Clients, ClientStep(c) PROVE RowsGrow
  <2>1. CASE MarkDeleting(c) \/ Finalize(c)
    <3>1. ASSUME NEW st \in Statuses, proj' = [proj EXCEPT ![cl[c].pid].status = st]
          PROVE  RowsGrow
      BY <3>1 DEF RowsGrow, IInv, Types, Rows
    <3>2. CASE MarkDeleting(c)
      BY <1>1, <3>1, <3>2 DEF MarkDeleting, Statuses
    <3>3. CASE Finalize(c)
      BY <1>1, <3>1, <3>3 DEF Finalize, Statuses
    <3> QED BY <2>1, <3>2, <3>3
  <2>2. CASE Erase(c)
    BY <2>2 DEF Erase, RowsGrow
  <2>3. CASE LookUp(c) \/ InsertProject(c)
    BY <1>1, <1>2, <2>3 DEF LookUp, InsertProject
  <2> QED BY <1>1, <1>3, <2>1, <2>2, <2>3 DEF ClientStep, Run, FetchDetails, SendChunk, EndPhase
<1>4. ASSUME NEW h \in calls, CommitChunk(h) PROVE RowsGrow
  <2>1. h.pid \in DOMAIN proj
    BY <1>4 DEF CommitChunk, IInv, Claims
  <2>2. DOMAIN proj' = DOMAIN proj /\ \A j \in DOMAIN proj :
          proj'[j].claims = IF j = h.pid THEN proj[j].claims \cup {h.chunk} ELSE proj[j].claims
    BY <1>4, <2>1 DEF CommitChunk, IInv, Types, Rows
  <2> QED BY <2>2 DEF RowsGrow
<1> QED
  BY <1>1, <1>3, <1>4 DEF Next, HandlerStep, RunForced, Crash, Timeout, ClaimChunk, RefuseChunk,
                          AbortChunk, Ended, vars

\* A client that a step leaves alone may go on relying on what it was told.
LEMMA StaysHonest ==
  ASSUME IInv, Told, RowsGrow, nextPid' \in 1 .. MaxPid + 1, DOMAIN proj' \subseteq 1 .. nextPid' - 1,
         NEW c \in Clients, cl'[c] = cl[c]
  PROVE  Honest(c)'
<1>1. cl[c].pid \in DOMAIN proj' => cl[c].pid \in DOMAIN proj' \cap Pids
  BY UploadAssumption DEF IInv, Types, States, Pids
<1>2. Symbols(c)' = Symbols(c) /\ Objects(c)' = Objects(c)
  BY DEF Symbols, Objects, Chunk
<1> QED BY <1>1, <1>2 DEF Told, Honest, RowsGrow

\* A client starts over with nothing.
LEMMA StartsHonest ==
  ASSUME NEW c \in Clients,
         \/ cl'[c] = Started
         \/ cl'[c].ok = {} /\ cl'[c].pc = "symbols"
         \/ cl'[c].ok = {} /\ cl'[c].sent = {} /\ cl'[c].pc \notin Working
  PROVE  Honest(c)'
BY DEF Honest, Started, Working

\* The steps of the client itself.
LEMMA ClientIsHonest ==
  ASSUME IInv, Told, RowsGrow, NEW c \in Clients,
         ClientStep(c) \/ RunForced(c) \/ Crash(c) \/ \E a \in cl[c].sent : Timeout(c, a)
  PROVE  Honest(c)'
<1>1. cl[c] \in States /\ Honest(c) /\ (cl[c].pid \in DOMAIN proj => cl[c].pid \in Pids)
  BY DEF IInv, Types, Told
<1>2. Symbols(c)' = Symbols(c) /\ Objects(c)' = Objects(c)
  BY DEF Symbols, Objects, Chunk
<1>3. CASE Run(c) \/ MarkDeleting(c) \/ Erase(c)
  <2>1. cl[c].ok = {} /\ cl[c].sent = {}
    BY <1>1, <1>3 DEF Run, MarkDeleting, Erase, Honest, Working
  <2>2. /\ cl'[c].ok = cl[c].ok /\ cl'[c].sent = cl[c].sent
        /\ cl'[c].pc \in {"look", "erase"}
    BY <1>1, <1>3 DEF Run, MarkDeleting, Erase, Client, States, IInv, Types
  <2> QED BY <2>1, <2>2, StartsHonest DEF Working
<1>4. CASE RunForced(c)
  <2>1. cl[c].ok = {} /\ cl[c].sent = {}
    BY <1>1, <1>4 DEF RunForced, Honest, Working
  <2>2. /\ cl'[c].ok = cl[c].ok /\ cl'[c].sent = cl[c].sent
        /\ cl'[c].pc \in {"look", "mark"}
    BY <1>1, <1>4 DEF RunForced, States, IInv, Types
  <2> QED BY <2>1, <2>2, StartsHonest DEF Working
<1>5. CASE Crash(c)
  BY <1>5, StartsHonest DEF Crash, Interrupted, IInv, Types
<1>6. CASE LookUp(c) \/ InsertProject(c)
  <2>1. cl[c].ok = {} /\ cl[c].sent = {}
    BY <1>1, <1>6 DEF LookUp, InsertProject, Honest, Working
  <2>2. ASSUME NEW pc \in {"insert", "rejected"}, Client(c, pc) PROVE Honest(c)'
    <3>1. cl'[c].ok = {} /\ cl'[c].sent = {} /\ cl'[c].pc = pc
      BY <1>1, <2>1, <2>2 DEF Client, States, IInv, Types
    <3> QED BY <3>1, StartsHonest DEF Working
  <2>3. ASSUME NEW i, cl' = [cl EXCEPT ![c] = [Started EXCEPT !.pc = "details", !.pid = i]]
        PROVE  Honest(c)'
    <3>1. cl'[c].ok = {} /\ cl'[c].sent = {} /\ cl'[c].pc = "details"
      BY <2>3 DEF Started, IInv, Types
    <3> QED BY <3>1, StartsHonest DEF Working
  <2>4. ASSUME Insert(c, {}) PROVE Honest(c)'
    <3>1. cl'[c].ok = {} /\ cl'[c].pc = "symbols"
      BY <2>4 DEF Insert, Started, IInv, Types
    <3> QED BY <3>1, StartsHonest
  <2>5. ASSUME Interrupted(c) PROVE Honest(c)'
    BY <2>5, StartsHonest DEF Interrupted, IInv, Types
  <2>6. CASE LookUp(c)
    BY <2>2, <2>3, <2>4, <2>6 DEF LookUp
  <2>7. CASE InsertProject(c)
    BY <2>4, <2>5, <2>7 DEF InsertProject
  <2> QED BY <1>6, <2>6, <2>7
<1>7. CASE FetchDetails(c)
  BY <1>1, <1>7 DEF FetchDetails, Honest, Working, States, IInv, Types
<1>8. CASE EndPhase(c)
  BY <1>1, <1>2, <1>8 DEF EndPhase, Mine, Client, Honest, Working, States, IInv, Types
<1>9. CASE Finalize(c)
  <2>1. CASE Interrupted(c)
    BY <2>1, StartsHonest DEF Interrupted, IInv, Types
  <2>2. CASE Client(c, "done")
    <3>1. /\ cl'[c].pc = "done" /\ cl'[c].ok = cl[c].ok /\ cl'[c].pid = cl[c].pid
          /\ Symbols(c) \cup Objects(c) \subseteq cl[c].ok
      BY <1>1, <1>9, <2>2 DEF Finalize, Client, Honest, States, IInv, Types
    <3>2. cl[c].pid \in DOMAIN proj' => cl[c].pid \in DOMAIN proj
      BY <1>9 DEF Finalize
    <3> QED BY <1>1, <1>2, <3>1, <3>2 DEF Honest, RowsGrow, Working
  <2> QED BY <1>9, <2>1, <2>2 DEF Finalize
<1>10. CASE \/ \E ch \in AllChunks : SendChunk(c, ch)
            \/ \E a \in cl[c].sent : Timeout(c, a)
  <2>1. /\ cl'[c].pc = cl[c].pc /\ cl'[c].pid = cl[c].pid /\ cl'[c].ok = cl[c].ok
        /\ UNCHANGED proj
    BY <1>1, <1>10 DEF SendChunk, Timeout, States, IInv, Types
  <2>2. cl[c].pc \in Working
    BY <1>1, <1>10 DEF SendChunk, Mine, Timeout, Honest, Working
  <2> QED BY <1>1, <1>2, <2>1, <2>2 DEF Honest
<1> QED BY <1>3, <1>4, <1>5, <1>6, <1>7, <1>8, <1>9, <1>10 DEF ClientStep

\* The end of a handler: an answer that comes with the record, or no answer.
LEMMA HandlerIsHonest ==
  ASSUME IInv, Told, RowsGrow, NEW h \in calls, HandlerStep(h) \/ AbortChunk(h),
         NEW c \in Clients
  PROVE  Honest(c)'
<1>1. cl[c] \in States /\ Honest(c)
  BY DEF IInv, Types, Told
<1>2. Symbols(c)' = Symbols(c) /\ Objects(c)' = Objects(c)
  BY DEF Symbols, Objects, Chunk
<1>3. DOMAIN proj' = DOMAIN proj /\ DOMAIN proj \subseteq Pids
  BY DEF HandlerStep, AbortChunk, ClaimChunk, CommitChunk, RefuseChunk, IInv, Types
<1>4. CASE cl'[c] = cl[c]
  BY <1>1, <1>2, <1>3, <1>4 DEF Honest, RowsGrow
<1>5. ASSUME Answer(h), h.pid \in DOMAIN proj' => h.chunk \in proj'[h.pid].claims, cl'[c] # cl[c]
      PROVE  Honest(c)'
  <2>1. c = h.from /\ Awaits(h)
    BY <1>5 DEF Answer, IInv, Types
  <2>2. /\ cl'[c].pc = cl[c].pc /\ cl'[c].pid = cl[c].pid
        /\ cl'[c].ok = cl[c].ok \cup {h.chunk}
        /\ cl[c].pid = h.pid
    BY <1>1, <1>5, <2>1 DEF Answer, Awaits, States, IInv, Types
  <2>3. cl[c].pc \in Working
    BY <1>1, <2>1 DEF Awaits, Honest
  <2> QED BY <1>1, <1>2, <1>3, <1>5, <2>2, <2>3 DEF Honest, RowsGrow
<1>6. CASE ClaimChunk(h)
  BY <1>4, <1>5, <1>6 DEF ClaimChunk
<1>7. CASE CommitChunk(h)
  <2>1. h.pid \in DOMAIN proj => h.chunk \in proj'[h.pid].claims
    BY <1>7 DEF CommitChunk, IInv, Types, Rows
  <2> QED BY <1>3, <1>4, <1>5, <1>7, <2>1 DEF CommitChunk
<1>8. CASE RefuseChunk(h)
  <2>1. cl'[c] = cl[c] \/ cl'[c] = Started
    BY <1>8 DEF RefuseChunk, Interrupted, IInv, Types
  <2> QED BY <1>4, <2>1, StartsHonest
<1>9. CASE AbortChunk(h)
  <2>1. /\ cl'[c].pc = cl[c].pc /\ cl'[c].pid = cl[c].pid /\ cl'[c].ok = cl[c].ok
        /\ cl'[c].sent \subseteq cl[c].sent /\ UNCHANGED proj
    BY <1>1, <1>9 DEF AbortChunk, States, IInv, Types
  <2> QED BY <1>1, <1>2, <2>1 DEF Honest
<1> QED BY <1>6, <1>7, <1>8, <1>9 DEF HandlerStep

\* Told is inductive beside IInv.
LEMMA ToldStep == IInv /\ Told /\ [Next]_vars => Told'
<1> SUFFICES ASSUME IInv, Told, [Next]_vars, NEW c \in Clients PROVE Honest(c)'
  BY DEF Told
<1>1. RowsGrow /\ Types'
  BY RowsOnlyGrow, StepInv DEF IInv
<1>2. CASE cl'[c] = cl[c]
  BY <1>1, <1>2, StaysHonest DEF Types, Pids
<1>3. ASSUME NEW d \in Clients,
             ClientStep(d) \/ RunForced(d) \/ Crash(d) \/ \E a \in cl[d].sent : Timeout(d, a)
      PROVE  Honest(c)'
  <2>1. c # d => cl'[c] = cl[c]
    BY <1>3 DEF ClientStep, Run, RunForced, Crash, MarkDeleting, Erase, LookUp, InsertProject, Insert,
                FetchDetails, SendChunk, EndPhase, Finalize, Timeout, Client, Interrupted, IInv, Types
  <2> QED BY <1>1, <1>2, <1>3, <2>1, ClientIsHonest
<1>4. ASSUME NEW h \in calls, HandlerStep(h) \/ AbortChunk(h) PROVE Honest(c)'
  BY <1>1, <1>4, HandlerIsHonest
<1>5. CASE UNCHANGED vars
  BY <1>2, <1>5 DEF vars
<1> QED BY <1>3, <1>4, <1>5 DEF Next, Ended

\* Records and rows come together: what is recorded is what is there.
LEMMA RowsAreClaims ==
  ASSUME IInv, NEW i \in DOMAIN proj
  PROVE  {ch \in AllChunks : proj[i].data[ch] # <<>>} = proj[i].claims
<1>1. proj[i].claims \subseteq AllChunks /\ proj[i].data \in [AllChunks -> Seq(Clients)]
  BY DEF IInv, Types, Rows
<1>2. \A ch \in AllChunks : proj[i].data[ch] # <<>> <=> ch \in proj[i].claims
  BY <1>1 DEF IInv, ExactlyOnce
<1> QED BY <1>1, <1>2

\* The 200 of a chunk handler (after its commit, or for a chunk record that is
\* committed) and the chunk records a resume reads are kept: whatever times out,
\* is aborted, dies or is retried, the rows a client was told of are there until
\* delete_project takes the project, for uploads of any totals.
THEOREM AcknowledgementsHold == Spec => []AcknowledgedIsThere
<1>1. IInv /\ Told => AcknowledgedIsThere
  <2> SUFFICES ASSUME IInv, Told, NEW c \in Clients, cl[c].pid \in DOMAIN proj,
                      NEW ch \in cl[c].ok \cup
                            (IF cl[c].pc = "done" THEN Symbols(c) \cup Objects(c) ELSE {})
               PROVE  proj[cl[c].pid].data[ch] # <<>>
    BY DEF AcknowledgedIsThere
  <2>1. ch \in proj[cl[c].pid].claims
    BY DEF Told, Honest
  <2> QED BY <2>1, RowsAreClaims
<1>2. Init => Told
  BY DEF Init, Told, Honest, Started, Working
<1> QED BY <1>1, <1>2, ToldStep, InitInv, StepInv, PTL DEF Spec

-----------------------------------------------------------------------------
(* What holds when uploads that resume one another have the same chunks.   *)

\* create_project compares the symbol totals only: uploads that it lets meet
\* on one project agree on the object totals as well.
TotalsAgree ==
  \A c, d \in Clients : SymChunks[c] = SymChunks[d] => ObjChunks[c] = ObjChunks[d]

\* The chunks of a row's totals.
Whole(i) == Chunk("symbols", proj[i].symTotal) \cup Chunk("objects", proj[i].objTotal)

\* A row's totals are those of the client that created it, and of every client
\* that works on it; nothing else is recorded or on its way; a complete row has
\* everything.
Fit ==
  /\ \A i \in DOMAIN proj : \E c \in Clients :
       proj[i].symTotal = SymChunks[c] /\ proj[i].objTotal = ObjChunks[c]
  /\ ResumeMatchesTotals
  /\ \A h \in calls : h.pid \in DOMAIN proj => h.chunk \in Whole(h.pid)
  /\ \A i \in DOMAIN proj : proj[i].claims \subseteq Whole(i)
  /\ \A i \in DOMAIN proj : proj[i].status = "complete" => proj[i].claims = Whole(i)

\* Finalize compares two numbers, and finds every chunk.
LEMMA CountingIsEnough ==
  ASSUME IInv, Fit, NEW i \in DOMAIN proj,
         Count(i, "symbols") = proj[i].symTotal, Count(i, "objects") = proj[i].objTotal
  PROVE  proj[i].claims = Whole(i)
<1>1. proj[i].symTotal \in Nat /\ proj[i].objTotal \in Nat /\ proj[i].claims \subseteq Whole(i)
  BY DEF IInv, Types, Rows, Fit
<1>2. ASSUME NEW kind, NEW n \in Nat, Count(i, kind) = n,
             {ch \in proj[i].claims : ch.kind = kind} \subseteq Chunk(kind, n)
      PROVE  Chunk(kind, n) \subseteq proj[i].claims
  <2> DEFINE T == {ch \in proj[i].claims : ch.kind = kind}
  <2>1. Cardinality(T) = n
    BY <1>2 DEF Count
  <2>2. IsFiniteSet(Chunk(kind, n)) /\ Cardinality(Chunk(kind, n)) = n
    BY <1>2, ChunkCount
  <2>3. T \in SUBSET Chunk(kind, n)
    BY <1>2
  <2>4. T \subseteq proj[i].claims
    OBVIOUS
  <2> HIDE DEF T
  <2> QED BY <2>1, <2>2, <2>3, <2>4, FS_Subset
<1>3. {ch \in proj[i].claims : ch.kind = "symbols"} \subseteq Chunk("symbols", proj[i].symTotal)
  BY <1>1 DEF Whole, Chunk
<1>4. {ch \in proj[i].claims : ch.kind = "objects"} \subseteq Chunk("objects", proj[i].objTotal)
  BY <1>1 DEF Whole, Chunk
<1>5. Chunk("symbols", proj[i].symTotal) \subseteq proj[i].claims
  BY <1>1, <1>2, <1>3
<1>6. Chunk("objects", proj[i].objTotal) \subseteq proj[i].claims
  BY <1>1, <1>2, <1>4
<1> QED BY <1>1, <1>5, <1>6 DEF Whole

\* Rows keep what Fit speaks of, requests only go, and a client that goes on
\* goes on with the same project.
LEMMA FitStays ==
  ASSUME IInv, Fit,
         DOMAIN proj' \subseteq DOMAIN proj,
         \A i \in DOMAIN proj' :
           /\ proj'[i].symTotal = proj[i].symTotal /\ proj'[i].objTotal = proj[i].objTotal
           /\ proj'[i].claims \subseteq Whole(i)
           /\ proj'[i].status = "complete" => proj'[i].claims = Whole(i),
         \A h \in calls' : \E g \in calls : h.pid = g.pid /\ h.chunk = g.chunk,
         \A c \in Clients : cl'[c].pc \in Uploading =>
           \/ cl[c].pc \in Uploading /\ cl'[c].pid = cl[c].pid
           \/ cl'[c].pid \in DOMAIN proj => proj[cl'[c].pid].symTotal = SymChunks[c]
                                            /\ proj[cl'[c].pid].objTotal = ObjChunks[c]
  PROVE  Fit'
<1>1. \A i \in DOMAIN proj' : Whole(i)' = Whole(i)
  BY DEF Whole, Chunk
<1>2. ResumeMatchesTotals'
  BY DEF Fit, ResumeMatchesTotals, Uploading
<1>3. \A i \in DOMAIN proj' : \E c \in Clients :
        proj'[i].symTotal = SymChunks[c] /\ proj'[i].objTotal = ObjChunks[c]
  BY DEF Fit
<1>4. \A h \in calls' : h.pid \in DOMAIN proj' => h.chunk \in Whole(h.pid)'
  BY <1>1 DEF Fit
<1> QED BY <1>1, <1>2, <1>3, <1>4 DEF Fit

\* The same for steps that leave the rows alone.
LEMMA FitQuiet ==
  ASSUME IInv, Fit, UNCHANGED proj,
         \A h \in calls' : \E g \in calls : h.pid = g.pid /\ h.chunk = g.chunk,
         \A c \in Clients : cl'[c].pc \in Uploading =>
           cl[c].pc \in Uploading /\ cl'[c].pid = cl[c].pid
  PROVE  Fit'
BY FitStays DEF Fit

\* Runs that start or end, phases, time-outs.
LEMMA FitClient ==
  ASSUME IInv, Fit, NEW c \in Clients,
         \/ Run(c) \/ RunForced(c) \/ Crash(c) \/ FetchDetails(c) \/ EndPhase(c)
         \/ \E a \in cl[c].sent : Timeout(c, a)
  PROVE  Fit'
<1>1. UNCHANGED <<proj, calls>>
  BY DEF Run, RunForced, Crash, FetchDetails, EndPhase, Timeout
<1>2. \A d \in Clients : d # c => cl'[d] = cl[d]
  BY DEF Run, RunForced, Crash, FetchDetails, EndPhase, Timeout, Client, Interrupted, IInv, Types
<1>3. cl[c] \in States
  BY DEF IInv, Types
<1>4. cl'[c].pc \in Uploading => cl[c].pc \in Uploading /\ cl'[c].pid = cl[c].pid
  <2>1. CASE Run(c) \/ RunForced(c) \/ Crash(c)
    <3>1. CASE Run(c)
      BY <3>1, <1>3 DEF Run, Client, Uploading, IInv, Types, States
    <3>2. CASE RunForced(c)
      <4>1. cl'[c].pc \in {"look", "mark"}
        BY <3>2, <1>3 DEF RunForced, IInv, Types, States
      <4> QED BY <4>1 DEF Uploading
    <3>3. CASE Crash(c)
      BY <3>3, <1>3 DEF Crash, Interrupted, Started, Uploading, IInv, Types
    <3> QED BY <2>1, <3>1, <3>2, <3>3
  <2>2. CASE FetchDetails(c) \/ EndPhase(c) \/ \E a \in cl[c].sent : Timeout(c, a)
    BY <2>2, <1>3 DEF FetchDetails, EndPhase, Timeout, Client, Uploading, IInv, Types, States
  <2> QED BY <2>1, <2>2
<1> QED BY <1>1, <1>2, <1>4, FitQuiet

\* A deletion only takes away.
LEMMA FitDelete ==
  ASSUME IInv, Fit, NEW c \in Clients, MarkDeleting(c) \/ Erase(c)
  PROVE  Fit'
<1>1. UNCHANGED calls /\ DOMAIN proj' \subseteq DOMAIN proj
  BY DEF MarkDeleting, Erase, IInv, Types
<1>2. \A d \in Clients : cl'[d].pc \in Uploading => cl[d].pc \in Uploading /\ cl'[d].pid = cl[d].pid
  BY DEF MarkDeleting, Erase, Client, Uploading, IInv, Types, States
<1>3. \A i \in DOMAIN proj' :
        /\ proj'[i].symTotal = proj[i].symTotal /\ proj'[i].objTotal = proj[i].objTotal
        /\ proj'[i].claims = proj[i].claims
        /\ proj'[i].status \in {proj[i].status, "deleting"}
  <2>1. CASE Erase(c)
    BY <2>1 DEF Erase
  <2>2. CASE MarkDeleting(c)
    BY <2>2 DEF MarkDeleting, IInv, Types, Rows
  <2> QED BY <2>1, <2>2
<1> QED BY <1>1, <1>2, <1>3, FitStays DEF Fit

\* A new row has the totals of its client and nothing recorded; nobody else
\* knows its id.
LEMMA FitInsert ==
  ASSUME IInv, Fit, NEW c \in Clients, Insert(c, {}), UNCHANGED calls
  PROVE  Fit'
<1> USE UploadAssumption
<1>1. proj' = [i \in {nextPid} |-> FreshRow(c)] /\ nextPid \in 1 .. MaxPid
  BY DEF Insert, IInv, Types
<1>2. /\ FreshRow(c).claims = {} /\ FreshRow(c).status = "uploading"
      /\ FreshRow(c).symTotal = SymChunks[c] /\ FreshRow(c).objTotal = ObjChunks[c]
  BY DEF FreshRow
<1>3. \A h \in calls : h.pid # nextPid
  BY DEF IInv, Types, Pids
<1>4. \A d \in Clients : d # c => cl'[d].pid # nextPid
  BY <1>1 DEF Insert, IInv, Types, Pids, States
<1>5. ResumeMatchesTotals'
  BY <1>1, <1>2, <1>4 DEF ResumeMatchesTotals
<1> QED BY <1>1, <1>2, <1>3, <1>5 DEF Fit

\* A resumed upload has the totals of the row: this is where the uploads have
\* to agree.
LEMMA FitCreate ==
  ASSUME TotalsAgree, IInv, Fit, NEW c \in Clients, LookUp(c) \/ InsertProject(c)
  PROVE  Fit'
<1>1. UNCHANGED calls
  BY DEF LookUp, InsertProject
<1>2. ASSUME UNCHANGED proj, NEW pc \in {"insert", "rejected"}, Client(c, pc) PROVE Fit'
  <2>1. \A d \in Clients : cl'[d].pc \in Uploading => cl[d].pc \in Uploading /\ cl'[d].pid = cl[d].pid
    BY <1>2 DEF Client, Uploading, IInv, Types, States
  <2> QED BY <1>1, <1>2, <2>1, FitQuiet
<1>3. ASSUME UNCHANGED proj, Interrupted(c) PROVE Fit'
  <2>1. \A d \in Clients : cl'[d].pc \in Uploading => cl[d].pc \in Uploading /\ cl'[d].pid = cl[d].pid
    BY <1>3 DEF Interrupted, Started, Uploading, IInv, Types, States
  <2> QED BY <1>1, <1>3, <2>1, FitQuiet
<1>4. ASSUME UNCHANGED proj, NEW i \in DOMAIN proj, proj[i].symTotal = SymChunks[c],
             cl' = [cl EXCEPT ![c] = [Started EXCEPT !.pc = "details", !.pid = i]]
      PROVE  Fit'
  <2>1. proj[i].objTotal = ObjChunks[c]
    BY <1>4 DEF TotalsAgree, Fit
  <2>2. cl'[c].pid = i /\ \A d \in Clients : d # c => cl'[d] = cl[d]
    BY <1>4 DEF IInv, Types, Started
  <2> QED BY <1>1, <1>4, <2>1, <2>2, FitStays DEF Fit
<1>5. CASE LookUp(c)
  BY <1>1, <1>2, <1>4, <1>5, FitInsert DEF LookUp, SameTotals
<1>6. CASE InsertProject(c)
  BY <1>1, <1>3, <1>6, FitInsert DEF InsertProject
<1> QED BY <1>5, <1>6

\* A request is for a chunk of the row's totals.
LEMMA FitSend ==
  ASSUME IInv, Fit, NEW c \in Clients, NEW ch \in AllChunks, SendChunk(c, ch)
  PROVE  Fit'
<1> DEFINE h == [from |-> c, pid |-> cl[c].pid, chunk |-> ch, attempt |-> Attempt(c, ch),
                 st |-> "queued"]
<1>1. /\ UNCHANGED proj /\ calls' = calls \cup {h}
      /\ \A d \in Clients : cl'[d].pc = cl[d].pc /\ cl'[d].pid = cl[d].pid
  BY DEF SendChunk, IInv, Types, States
<1>2. cl[c].pc \in {"symbols", "objects"} /\ ch \in Symbols(c) \cup Objects(c)
  BY DEF SendChunk, Mine
<1>3. h.pid = cl[c].pid /\ h.chunk = ch
  OBVIOUS
<1> HIDE DEF h
<1>4. cl[c].pid \in DOMAIN proj => ch \in Whole(cl[c].pid)
  BY <1>2 DEF Fit, ResumeMatchesTotals, Whole, Symbols, Objects
<1>5. \A g \in calls' : g.pid \in DOMAIN proj' => g.chunk \in Whole(g.pid)'
  BY <1>1, <1>3, <1>4 DEF Fit, Whole
<1>6. ResumeMatchesTotals'
  BY <1>1 DEF Fit, ResumeMatchesTotals
<1> QED BY <1>1, <1>5, <1>6 DEF Fit, Whole

\* Finalize completes a row that has everything.
LEMMA FitFinalize ==
  ASSUME IInv, Fit, NEW c \in Clients, Finalize(c)
  PROVE  Fit'
<1>1. UNCHANGED calls
  BY DEF Finalize
<1>2. \A d \in Clients : cl'[d].pc \in Uploading => cl[d].pc \in Uploading /\ cl'[d].pid = cl[d].pid
  BY DEF Finalize, Interrupted, Client, Started, Uploading, IInv, Types, States
<1>3. CASE UNCHANGED proj
  BY <1>1, <1>2, <1>3, FitQuiet
<1>4. CASE ~UNCHANGED proj
  <2> DEFINE i == cl[c].pid
  <2>1. /\ i \in DOMAIN proj /\ proj' = [proj EXCEPT ![i].status = "complete"]
        /\ Count(i, "symbols") = proj[i].symTotal /\ Count(i, "objects") = proj[i].objTotal
    BY <1>4 DEF Finalize
  <2>2. proj[i].claims = Whole(i)
    BY <2>1, CountingIsEnough
  <2>3. DOMAIN proj' = DOMAIN proj /\ \A j \in DOMAIN proj :
          /\ proj'[j].symTotal = proj[j].symTotal /\ proj'[j].objTotal = proj[j].objTotal
          /\ proj'[j].claims = proj[j].claims
          /\ j # i => proj'[j].status = proj[j].status
    BY <2>1 DEF IInv, Types, Rows
  <2> QED BY <1>1, <1>2, <2>2, <2>3, FitStays DEF Fit
<1> QED BY <1>3, <1>4

\* Handlers record what was sent; nothing is left to record in a complete row.
LEMMA FitHandler ==
  ASSUME IInv, Fit, NEW h \in calls, HandlerStep(h) \/ AbortChunk(h)
  PROVE  Fit'
<1>1. \A g \in calls' : \E f \in calls : g.pid = f.pid /\ g.chunk = f.chunk
  BY DEF HandlerStep, AbortChunk, ClaimChunk, CommitChunk, RefuseChunk, IInv, Types
<1>2. \A d \in Clients : cl'[d].pc \in Uploading => cl[d].pc \in Uploading /\ cl'[d].pid = cl[d].pid
  <2>1. CASE Answer(h)
    BY <2>1, AnswerTells
  <2>2. CASE UNCHANGED cl
    BY <2>2
  <2>3. CASE Interrupted(h.from)
    BY <2>3 DEF Interrupted, Started, Uploading, IInv, Types
  <2>4. CASE AbortChunk(h)
    BY <2>4 DEF AbortChunk, IInv, Types, States
  <2> QED
    BY <2>1, <2>2, <2>3, <2>4 DEF HandlerStep, ClaimChunk, CommitChunk, RefuseChunk
<1>3. CASE UNCHANGED proj
  BY <1>1, <1>2, <1>3, FitQuiet
<1>4. CASE CommitChunk(h)
  <2>1. h.pid \in DOMAIN proj /\ h.chunk \notin proj[h.pid].claims
    BY <1>4 DEF CommitChunk, IInv, Claims
  <2>2. h.chunk \in Whole(h.pid) /\ proj[h.pid].status # "complete"
    BY <2>1 DEF Fit
  <2>3. DOMAIN proj' = DOMAIN proj /\ \A j \in DOMAIN proj :
          /\ proj'[j].symTotal = proj[j].symTotal /\ proj'[j].objTotal = proj[j].objTotal
          /\ proj'[j].status = proj[j].status
          /\ proj'[j].claims = IF j = h.pid THEN proj[j].claims \cup {h.chunk} ELSE proj[j].claims
    BY <1>4, <2>1 DEF CommitChunk, IInv, Types, Rows
  <2>4. \A j \in DOMAIN proj' :
          /\ proj'[j].claims \subseteq Whole(j)
          /\ proj'[j].status = "complete" => proj'[j].claims = Whole(j)
    <3> SUFFICES ASSUME NEW j \in DOMAIN proj'
                 PROVE  /\ proj'[j].claims \subseteq Whole(j)
                        /\ proj'[j].status = "complete" => proj'[j].claims = Whole(j)
      OBVIOUS
    <3>1. proj[j].claims \subseteq Whole(j) /\ (proj[j].status = "complete" => proj[j].claims = Whole(j))
      BY <2>3 DEF Fit
    <3>2. /\ proj'[j].status = proj[j].status
          /\ proj'[j].claims = IF j = h.pid THEN proj[j].claims \cup {h.chunk} ELSE proj[j].claims
      BY <2>3
    <3>3. CASE j = h.pid
      BY <2>2, <3>1, <3>2, <3>3
    <3>4. CASE j # h.pid
      BY <3>1, <3>2, <3>4
    <3> QED BY <3>3, <3>4
  <2> QED BY <1>1, <1>2, <2>3, <2>4, FitStays
<1> QED BY <1>3, <1>4 DEF HandlerStep, AbortChunk, ClaimChunk, RefuseChunk

\* Fit is inductive beside IInv.
LEMMA FitStep == ASSUME TotalsAgree PROVE IInv /\ Fit /\ [Next]_vars => Fit'
<1> SUFFICES ASSUME IInv, Fit, [Next]_vars PROVE Fit'
  OBVIOUS
<1>1. ASSUME NEW c \in Clients, ClientStep(c) PROVE Fit'
  BY <1>1, FitClient, FitDelete, FitCreate, FitSend, FitFinalize DEF ClientStep
<1>2. ASSUME NEW c \in Clients, RunForced(c) \/ Crash(c) \/ \E a \in cl[c].sent : Timeout(c, a)
      PROVE  Fit'
  BY <1>2, FitClient
<1>3. ASSUME NEW h \in calls, HandlerStep(h) \/ AbortChunk(h) PROVE Fit'
  BY <1>3, FitHandler
<1>4. CASE UNCHANGED vars
  BY <1>4 DEF vars, Fit, ResumeMatchesTotals, Whole
<1> QED BY <1>1, <1>2, <1>3, <1>4 DEF Next, Ended

\* Both hold in every reachable state.
LEMMA FitInvariance == ASSUME TotalsAgree PROVE Spec => [](IInv /\ Fit)
<1>1. Init => Fit
  BY DEF Init, Fit, ResumeMatchesTotals, Started
<1> QED
  BY <1>1, FitStep, InitInv, StepInv, PTL DEF Spec

\* finalize_project compares two counts; the project it completes nevertheless
\* has the rows of all of its chunks and no other, when totals agree.
THEOREM FinalizedIsWhole == ASSUME TotalsAgree PROVE Spec => []CompleteIsWhole
<1>1. IInv /\ Fit => CompleteIsWhole
  BY RowsAreClaims DEF Fit, Whole, CompleteIsWhole
<1> QED BY <1>1, FitInvariance, PTL

\* No chunk handler that outlived its request (a timeout, a crashed client)
\* changes the rows of a project that finalize_project completed.
THEOREM FinalizedIsFrozen == ASSUME TotalsAgree PROVE Spec => CompleteIsFrozen
<1> DEFINE Frozen == \A i \in DOMAIN proj \cap DOMAIN proj' :
                       proj[i].status = "complete" => proj'[i].data = proj[i].data
<1>1. IInv /\ Fit /\ [Next]_vars => [Frozen]_vars
  <2> SUFFICES ASSUME IInv, Fit, [Next]_vars, NEW i \in DOMAIN proj \cap DOMAIN proj',
                      proj[i].status = "complete", proj'[i].data # proj[i].data
               PROVE  FALSE
    OBVIOUS
  <2>1. \A c \in Clients : ~ClientStep(c)
    <3> SUFFICES ASSUME NEW c \in Clients, ClientStep(c) PROVE FALSE
      OBVIOUS
    <3>1. nextPid # i
      BY DEF IInv, Types, Pids
    <3>2. ~Insert(c, {})
      BY <3>1 DEF Insert
    <3>3. ~Finalize(c) /\ ~MarkDeleting(c)
      BY DEF Finalize, MarkDeleting, IInv, Types, Rows
    <3>4. ~Erase(c)
      BY DEF Erase
    <3>5. ~LookUp(c) /\ ~InsertProject(c)
      BY <3>2 DEF LookUp, InsertProject
    <3> QED BY <3>3, <3>4, <3>5 DEF ClientStep, Run, FetchDetails, SendChunk, EndPhase
  <2>2. PICK h \in calls : CommitChunk(h)
    BY <2>1 DEF Next, HandlerStep, RunForced, Crash, Timeout, ClaimChunk, RefuseChunk,
                AbortChunk, Ended, vars
  <2>3. h.pid \in DOMAIN proj /\ h.chunk \notin proj[h.pid].claims
    BY <2>2 DEF CommitChunk, IInv, Claims
  <2>4. h.pid = i
    BY <2>3 DEF IInv, Types
  <2> QED BY <2>3, <2>4 DEF Fit
<1> QED BY <1>1, FitInvariance, PTL DEF Spec, CompleteIsFrozen
=============================================================================
