--------------------------- MODULE ProjectUpload ---------------------------
(***************************************************************************)
(* The chunked, resumable upload protocol for one project name: the CLI    *)
(* (bin/askld/cli/index.rs) that creates or resumes a project, sends its   *)
(* symbol chunks, then its object chunks, then finalizes, and the          *)
(* IndexStore handlers behind it.  Requests time out while their handler   *)
(* still runs, are retried, and are overtaken by later ones; the CLI dies  *)
(* and is run again; two of them may upload the same name.                 *)
(*                                                                         *)
(* A chunk's rows are abstracted to the CLI run configuration ("client")   *)
(* whose data they are.  The content phase (content-addressed, idempotent) *)
(* and the layer cache (module EphLayers) are left out.                    *)
(***************************************************************************)
EXTENDS Integers, Sequences, FiniteSets

CONSTANTS Clients,      \* invocations of `askld index upload` for this name
          SymChunks,    \* SymChunks[c]: symbol chunks of c's data
          ObjChunks,    \* ObjChunks[c]: object chunks of c's data
          Window,       \* chunks a client has in flight at once
          NoPid,        \* no project id yet
          MaxPid,       \* bound: projects rows ever inserted
          MaxFaults     \* bound: timeouts, crashes, aborts and --force runs

ASSUME UploadAssumption ==
  /\ SymChunks \in [Clients -> Nat]
  /\ ObjChunks \in [Clients -> Nat]
  /\ Window \in Nat \ {0}
  /\ MaxPid \in Nat
  /\ NoPid \notin 1 .. MaxPid
  /\ MaxFaults \in Nat

VARIABLES
  proj,      \* index.projects (one name): id -> row with its chunk records
  nextPid,   \* the id sequence
  cl,        \* clients
  calls,     \* chunk requests the server has received and not answered
  faults     \* faults so far

vars == <<proj, nextPid, cl, calls, faults>>

Chunk(kind, n) == {[kind |-> kind, seq |-> s] : s \in 0 .. n - 1}
Symbols(c) == Chunk("symbols", SymChunks[c])
Objects(c) == Chunk("objects", ObjChunks[c])
AllChunks == UNION {Symbols(c) \cup Objects(c) : c \in Clients}

Started == [pc |-> "start", pid |-> NoPid, ok |-> {}, sent |-> {}]

Init ==
  /\ proj = [i \in {} |-> NoPid]
  /\ nextPid = 1
  /\ cl = [c \in Clients |-> Started]
  /\ calls = {}
  /\ faults = 0

-----------------------------------------------------------------------------
(* Locks (external): an open chunk transaction keeps the projects row FOR  *)
(* KEY SHARE through the foreign key of its chunk record; FOR UPDATE and   *)
(* DELETE wait for it.  The other transactions are single steps here.      *)

Pinned(i) == \E h \in calls : h.st = "claimed" /\ h.pid = i

Client(c, pc) == cl' = [cl EXCEPT ![c].pc = pc]
Interrupted(c) == cl' = [cl EXCEPT ![c] = Started]

Fault == faults < MaxFaults /\ faults' = faults + 1

\* The chunk records that finalize counts.
Count(i, kind) == Cardinality({ch \in proj[i].claims : ch.kind = kind})

FreshRow(c) ==
  [status |-> "uploading", symTotal |-> SymChunks[c], objTotal |-> ObjChunks[c],
   claims |-> {}, data |-> [ch \in AllChunks |-> <<>>]]

-----------------------------------------------------------------------------
(* ensure_project.                                                         *)

\* A run without --force goes straight to the create request; a forced one
\* lists the projects and deletes the one it finds.
Run(c) ==
  /\ cl[c].pc = "start"
  /\ Client(c, "look")
  /\ UNCHANGED <<proj, nextPid, calls, faults>>

RunForced(c) ==
  /\ cl[c].pc = "start"
  /\ Fault
  /\ cl' = [cl EXCEPT ![c] = IF DOMAIN proj = {} THEN [@ EXCEPT !.pc = "look"]
                             ELSE [@ EXCEPT !.pc = "mark", !.pid = CHOOSE i \in DOMAIN proj : TRUE]]
  /\ UNCHANGED <<proj, nextPid, calls>>

\* delete_project: the mark auto-commits outside the deletion's transaction.
\* A row that is gone by then is a 404, which the CLI accepts.
MarkDeleting(c) ==
  /\ cl[c].pc = "mark"
  /\ IF cl[c].pid \in DOMAIN proj
     THEN /\ proj' = [proj EXCEPT ![cl[c].pid].status = "deleting"]
          /\ Client(c, "erase")
     ELSE /\ Client(c, "look")
          /\ UNCHANGED proj
  /\ UNCHANGED <<nextPid, calls, faults>>

\* The deletion's transaction: rows, project row, chunk records by cascade.
Erase(c) ==
  /\ cl[c].pc = "erase"
  /\ ~Pinned(cl[c].pid)
  /\ proj' = [i \in DOMAIN proj \ {cl[c].pid} |-> proj[i]]
  /\ Client(c, "look")
  /\ UNCHANGED <<nextPid, calls, faults>>

\* Mutant of Insert: a zombie's row stays.
InsertBesideZombie(c, others) ==
  /\ nextPid <= MaxPid
  /\ proj' = [i \in DOMAIN proj \cup {nextPid} |->
               IF i = nextPid THEN FreshRow(c) ELSE proj[i]]
  /\ nextPid' = nextPid + 1
  /\ cl' = [cl EXCEPT ![c] = [Started EXCEPT !.pc = "symbols", !.pid = nextPid]]

Insert(c, others) ==
  /\ nextPid <= MaxPid
  /\ proj' = [i \in others \cup {nextPid} |-> IF i = nextPid THEN FreshRow(c) ELSE proj[i]]
  /\ nextPid' = nextPid + 1
  /\ cl' = [cl EXCEPT ![c] = [Started EXCEPT !.pc = "symbols", !.pid = nextPid]]

\* The totals that create_project compares before it lets a client resume.
SameTotals(i, c) == proj[i].symTotal = SymChunks[c]

\* create_project up to its decision: the row of this name FOR UPDATE.
LookUp(c) ==
  /\ cl[c].pc = "look"
  /\ IF DOMAIN proj = {}
     THEN /\ Client(c, "insert")
          /\ UNCHANGED <<proj, nextPid>>
     ELSE \E i \in DOMAIN proj :
       /\ ~Pinned(i)
       /\ \/ /\ proj[i].status = "uploading"
             /\ SameTotals(i, c)
             /\ cl' = [cl EXCEPT ![c] = [Started EXCEPT !.pc = "details", !.pid = i]]
             /\ UNCHANGED <<proj, nextPid>>
          \/ /\ proj[i].status = "uploading"
             /\ ~SameTotals(i, c)
             /\ Client(c, "rejected")
             /\ UNCHANGED <<proj, nextPid>>
          \/ /\ proj[i].status = "deleting"
             /\ Insert(c, {})
          \/ /\ proj[i].status = "complete"
             /\ Client(c, "rejected")
             /\ UNCHANGED <<proj, nextPid>>
  /\ UNCHANGED <<calls, faults>>

\* The INSERT of a new row: the unique name refuses the slower of two creators.
InsertProject(c) ==
  /\ cl[c].pc = "insert"
  /\ IF DOMAIN proj = {} THEN Insert(c, {})
                         ELSE Interrupted(c) /\ UNCHANGED <<proj, nextPid>>
  /\ UNCHANGED <<calls, faults>>

\* Mutant of FetchDetails: every chunk is taken for committed.
FetchDetailsSkippingAll(c) ==
  /\ cl[c].pc = "details"
  /\ cl' = [cl EXCEPT ![c].pc = "symbols", ![c].ok = AllChunks]
  /\ UNCHANGED <<proj, nextPid, calls, faults>>

\* GET of the resumed project: chunks already recorded are skipped.
FetchDetails(c) ==
  /\ cl[c].pc = "details"
  /\ cl' = [cl EXCEPT ![c].pc = "symbols",
             ![c].ok = IF cl[c].pid \in DOMAIN proj THEN proj[cl[c].pid].claims ELSE {}]
  /\ UNCHANGED <<proj, nextPid, calls, faults>>

-----------------------------------------------------------------------------
(* Chunks.                                                                 *)

Mine(c) == CASE cl[c].pc = "symbols" -> Symbols(c)
             [] cl[c].pc = "objects" -> Objects(c)
             [] OTHER -> {}

\* The chunks c waits for, and whether it waits for the answer of h.
InFlight(c) == {a.chunk : a \in cl[c].sent}
Request(h) == [chunk |-> h.chunk, attempt |-> h.attempt]
Awaits(h) == cl[h.from].pid = h.pid /\ Request(h) \in cl[h.from].sent

\* The handlers of earlier attempts at a chunk may still be running: a new
\* request takes the least number that none of them has.
Attempt(c, ch) ==
  LET taken == {h.attempt : h \in {g \in calls : g.from = c /\ g.pid = cl[c].pid /\ g.chunk = ch}}
      free == (0 .. Cardinality(taken)) \ taken
  IN CHOOSE n \in free : \A m \in free : n <= m

\* upload_chunks_windowed and one attempt of upload_chunk_with_retry.
SendChunk(c, ch) ==
  /\ ch \in Mine(c) \ (cl[c].ok \cup InFlight(c))
  /\ Cardinality(InFlight(c)) < Window
  /\ cl' = [cl EXCEPT ![c].sent = @ \cup {[chunk |-> ch, attempt |-> Attempt(c, ch)]}]
  /\ calls' = calls \cup {[from |-> c, pid |-> cl[c].pid, chunk |-> ch,
                          attempt |-> Attempt(c, ch), st |-> "queued"]}
  /\ UNCHANGED <<proj, nextPid, faults>>

\* The network fails or the request times out; its handler may run on, and
\* the chunk is sent again.
Timeout(c, a) ==
  /\ a \in cl[c].sent
  /\ Fault
  /\ cl' = [cl EXCEPT ![c].sent = @ \ {a}]
  /\ UNCHANGED <<proj, nextPid, calls>>

\* The answer 200 reaches the client if it still waits for it.
Answer(h) ==
  IF Awaits(h)
  THEN cl' = [cl EXCEPT ![h.from].sent = @ \ {Request(h)}, ![h.from].ok = @ \cup {h.chunk}]
  ELSE UNCHANGED cl

\* Mutant of ClaimChunk: the claim commits on its own, before the rows.
ClaimChunkEarly(h) ==
  /\ h.st = "queued"
  /\ h.pid \in DOMAIN proj
  /\ IF h.chunk \in proj[h.pid].claims
     THEN /\ calls' = calls \ {h}
          /\ Answer(h)
          /\ UNCHANGED proj
     ELSE /\ calls' = (calls \ {h}) \cup {[h EXCEPT !.st = "claimed"]}
          /\ proj' = [proj EXCEPT ![h.pid].claims = @ \cup {h.chunk}]
          /\ UNCHANGED cl
  /\ UNCHANGED <<nextPid, faults>>

\* Mutant of ClaimChunk: nobody waits for an uncommitted claim of the slot.
ClaimChunkUnlocked(h) ==
  /\ h.st = "queued"
  /\ h.pid \in DOMAIN proj
  /\ h.chunk \notin proj[h.pid].claims
  /\ calls' = (calls \ {h}) \cup {[h EXCEPT !.st = "claimed"]}
  /\ UNCHANGED <<proj, nextPid, cl, faults>>

\* Mutant of ClaimChunk: `inserted == 0` does not return early.
ClaimChunkAgain(h) ==
  /\ h.st = "queued"
  /\ h.pid \in DOMAIN proj
  /\ calls' = (calls \ {h}) \cup {[h EXCEPT !.st = "claimed"]}
  /\ UNCHANGED <<proj, nextPid, cl, faults>>

\* Mutant of ClaimChunk: an uncommitted claim of the slot already counts as
\* the idempotent success.
ClaimChunkPresumed(h) ==
  /\ h.st = "queued"
  /\ h.pid \in DOMAIN proj
  /\ IF \/ h.chunk \in proj[h.pid].claims
        \/ \E g \in calls : g.st = "claimed" /\ g.pid = h.pid /\ g.chunk = h.chunk
     THEN /\ calls' = calls \ {h}
          /\ Answer(h)
     ELSE /\ calls' = (calls \ {h}) \cup {[h EXCEPT !.st = "claimed"]}
          /\ UNCHANGED cl
  /\ UNCHANGED <<proj, nextPid, faults>>

\* The handler claims the chunk slot: an uncommitted claim of the same slot
\* makes it wait, a committed one is the idempotent success.
ClaimChunk(h) ==
  /\ h.st = "queued"
  /\ h.pid \in DOMAIN proj
  /\ \A g \in calls : g.st = "claimed" /\ g.pid = h.pid => g.chunk # h.chunk
  /\ IF h.chunk \in proj[h.pid].claims
     THEN /\ calls' = calls \ {h}
          /\ Answer(h)
     ELSE /\ calls' = (calls \ {h}) \cup {[h EXCEPT !.st = "claimed"]}
          /\ UNCHANGED cl
  /\ UNCHANGED <<proj, nextPid, faults>>

\* The rows an object chunk refers to: symbols of this project by local id.
SymbolsThere(h) == Symbols(h.from) \subseteq proj[h.pid].claims

\* The rows are inserted and the transaction commits, claim and rows together.
CommitChunk(h) ==
  /\ h.st = "claimed"
  /\ h.chunk.kind = "objects" => SymbolsThere(h)
  /\ proj' = [proj EXCEPT ![h.pid].claims = @ \cup {h.chunk},
                          ![h.pid].data[h.chunk] = Append(@, h.from)]
  /\ calls' = calls \ {h}
  /\ Answer(h)
  /\ UNCHANGED <<nextPid, faults>>

\* A foreign key fails (the project was deleted, the symbols are not there):
\* 500 on every retry, so the client gives up.
RefuseChunk(h) ==
  /\ \/ h.st = "queued" /\ h.pid \notin DOMAIN proj
     \/ h.st = "claimed" /\ h.chunk.kind = "objects" /\ ~SymbolsThere(h)
  /\ calls' = calls \ {h}
  /\ IF Awaits(h)
     THEN Interrupted(h.from) ELSE UNCHANGED cl
  /\ UNCHANGED <<proj, nextPid, faults>>

\* The handler is dropped or its transaction fails: nothing is recorded, and
\* the client retries.
AbortChunk(h) ==
  /\ Fault
  /\ calls' = calls \ {h}
  /\ cl' = [cl EXCEPT ![h.from].sent = IF Awaits(h) THEN @ \ {Request(h)} ELSE @]
  /\ UNCHANGED <<proj, nextPid>>

\* Mutant of EndPhase: the phase ends when everything has been sent.
EndPhaseOnSent(c) ==
  /\ cl[c].pc \in {"symbols", "objects"}
  /\ Mine(c) \subseteq cl[c].ok \cup InFlight(c)
  /\ Client(c, IF cl[c].pc = "symbols" THEN "objects" ELSE "finalize")
  /\ UNCHANGED <<proj, nextPid, calls, faults>>

\* The phase barrier: every chunk of the phase was acknowledged or skipped.
EndPhase(c) ==
  /\ cl[c].pc \in {"symbols", "objects"}
  /\ Mine(c) \subseteq cl[c].ok
  /\ Client(c, IF cl[c].pc = "symbols" THEN "objects" ELSE "finalize")
  /\ UNCHANGED <<proj, nextPid, calls, faults>>

\* finalize_project, and what the CLI makes of its answer.
Finalize(c) ==
  /\ cl[c].pc = "finalize"
  /\ LET i == cl[c].pid IN
     IF i \notin DOMAIN proj
     THEN Interrupted(c) /\ UNCHANGED proj
     ELSE /\ ~Pinned(i)
          /\ \/ /\ proj[i].status = "complete"
                /\ Client(c, "done")
                /\ UNCHANGED proj
             \/ /\ proj[i].status = "uploading"
                /\ Count(i, "symbols") = proj[i].symTotal
                /\ Count(i, "objects") = proj[i].objTotal
                /\ proj' = [proj EXCEPT ![i].status = "complete"]
                /\ Client(c, "done")
             \/ /\ \/ proj[i].status = "deleting"
                   \/ /\ proj[i].status = "uploading"
                      /\ \/ Count(i, "symbols") # proj[i].symTotal
                         \/ Count(i, "objects") # proj[i].objTotal
                /\ Interrupted(c)
                /\ UNCHANGED proj
  /\ UNCHANGED <<nextPid, calls, faults>>

\* The CLI dies, gives up its retries, or loses an answer; it is run again.
Crash(c) ==
  /\ cl[c].pc \notin {"start", "done", "rejected"}
  /\ Fault
  /\ Interrupted(c)
  /\ UNCHANGED <<proj, nextPid, calls>>

-----------------------------------------------------------------------------
ClientStep(c) ==
  \/ Run(c)
  \/ MarkDeleting(c)
  \/ Erase(c)
  \/ LookUp(c)
  \/ InsertProject(c)
  \/ FetchDetails(c)
  \/ \E ch \in AllChunks : SendChunk(c, ch)
  \/ EndPhase(c)
  \/ Finalize(c)

HandlerStep(h) ==
  \/ ClaimChunk(h)
  \/ CommitChunk(h)
  \/ RefuseChunk(h)

\* Every client is through and no request is left.
Ended ==
  /\ \A c \in Clients : cl[c].pc \in {"done", "rejected"}
  /\ calls = {}
  /\ UNCHANGED vars

Next ==
  \/ \E c \in Clients : ClientStep(c)
  \/ \E c \in Clients : RunForced(c)
  \/ \E c \in Clients : Crash(c)
  \/ \E c \in Clients : \E a \in cl[c].sent : Timeout(c, a)
  \/ \E h \in calls : HandlerStep(h)
  \/ \E h \in calls : AbortChunk(h)
  \/ Ended

Spec == Init /\ [][Next]_vars

Calls == [from : Clients, pid : 1 .. MaxPid, chunk : AllChunks,
          attempt : Nat, st : {"queued", "claimed"}]

\* Clients and handlers go on; only faults may be left out.
Fairness ==
  /\ \A c \in Clients : WF_vars(ClientStep(c))
  /\ WF_vars(\E h \in calls : HandlerStep(h))

FairSpec == Spec /\ Fairness
-----------------------------------------------------------------------------
(* Properties.                                                             *)

\* Every variable keeps its type, and the name is in use at most once.
TypeOK ==
  /\ nextPid \in 1 .. MaxPid + 1
  /\ DOMAIN proj \subseteq 1 .. nextPid - 1
  /\ Cardinality(DOMAIN proj) <= 1
  /\ \A i \in DOMAIN proj :
       /\ proj[i].status \in {"uploading", "complete", "deleting"}
       /\ proj[i].claims \subseteq AllChunks
  /\ \A c \in Clients :
       /\ cl[c].pid \in DOMAIN proj \cup {NoPid} \cup 1 .. nextPid - 1
       /\ cl[c].ok \cup InFlight(c) \subseteq AllChunks
  /\ calls \subseteq Calls
  /\ faults \in 0 .. MaxFaults

\* A complete project has the rows of every chunk of its totals and of no
\* other, although finalize only counts the chunk records.
CompleteIsWhole ==
  \A i \in DOMAIN proj : proj[i].status = "complete" =>
    {ch \in AllChunks : proj[i].data[ch] # <<>>} =
      Chunk("symbols", proj[i].symTotal) \cup Chunk("objects", proj[i].objTotal)

\* Retried, duplicated and overtaken chunk requests insert a chunk's rows
\* exactly once: with the claim, and never again.
ExactlyOnce ==
  \A i \in DOMAIN proj : \A ch \in AllChunks :
    Len(proj[i].data[ch]) = IF ch \in proj[i].claims THEN 1 ELSE 0

\* Once complete, a project's rows do not change any more (no late chunk lands
\* behind finalize's purge of the layer cache); it can only be deleted.
CompleteIsFrozen ==
  [][\A i \in DOMAIN proj \cap DOMAIN proj' :
       proj[i].status = "complete" => proj'[i].data = proj[i].data]_vars

\* The phase barrier holds at the server: when an object chunk arrives, the
\* symbols it refers to are committed, also after a resume or a late retry.
SymbolsFirst ==
  \A h \in calls : h.chunk.kind = "objects" /\ h.pid \in DOMAIN proj => SymbolsThere(h)

\* What a client was told is stored is there, with its rows, as long as the
\* project is: chunks answered with 200 and chunks that a resume skips, whoever
\* recorded them and whatever timed out, was aborted or died since.  A client
\* that is done finds all of its chunks there, whatever the totals of the row.
AcknowledgedIsThere ==
  \A c \in Clients : cl[c].pid \in DOMAIN proj =>
    \A ch \in cl[c].ok \cup (IF cl[c].pc = "done" THEN Symbols(c) \cup Objects(c) ELSE {}) :
      proj[cl[c].pid].data[ch] # <<>>

\* What an interrupted upload, a zombie or two racing clients leave behind never
\* blocks the name: once the faults are over a complete project stays.
UploadCompletes == <>[](\E i \in DOMAIN proj : proj[i].status = "complete")

\* upload_index resumes only an upload "with matching chunk totals".
ResumeMatchesTotals ==
  \A c \in Clients :
    cl[c].pc \in {"details", "symbols", "objects", "finalize"} /\ cl[c].pid \in DOMAIN proj
      => /\ proj[cl[c].pid].symTotal = SymChunks[c]
         /\ proj[cl[c].pid].objTotal = ObjChunks[c]
=============================================================================
