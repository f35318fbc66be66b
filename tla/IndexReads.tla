----------------------------- MODULE IndexReads -----------------------------
(***************************************************************************)
(* What the query side of askld is promised about the index it reads,      *)
(* with no cache in sight.  The query-visible rows have a version, bumped  *)
(* by every committed mutation.  A mutation handler that returned to its   *)
(* client has acknowledged the versions it committed.  A read that starts  *)
(* after an acknowledgement answers with that version or a later one that  *)
(* was really committed: it never travels back behind an acknowledgement   *)
(* and never sees a version that does not exist yet.                       *)
(***************************************************************************)
EXTENDS Naturals

CONSTANTS Loaders,      \* concurrent callers of Index::cached_load
          MaxVersion    \* bound on committed mutations

VARIABLES db,           \* version of the committed, query-visible rows
          acked,        \* versions acknowledged to the client that made them
          read          \* the read each loader has under way

vars == <<db, acked, read>>

Idle == [st |-> "idle", floor |-> {}, ver |-> 0]

Init ==
  /\ db = 0
  /\ acked = {}
  /\ read = [l \in Loaders |-> Idle]

\* A mutation commits.
Commit ==
  /\ db < MaxVersion
  /\ db' = db + 1
  /\ UNCHANGED <<acked, read>>

\* A mutation handler returns; what it committed is now acknowledged.
Acknowledge ==
  /\ \E S \in SUBSET (1 .. db) : acked' = acked \cup S
  /\ UNCHANGED <<db, read>>

Start(l) ==
  /\ read[l].st = "idle"
  /\ read' = [read EXCEPT ![l] = [st |-> "pending", floor |-> acked, ver |-> 0]]
  /\ UNCHANGED <<db, acked>>

Answer(l) ==
  /\ read[l].st = "pending"
  /\ \E v \in 0 .. db :
       /\ \A w \in read[l].floor : w <= v
       /\ read' = [read EXCEPT ![l] = [st |-> "done", floor |-> @.floor, ver |-> v]]
  /\ UNCHANGED <<db, acked>>

\* The caller takes the answer, or gives up on a pending read.
Leave(l) ==
  /\ read[l].st # "idle"
  /\ read' = [read EXCEPT ![l] = Idle]
  /\ UNCHANGED <<db, acked>>

Next ==
  \/ Commit
  \/ Acknowledge
  \/ \E l \in Loaders : Start(l) \/ Answer(l) \/ Leave(l)

Spec == Init /\ [][Next]_vars
=============================================================================
