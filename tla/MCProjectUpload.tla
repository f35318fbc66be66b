-------------------------- MODULE MCProjectUpload --------------------------
(* ProjectUpload on small instances.                                       *)
EXTENDS ProjectUpload

CONSTANTS c1, c2, c3

\* One chunk each.
OneEach == [c \in Clients |-> 1]

\* c2 has one chunk more.
OneMore == [c \in Clients |-> IF c = c2 THEN 2 ELSE 1]
=============================================================================
