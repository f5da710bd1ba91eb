--------------------------- MODULE MCDaemonWorker ----------------------------
(* Model-checking instances of DaemonWorker. *)
EXTENDS DaemonWorker

CONSTANTS r1, p1

CommitsInR1 == [c \in Commits |-> r1]
CommitsTouchP1 == [c \in Commits |-> {p1}]
=============================================================================
