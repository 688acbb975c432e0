--------------------------- MODULE MCKateTracker ---------------------------
(* KateTracker on small instances: all windows are of one process, which is *)
(* when trackers get in each other's way.                                   *)
EXTENDS KateTracker

OnePid == [w \in Window |-> CHOOSE p \in Pid : TRUE]
=============================================================================
