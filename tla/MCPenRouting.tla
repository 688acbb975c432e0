---------------------------- MODULE MCPenRouting ----------------------------
(* PenRouting on small instances: one pen with a barrel button, one or two   *)
(* dock buttons, and no window: all ink lands on the desktop surface.        *)
EXTENDS PenRouting

OnePid == [w \in Window |-> CHOOSE p \in Pid : TRUE]
=============================================================================
