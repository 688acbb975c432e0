--------------------------- MODULE MCTouchRouting ---------------------------
(* TouchRouting on small instances: two fingers and a pen without barrel     *)
(* buttons, on the desktop.                                                  *)
EXTENDS TouchRouting, TLC

OnePid == [w \in Window |-> CHOOSE p \in Pid : TRUE]

\* Fingers are alike: nothing chooses one, and only invariants are checked.
FingerSymmetry == Permutations(Finger)
=============================================================================
