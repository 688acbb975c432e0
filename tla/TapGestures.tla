---------------------------- MODULE TapGestures -----------------------------
(***************************************************************************)
(* The tap-to-clear gestures of meta-annotation-layer.c: pending_tap and   *)
(* tap_history, with the clock that AnnotationLayer leaves out.  There a   *)
(* release that ends a tap may complete a gesture or not; here the history *)
(* decides.                                                                *)
(*                                                                         *)
(* A time stamp is modelled by its age, in a unit of 100 ms; ages stop at  *)
(* Horizon, past every threshold.  A window that closes and is mapped      *)
(* again is the same value of Window: a new MetaWindow may get the address *)
(* of a freed one.                                                         *)
(***************************************************************************)
EXTENDS Naturals, Sequences

CONSTANTS
  Window,        \* addresses of MetaWindow objects
  Desktop,       \* the NULL anchor
  TapMax,        \* TAP_MAX_DURATION_US
  TripleWindow,  \* TRIPLE_TAP_WINDOW_US
  QuadWindow,    \* QUAD_TAP_WINDOW_US
  Horizon        \* bound on ages

ASSUME TapAssumption ==
  /\ Desktop \notin Window
  /\ {TapMax, TripleWindow, QuadWindow} \subseteq Nat
  /\ Horizon \in Nat
  /\ \A limit \in {TapMax, TripleWindow, QuadWindow} : limit < Horizon

VARIABLES
  managed,   \* windows that exist (external)
  pending,   \* the pending tap, as a sequence of at most one TapRecord
  history,   \* tap_history, newest last
  fired,     \* the gesture this dispatch completed, or "none"
  log        \* history: the last four taps, and what became of them

tapVars == <<managed, pending, history, fired, log>>

Anchor    == Window \cup {Desktop}
Age       == 0 .. Horizon
TapRecord == [anchor : Anchor, age : Age]

\* "spent" by a gesture; "closed": its window is gone; "forgotten": dropped
\* with the history when the window of another tap closed.
LoggedTap ==
  [anchor : Anchor, age : Age, fate : {"fresh", "spent", "closed", "forgotten"}]

TAP_HISTORY_SIZE == 4

LastOf(s, n) == IF Len(s) <= n THEN s ELSE SubSeq(s, Len(s) - n + 1, Len(s))

Aged(s) ==
  [i \in DOMAIN s |->
     [s[i] EXCEPT !.age = IF @ < Horizon THEN @ + 1 ELSE @]]

-----------------------------------------------------------------------------
(* The history                                                             *)

\* Mutant: a tap exactly as old as the window is dropped.
tap_history_prune_Strict(h) ==
  LET keep == {i \in DOMAIN h : h[i].age < QuadWindow}
  IN IF keep = {} THEN <<>>
     ELSE SubSeq(h, CHOOSE i \in keep : \A j \in keep : i <= j, Len(h))

\* Drop the taps older than the quad-tap window.
tap_history_prune(h) ==
  LET keep == {i \in DOMAIN h : h[i].age <= QuadWindow}
  IN IF keep = {} THEN <<>>
     ELSE SubSeq(h, CHOOSE i \in keep : \A j \in keep : i <= j, Len(h))

tap_history_append(h, t) ==
  Append(LastOf(h, TAP_HISTORY_SIZE - 1), [anchor |-> t, age |-> 0])

\* The gesture the history h completes.
Gesture(h) ==
  LET n == Len(h)
  IN IF n >= TAP_HISTORY_SIZE THEN "quad"
     ELSE IF /\ n >= 3
             /\ h[n - 2].anchor = h[n - 1].anchor
             /\ h[n - 1].anchor = h[n].anchor
             /\ h[n - 2].age - h[n].age <= TripleWindow
       THEN "triple"
     ELSE "none"

\* Mutant: a triple tap leaves its taps in the history.
check_tap_gestures_KeepsTriple(h) ==
  /\ fired' = Gesture(h)
  /\ history' = IF Gesture(h) = "quad" THEN <<>> ELSE h

\* Mutant: a quad tap leaves its taps in the history.
check_tap_gestures_KeepsQuad(h) ==
  /\ fired' = Gesture(h)
  /\ history' = IF Gesture(h) = "triple" THEN <<>> ELSE h

\* A gesture uses its taps up.  Clearing the ink is AnnotationLayer's.
check_tap_gestures(h) ==
  /\ fired' = Gesture(h)
  /\ history' = IF Gesture(h) = "none" THEN h ELSE <<>>

-----------------------------------------------------------------------------
(* Dispatches                                                              *)

Pending == pending # <<>>

\* A release of the pending press is a tap if it was short and stationary.
IsTap(moved) == Pending /\ pending[1].age <= TapMax /\ ~moved

TapInit ==
  /\ managed \in SUBSET Window
  /\ pending = <<>> /\ history = <<>> /\ fired = "none" /\ log = <<>>

\* Time passes.
Tick ==
  /\ pending' = Aged(pending) /\ history' = Aged(history) /\ log' = Aged(log)
  /\ fired' = "none"
  /\ UNCHANGED managed

note_tap_press(t) ==
  /\ t \in managed \cup {Desktop}
  /\ pending' = <<[anchor |-> t, age |-> 0]>>
  /\ fired' = "none"
  /\ UNCHANGED <<managed, history, log>>

\* A stroke that begins on motion, a drift off the press, a touch cancel.
cancel_tap_pending ==
  /\ Pending
  /\ pending' = <<>>
  /\ fired' = "none"
  /\ UNCHANGED <<managed, history, log>>

\* The log after the pending press became a tap.
Logged ==
  LastOf(Append(log, [anchor |-> pending[1].anchor, age |-> 0,
                      fate |-> "fresh"]), 4)

Spend(s) == [i \in DOMAIN s |-> [s[i] EXCEPT !.fate = IF @ = "fresh" THEN "spent" ELSE @]]

note_tap_release(moved) ==
  /\ Pending
  /\ pending' = <<>>
  /\ IF IsTap(moved)
       THEN /\ check_tap_gestures(
                 tap_history_append(tap_history_prune(history), pending[1].anchor))
            /\ log' = IF fired' = "none" THEN Logged ELSE Spend(Logged)
       ELSE fired' = "none" /\ UNCHANGED <<history, log>>
  /\ UNCHANGED managed

MapWindow(w) ==
  /\ w \notin managed
  /\ managed' = managed \cup {w}
  /\ fired' = "none"
  /\ UNCHANGED <<pending, history, log>>

\* What a closing window does to the taps in the history.
DropsHistory(w) == \E i \in DOMAIN history : history[i].anchor = w

Fate(e, w) ==
  IF e.anchor = w THEN "closed"
  ELSE IF DropsHistory(w) /\ e.fate = "fresh" THEN "forgotten" ELSE e.fate

\* Mutant: the history keeps the taps on a closed window.
on_window_unmanaged_KeepsHistory(w) ==
  /\ pending' = IF Pending /\ pending[1].anchor = w THEN <<>> ELSE pending
  /\ UNCHANGED history

on_window_unmanaged(w) ==
  /\ pending' = IF Pending /\ pending[1].anchor = w THEN <<>> ELSE pending
  /\ history' = IF DropsHistory(w) THEN <<>> ELSE history

CloseWindow(w) ==
  /\ w \in managed
  /\ managed' = managed \ {w}
  /\ on_window_unmanaged(w)
  /\ log' = [i \in DOMAIN log |-> [log[i] EXCEPT !.fate = Fate(log[i], w)]]
  /\ fired' = "none"

TapNext ==
  \/ Tick \/ cancel_tap_pending
  \/ \E t \in Anchor : note_tap_press(t)
  \/ \E moved \in BOOLEAN : note_tap_release(moved)
  \/ \E w \in Window : MapWindow(w) \/ CloseWindow(w)

TapSpec == TapInit /\ [][TapNext]_tapVars

-----------------------------------------------------------------------------
(* Properties                                                              *)

\* The types of the tap fields; the history never exceeds its array.
TapTypeOK ==
  /\ managed \subseteq Window
  /\ pending \in Seq(TapRecord) /\ Len(pending) <= 1
  /\ history \in Seq(TapRecord) /\ Len(history) < TAP_HISTORY_SIZE
  /\ fired \in {"none", "triple", "quad"}
  /\ log \in Seq(LoggedTap) /\ Len(log) <= 4

\* No tap, pending or in the history, points at a window that is gone.
NoDanglingTap ==
  /\ \A i \in DOMAIN pending : pending[i].anchor \in managed \cup {Desktop}
  /\ \A i \in DOMAIN history : history[i].anchor \in managed \cup {Desktop}

\* The last n taps, the one just made included, are fresh and at most limit
\* old.
FreshBurst(n, limit) ==
  /\ Len(Logged) >= n
  /\ \A i \in Len(Logged) - n + 1 .. Len(Logged) :
       Logged[i].fate = "fresh" /\ Logged[i].age <= limit

\* The last n taps are on one anchor.
OneAnchor(n) ==
  \A i \in Len(Logged) - n + 1 .. Len(Logged) :
    Logged[i].anchor = Logged[Len(Logged)].anchor

\* This step makes a tap of the pending press.
Tapped == IsTap(FALSE) /\ note_tap_release(FALSE)

\* Ink is cleared only by taps that were made for it: a triple tap is three
\* taps on one anchor, a quad tap four, in time, none used by an earlier
\* gesture and none made on a window that has closed since, even if another
\* window now lives at its address.
GestureEarned ==
  [][/\ fired' = "triple" => FreshBurst(3, TripleWindow) /\ OneAnchor(3)
     /\ fired' = "quad" => FreshBurst(4, QuadWindow)]_tapVars

\* No gesture is missed: three taps on one anchor, or four anywhere, inside
\* the quad-tap window that the pruning keeps, fire.
FastTapsFire ==
  [][Tapped /\ \/ FreshBurst(3, QuadWindow) /\ OneAnchor(3)
               \/ FreshBurst(4, QuadWindow)
       => fired' # "none"]_tapVars

\* "Triple-tap: last 3 taps share an anchor and span <=TRIPLE_TAP_WINDOW_US"
\* (check_tap_gestures), whatever the pruning keeps.
TripleTapFires ==
  [][Tapped /\ FreshBurst(3, TripleWindow) /\ OneAnchor(3)
       => fired' # "none"]_tapVars
=============================================================================
