---------------------------- MODULE TouchRouting ----------------------------
(***************************************************************************)
(* Fingers beside the pen.  The router and the layer tell no device from   *)
(* another: touch sequences and the pen share the one stroke_active, the   *)
(* one current_stroke and the one chrome_press_id, and the lift of any of  *)
(* them ends the stroke, or the press on the dock, of any other.  Who      *)
(* touches, and where the touch began, is known only here.                 *)
(*                                                                         *)
(* The way of an event is that of PenRouting: lost to a grab or an inactive*)
(* layer, kept by a press on the dock, or given to the layer.  tipLost     *)
(* covers the lifts of fingers too.                                        *)
(***************************************************************************)
EXTENDS PenRouting

CONSTANT Finger   \* touch sequences, each used again and again

VARIABLE fingers  \* where each touch began, or "none" (external)

touchVars == <<penVars, fingers>>

TouchInit == PenInit /\ fingers = [f \in Finger |-> "none"]

\* The pen's own variables but tipLost.
penBegan == <<tip, held, contact, slipped, barrelLost>>

\* A finger is put down over t, where the dock has c.
TouchBegin(f, t, inside, c) ==
  /\ fingers[f] = "none"
  /\ c \in PickChromeRegion
  /\ \/ /\ ~Routed
        /\ fingers' = [fingers EXCEPT ![f] = "unseen"]
        /\ UNCHANGED <<layer, managed, chromePress>>
     \/ /\ Routed /\ c # NoChrome
        /\ chromePress' = c
        /\ fingers' = [fingers EXCEPT ![f] = c]
        /\ UNCHANGED <<layer, managed>>
     \/ /\ Routed /\ c = NoChrome
        /\ fingers' = [fingers EXCEPT ![f] = "canvas"]
        /\ IF Swallows THEN UNCHANGED <<layer, managed>>
                       ELSE Handled(Press(t, inside, FALSE))
        /\ UNCHANGED chromePress
  /\ activated' = NoChrome
  /\ UNCHANGED <<grab, penBegan, tipLost>>

\* A finger moves with a stroke in flight; without one the layer ignores it.
TouchUpdate(f, hit, drift) ==
  /\ fingers[f] # "none"
  /\ Routed /\ ~Swallows
  /\ MotionContinues(FALSE, hit, drift, TRUE)
  /\ activated' = NoChrome
  /\ UNCHANGED <<chromePress, grab, penBegan, tipLost, fingers>>

\* A finger is lifted, over c: Event is what the layer does with it, and
\* activates is whether a press on the dock is told of it.
Lift(f, c, activates, Event) ==
  /\ fingers[f] # "none"
  /\ c \in LiftPoint
  /\ \/ /\ ~Routed
        /\ tipLost' = TRUE
        /\ activated' = NoChrome
        /\ UNCHANGED <<layer, managed, chromePress>>
     \/ /\ Routed /\ Swallows
        /\ EndDockPress(IF activates THEN c ELSE NoChrome)
        /\ UNCHANGED tipLost
     \/ /\ Routed /\ ~Swallows
        /\ Handled(Event)
        /\ tipLost' = FALSE
        /\ activated' = NoChrome
        /\ UNCHANGED chromePress
  /\ fingers' = [fingers EXCEPT ![f] = "none"]
  /\ UNCHANGED <<grab, penBegan>>

TouchEnd(f, hit, g, c) == Lift(f, c, TRUE, Release(FALSE, hit, g))

\* Mutant: the layer does not hear that a touch was cancelled.
TouchCancelled_Ignored(f) == Lift(f, NoChrome, FALSE, UNCHANGED <<layer, managed>>)

\* The compositor or the device takes the touch back.
TouchCancelled(f) == Lift(f, NoChrome, FALSE, TouchCancel)

\* ClearChromeRegions, also under the fingers on the dock.
DockGone ==
  /\ ClearChromeRegions
  /\ fingers' = [f \in Finger |->
                   IF fingers[f] \in Chrome THEN "canvas" ELSE fingers[f]]

TouchNext ==
  \/ PenDispatch /\ UNCHANGED fingers
  \/ DockGone
  \/ \E f \in Finger, t \in Target, inside \in BOOLEAN, c \in Chrome \cup {NoChrome} :
       TouchBegin(f, t, inside, c)
  \/ \E f \in Finger, hit \in SUBSET StrokeId, drift \in BOOLEAN :
       TouchUpdate(f, hit, drift)
  \/ \E f \in Finger, hit \in SUBSET StrokeId, g \in {"none", "triple", "quad"},
        c \in Chrome \cup {NoChrome} : TouchEnd(f, hit, g, c)
  \/ \E f \in Finger : TouchCancelled(f)

TouchSpec == TouchInit /\ [][TouchNext]_touchVars

-----------------------------------------------------------------------------
(* Properties                                                              *)

Touching == tip \/ \E f \in Finger : fingers[f] # "none"

\* However the presses and lifts of fingers and pen interleave with those on
\* the dock, once nothing touches the screen no stroke is in flight, so that a
\* pen that only hovers does not ink; unless a lift was lost.
InkHasContact == layer.stroke_active => Touching \/ tipLost

\* A press on the dock in flight is that of a contact which began on this very
\* button and is still down; otherwise the router would swallow the next
\* stroke and let its lift fire the button.
DockPressHasContact ==
  chromePress # NoChrome =>
    \/ tipLost
    \/ tip /\ contact = chromePress
    \/ \E f \in Finger : fingers[f] = chromePress

\* "Swallow all subsequent events from this stroke so dragging off the dock
\* can't begin or extend an ink stroke" (compositor.c:1860): while all that
\* touches are fingers that began on the dock, none of them extends a stroke.
DockDragNeverInks ==
  [][(\A f \in Finger : fingers[f] \in Chrome \cup {"none"}) /\ ~tip
       => ~ \E f \in Finger, hit \in SUBSET StrokeId, drift \in BOOLEAN :
              TouchUpdate(f, hit, drift)]_touchVars
=============================================================================
