----------------------------- MODULE Whiteboard -----------------------------
(***************************************************************************)
(* What the ink layer promises its user, whatever surfaces, anchors, taps, *)
(* undo targets and idles it takes: sheets (one for each window, one for   *)
(* the desktop) with strokes on them, a pen that draws one stroke at a     *)
(* time, and a picture that follows the sheets.                            *)
(*                                                                         *)
(* Only a pen over a shown board adds a stroke, and only erasing, undo,    *)
(* clearing and closing a window remove one.  AnnotationBoard shows that   *)
(* AnnotationLayer implements this specification.                          *)
(***************************************************************************)
EXTENDS Naturals

CONSTANTS
  Window,    \* windows that may ever be open
  Desktop,   \* the sheet under all windows
  StrokeId,  \* ids of strokes, greater for later strokes
  NoStroke   \* the pen is not drawing

VARIABLES
  open,   \* the windows that are open
  ink,    \* the strokes on each sheet
  used,   \* the strokes ever drawn
  pen,    \* the stroke in the pen's hand
  shown,  \* whether the user sees the picture
  stale   \* whether the picture may differ from the sheets

vars == <<open, ink, used, pen, shown, stale>>

Sheet == Window \cup {Desktop}

Empty == [p \in Sheet |-> {}]

Last(S) == CHOOSE s \in S : \A r \in S : r <= s

Init ==
  /\ open \in SUBSET Window
  /\ ink = Empty /\ used = {}
  /\ pen = NoStroke /\ shown = FALSE /\ stale \in BOOLEAN

\* The picture changes, or is not affected.
Touched == stale' \in {stale, TRUE}

\* A new stroke, which the pen keeps in its hand or finishes.
Draw(p, s) ==
  /\ shown /\ p \in open \cup {Desktop} /\ s \notin used
  /\ ink' = [ink EXCEPT ![p] = @ \cup {s}]
  /\ used' = used \cup {s}
  /\ pen' \in {s, NoStroke}
  /\ Touched /\ UNCHANGED <<open, shown>>

\* The eraser ends the stroke in hand.
Erase(p, S) ==
  /\ shown /\ S # {} /\ S \subseteq ink[p]
  /\ ink' = [ink EXCEPT ![p] = @ \ S]
  /\ pen' = NoStroke /\ stale' = TRUE
  /\ UNCHANGED <<open, used, shown>>

\* Undo takes the last stroke of one sheet, out of the pen's hand if need be.
Undo(p) ==
  /\ ink[p] # {}
  /\ ink' = [ink EXCEPT ![p] = @ \ {Last(ink[p])}]
  /\ pen' = IF pen = Last(ink[p]) THEN NoStroke ELSE pen
  /\ stale' = TRUE
  /\ UNCHANGED <<open, used, shown>>

\* The tap that completes a gesture may have begun a stroke of its own, which
\* goes with the rest.
TapStroke == used' = used \/ (shown /\ \E s \in StrokeId \ used : used' = used \cup {s})

\* Clearing one sheet, by a gesture on it.
Wipe(p) ==
  /\ shown
  /\ ink' = [ink EXCEPT ![p] = {}]
  /\ TapStroke
  /\ pen' = NoStroke /\ stale' = TRUE
  /\ UNCHANGED <<open, shown>>

\* Clearing everything, which is seen at once.
Clear ==
  /\ ink' = Empty /\ TapStroke
  /\ pen' = NoStroke /\ stale' = ~shown
  /\ UNCHANGED <<open, shown>>

OpenWindow(w) ==
  /\ w \notin open
  /\ open' = open \cup {w}
  /\ UNCHANGED <<ink, used, pen, shown, stale>>

\* A window takes its strokes with it.
CloseWindow(w) ==
  /\ w \in open
  /\ open' = open \ {w}
  /\ ink' = [ink EXCEPT ![w] = {}]
  /\ pen' = IF pen \in ink[w] THEN NoStroke ELSE pen
  /\ Touched /\ UNCHANGED <<used, shown>>

\* Everything else that moves: the pen over its stroke, windows, scrolling,
\* the stage.  The stroke in hand may end, and no sheet changes.
Move ==
  /\ pen' \in {pen, NoStroke}
  /\ Touched /\ UNCHANGED <<open, ink, used, shown>>

Show ==
  /\ ~shown /\ shown'
  /\ stale' \in BOOLEAN
  /\ UNCHANGED <<open, ink, used, pen>>

Hide ==
  /\ shown /\ ~shown'
  /\ pen' = NoStroke
  /\ UNCHANGED <<open, ink, used, stale>>

Compose ==
  /\ shown /\ stale /\ ~stale'
  /\ UNCHANGED <<open, ink, used, pen, shown>>

Next ==
  \/ \E p \in Sheet : (\E s \in StrokeId : Draw(p, s)) \/ Undo(p) \/ Wipe(p)
  \/ \E p \in Sheet : \E S \in SUBSET ink[p] : Erase(p, S)
  \/ \E w \in Window : OpenWindow(w) \/ CloseWindow(w)
  \/ Clear \/ Move \/ Show \/ Hide \/ Compose

\* A picture that is shown and stale does not stay so for ever.
CatchesUp == shown /\ stale ~> ~(shown /\ stale)

Spec == Init /\ [][Next]_vars /\ CatchesUp
=============================================================================
