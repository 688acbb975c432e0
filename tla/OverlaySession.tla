--------------------------- MODULE OverlaySession ---------------------------
(***************************************************************************)
(* The drawing session of the overlay extension (lib/overlaySession.js)    *)
(* and the self-test of extension.js and lib/motionSync.js, on one         *)
(* StrokeModel.                                                            *)
(*                                                                         *)
(* The session captures events on the stage and guesses what the pen does. *)
(* The pen is here too: whether its tip and its barrel button are pressed. *)
(* An action is one callback on the shell's main loop.                     *)
(*                                                                         *)
(* An event is what the handlers compute from it: its kind, whether its    *)
(* device counts as a pen, whether it lies on the canvas, on the edge of   *)
(* the dock (in the wide margin of _penEventLikelyOverDockPalette) or on   *)
(* the dock, whether the Clear button is under it, whether its button is   *)
(* an erasing one, whether it is 8 px from the deferred press, the window  *)
(* and the strokes under it.  A swatch only sets the colour.  Repair of    *)
(* coordinates is left out.                                                *)
(*                                                                         *)
(* Type 16, which counts as a press, is CLUTTER_PROXIMITY_IN               *)
(* (clutter-enums.h): a pen that comes into range presses, and the branch  *)
(* for PROXIMITY_IN never runs.  A motion presses by itself only if the    *)
(* event has a pressure axis or tells its device type, and ClutterEvent    *)
(* here has neither has_axis_value nor get_device_type (clutter-event.h).  *)
(* DeviceTypes is for a Clutter that has the latter; the motion then       *)
(* presses or not, whatever the tip does, as a tool or _penProximityArmed  *)
(* and its clock decide.                                                   *)
(***************************************************************************)
EXTENDS StrokeModel

CONSTANTS
  DeviceTypes, \* does an event tell the type of its device?
  MaxMatch     \* bound: matchers in flight

ASSUME OverlayAssumption == DeviceTypes \in BOOLEAN /\ MaxMatch \in Nat

VARIABLES
  session,  \* the flags of OverlaySession
  model,    \* its StrokeModel
  pen,      \* which of the pen's tip and barrel button are pressed (external)
  matches,  \* matchers of MotionSyncService in flight
  moves,    \* translations applied, for the bound MaxMove
  past,     \* history: for each undo state the picture before its edit, and
            \* whether the edit was erasing
  swallowed, \* history: the dock has taken the release of the deferred press
  arrived   \* history: the pen came into range, and nothing was released since

overlayVars == <<session, model, pen, matches, moves, past, swallowed, arrived>>

Session ==
  [visible : BOOLEAN,  \* _root.visible
   penDown : BOOLEAN,  \* _penDown
   await   : BOOLEAN,  \* _penAwaitInkAfterRange
   anchor  : BOOLEAN]  \* _penDeferredAnchorStageXY is set

PenPart == {"tip", "barrel"}
Edit == [erase : BOOLEAN, picture : SUBSET Stroke]

\* What a callback works on; cleared records a click on Clear.
Hand == [s |-> session, m |-> model, cleared |-> FALSE]

Near(e) == e.place # "canvas"

\* A pen that comes into range counts, as its type is 16.
isDiscretePressEventType(e) == e.kind \in {"press", "in"}

-----------------------------------------------------------------------------
(* Handlers                                                                *)

_commitPenStrokeFromCapture(h) ==
  IF ~h.s.penDown THEN h
  ELSE [h EXCEPT !.s.penDown = FALSE,
                 !.m = IF @.eraserPath # Null THEN finishErase(@) ELSE commitCurrent(@)]

_forwardPenDockIfSwatchHit(h, e) ==
  IF e.clear THEN [h EXCEPT !.m = clearAll(@), !.cleared = TRUE] ELSE h

\* Motion of a stroke or of the eraser.
MotionWhileDown(h, e) ==
  IF Near(e) THEN _commitPenStrokeFromCapture(h)
  ELSE IF h.m.eraserPath # Null THEN [h EXCEPT !.m = appendErase(@, e.touched)]
  ELSE h

BeginInk(h, e) ==
  [h EXCEPT !.s.penDown = TRUE, !.s.await = FALSE, !.s.anchor = FALSE,
            !.m = IF e.erase THEN beginErase(@, e.windowSeq, e.touched)
                  ELSE beginStroke(finishErase(@), e.windowSeq)]

_onPress(h, e) ==
  IF e.pen /\ ~h.s.penDown /\ isDiscretePressEventType(e) /\ e.clear
    THEN _forwardPenDockIfSwatchHit(h, e)
  ELSE IF Near(e) THEN _commitPenStrokeFromCapture(h)
  ELSE IF h.s.penDown THEN MotionWhileDown(h, e)
  ELSE IF ~e.pen THEN h
  ELSE IF h.s.await /\ isDiscretePressEventType(e) THEN [h EXCEPT !.s.anchor = TRUE]
  ELSE BeginInk(h, e)

\* Motion with the pen up: past the deferred press it unlocks the ink, and
\* otherwise it may press by itself.
MotionWhileUp(h, e) ==
  IF ~e.pen \/ (h.s.await /\ ~h.s.anchor /\ Near(e)) THEN h
  ELSE IF h.s.await /\ h.s.anchor /\ e.kind = "motion"
    THEN IF e.far THEN _onPress([h EXCEPT !.s.await = FALSE, !.s.anchor = FALSE], e)
         ELSE h
  ELSE IF e.implicit /\ ~h.s.await THEN _onPress(h, e)
  ELSE h

_onMotion(h, e) ==
  IF h.s.penDown THEN MotionWhileDown(h, e) ELSE MotionWhileUp(h, e)

\* Mutant: a release without ink leaves the deferred press.
onRelease_KeepsAnchor(h, e) == _commitPenStrokeFromCapture(h)

_onRelease(h, e) ==
  _commitPenStrokeFromCapture(
    IF ~h.s.penDown /\ e.pen /\ e.kind = "release" THEN [h EXCEPT !.s.anchor = FALSE]
    ELSE h)

Deferred(h) == h.s.await /\ h.s.anchor

_penCaptureAcceptsEvent(h, e) ==
  /\ h.s.penDown \/ Deferred(h) \/ ~Near(e)
  /\ e.pen \/ h.s.penDown

Dispatch(h, e) ==
  CASE isDiscretePressEventType(e) -> _onPress(h, e)
    [] e.kind = "motion"  -> _onMotion(h, e)
    [] e.kind = "release" -> _onRelease(h, e)
    [] e.kind = "out"     -> _onRelease([h EXCEPT !.s.await = TRUE, !.s.anchor = FALSE], e)
    [] e.kind = "other"   -> IF h.s.penDown THEN _onMotion(h, e) ELSE h

_onPenStageCaptured(h, e) ==
  IF ~h.s.visible \/ ~_penCaptureAcceptsEvent(h, e) THEN h
  ELSE IF e.place # "dock" THEN Dispatch(h, e)
  ELSE IF h.s.penDown THEN _commitPenStrokeFromCapture(h)
  ELSE IF e.kind = "motion" THEN h
  ELSE _forwardPenDockIfSwatchHit(h, e)

\* Mutant: hiding leaves the eraser's path.
toggle_KeepsPath(h) ==
  [h EXCEPT !.s = [visible |-> ~h.s.visible, penDown |-> FALSE, await |-> TRUE,
                   anchor |-> FALSE],
            !.m = commitCurrent(@)]

\* While hidden there is no stroke in hand, so that showing finishes none.
toggle(h) ==
  [h EXCEPT !.s = [visible |-> ~h.s.visible, penDown |-> FALSE, await |-> TRUE,
                   anchor |-> FALSE],
            !.m = IF h.s.visible THEN finishErase(commitCurrent(@)) ELSE @]

-----------------------------------------------------------------------------
(* Actions                                                                 *)

\* The edits between a model and its successor in one callback, for history.
Edits(n) ==
  IF n.cleared THEN <<[erase |-> FALSE, picture |-> model.strokes]>>
  ELSE IF model.eraserPath # Null /\ n.m.eraserPath = Null
    THEN <<[erase |-> TRUE, picture |-> model.strokes]>>
  ELSE IF model.current # Null /\ n.m.current = Null
    THEN <<[erase |-> FALSE, picture |-> model.strokes]>>
  ELSE <<>>

Remember(edits) ==
  LET all == past \o edits
  IN past' = SubSeq(all, 1 + (IF Len(all) > UndoCap THEN Len(all) - UndoCap ELSE 0), Len(all))

\* A callback of the session; MaxStroke bounds the strokes begun.
Becomes(n) ==
  /\ n.m.next <= MaxStroke + 1
  /\ session' = n.s
  /\ model' = n.m
  /\ Remember(Edits(n))
  /\ UNCHANGED <<matches, moves>>

Captured(e) ==
  /\ session.visible
  /\ Becomes(_onPenStageCaptured(Hand, e))
  /\ swallowed' = (session'.anchor /\
       (swallowed \/ (e.kind \in {"release", "out"} /\ e.place = "dock")))
  /\ arrived' = (e.kind = "in" \/ (arrived /\ e.kind \notin {"release", "out"}))

\* Fields the handlers do not read in this state have one value.
Event(kind, isPen, erase) ==
  {e \in [kind : {kind}, pen : {isPen}, erase : {erase},
          place : {"canvas", "edge", "dock"}, clear : BOOLEAN,
          implicit : IF kind = "motion" /\ DeviceTypes THEN BOOLEAN ELSE {FALSE},
          far : IF session.anchor THEN BOOLEAN ELSE {FALSE},
          windowSeq : IF session.penDown THEN {NoWindow} ELSE WindowSeq \cup {NoWindow},
          touched : IF erase \/ model.eraserPath # Null
                      THEN SUBSET {s.id : s \in model.strokes} ELSE {{}}] :
     e.clear => e.place # "canvas"}

PenPress(part) ==
  /\ part \notin pen
  /\ pen' = pen \cup {part}
  /\ \E e \in Event("press", TRUE, part = "barrel") : Captured(e)

PenRelease(part) ==
  /\ part \in pen
  /\ pen' = pen \ {part}
  /\ \E e \in Event("release", TRUE, FALSE) : Captured(e)

PenMove ==
  /\ UNCHANGED pen
  /\ \E kind \in {"motion", "other"} : \E e \in Event(kind, TRUE, FALSE) : Captured(e)

\* The tip is up when the pen comes into range or leaves it.
PenRange ==
  /\ "tip" \notin pen
  /\ UNCHANGED pen
  /\ \E kind \in {"in", "out"} : \E e \in Event(kind, TRUE, FALSE) : Captured(e)

\* Events of the mouse are captured for as long as the pen is down.
MouseEvent ==
  /\ session.penDown
  /\ UNCHANGED pen
  /\ \E kind \in {"press", "motion", "release", "other"} :
       \E e \in Event(kind, FALSE, FALSE) : Captured(e)

\* A click on Undo or Clear reaches the button if it is not captured.
Clickable == session.visible /\ ~session.penDown

ClickUndo ==
  /\ Clickable
  /\ model' = undoOne(model)
  /\ past' = SubSeq(past, 1, Len(past) - 1)
  /\ UNCHANGED <<session, pen, matches, moves, swallowed, arrived>>

ClickClear ==
  /\ Clickable
  /\ Becomes([Hand EXCEPT !.m = clearAll(@), !.cleared = TRUE])
  /\ UNCHANGED <<pen, swallowed, arrived>>

Toggle ==
  /\ Becomes(toggle(Hand))
  /\ swallowed' = FALSE /\ arrived' = FALSE
  /\ UNCHANGED pen

\* The pen is pressed or released while the overlay is hidden.
PenUnseen ==
  /\ ~session.visible
  /\ pen' \in SUBSET PenPart
  /\ UNCHANGED <<session, model, matches, moves, past, swallowed, arrived>>

\* The menu entry of the panel: a stroke of its own on a cleared canvas, and a
\* matcher, if its binary is there.
runSyntheticMotionSelfTest ==
  /\ model.next <= MaxStroke
  /\ model' = commitCurrent(beginStroke(clearAll(model), NoWindow))
  /\ Remember(<<[erase |-> FALSE, picture |-> model.strokes],
                [erase |-> FALSE, picture |-> {}]>>)
  /\ matches' \in {matches, matches + 1} \cap 0 .. MaxMatch
  /\ UNCHANGED <<session, pen, moves, swallowed, arrived>>

\* A matcher is done: its shift is applied if it is near or confident.
MatchDone ==
  /\ matches > 0
  /\ matches' = matches - 1
  /\ \/ moves < MaxMove /\ moves' = moves + 1 /\ model' = translateAll(model)
     \/ UNCHANGED <<moves, model>>
  /\ UNCHANGED <<session, pen, past, swallowed, arrived>>

OverlayInit ==
  /\ session = [visible |-> FALSE, penDown |-> FALSE, await |-> TRUE, anchor |-> FALSE]
  /\ model = NewStrokeModel
  /\ pen = {}
  /\ matches = 0 /\ moves = 0
  /\ past = <<>> /\ swallowed = FALSE /\ arrived = FALSE

OverlayNext ==
  \/ \E part \in PenPart : PenPress(part) \/ PenRelease(part)
  \/ PenMove \/ PenRange \/ MouseEvent \/ PenUnseen
  \/ ClickUndo \/ ClickClear \/ Toggle
  \/ runSyntheticMotionSelfTest \/ MatchDone

OverlaySpec == OverlayInit /\ [][OverlayNext]_overlayVars

-----------------------------------------------------------------------------
(* Properties                                                              *)

\* Types: at most _undoCap undo states, and the session and its store hold
\* what the code puts there.
OverlayTypeOK ==
  /\ session \in Session
  /\ model \in StrokeModel
  /\ Len(model.undoStack) <= UndoCap
  /\ pen \subseteq PenPart
  /\ matches \in 0 .. MaxMatch /\ moves \in 0 .. MaxMove
  /\ past \in Seq(Edit) /\ swallowed \in BOOLEAN /\ arrived \in BOOLEAN

\* However a gesture ends (release, leaving range, the dock, a mouse click, the
\* overlay hidden), its stroke or path does not stay in the store to be drawn
\* on or applied later, and the store never holds both.
IdleModelEmpty ==
  /\ ~session.penDown => model.current = Null /\ model.eraserPath = Null
  /\ model.current = Null \/ model.eraserPath = Null

\* Each undo state is the picture before its edit, in order and as it was then,
\* whatever a matcher has moved since; erasing is excused (strokes.js applies
\* the eraser as it moves and takes the state when it is lifted).
UndoStackTrue ==
  /\ Len(past) = Len(model.undoStack)
  /\ \A i \in DOMAIN past : past[i].erase \/ model.undoStack[i] = past[i].picture

\* Ink begins only for a reason: something of the pen is pressed, the dock
\* swallowed the release of the deferred press, or the pen's coming into range
\* was taken for a press that nothing has ended since (isDiscretePressEventType).
\* So it does not after a tap, after the pen has left, or on showing the
\* overlay, however the pen then moves, unless motions press by themselves.
InkNeedsPress ==
  [][~session.penDown /\ session'.penDown =>
       \/ pen' # {} \/ arrived' \/ swallowed
       \/ DeviceTypes /\ ~session.await]_overlayVars

\* "avoids hover MOTION starting a stroke cold" (overlaySession.js:228): a pen
\* that merely hovers does not ink.
HoverInksNothing ==
  [][~session.penDown /\ session'.penDown => pen' # {} \/ swallowed]_overlayVars
=============================================================================
