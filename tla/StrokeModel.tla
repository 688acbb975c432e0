---------------------------- MODULE StrokeModel ----------------------------
(***************************************************************************)
(* The stroke store of the overlay extension (class StrokeModel of         *)
(* lib/strokes.js): each method is an operator from a model value to a     *)
(* model value.                                                            *)
(*                                                                         *)
(* A stroke is an id, handed out in creation order, the window it was      *)
(* begun over and how far translateAll has moved it; filter keeps the      *)
(* order of the array and push appends, so the array is the set of its     *)
(* strokes by id.  The eraser's path is the window it was begun over and   *)
(* the strokes it touches.  Points, pressure and colours are left out.     *)
(***************************************************************************)
EXTENDS Naturals, Sequences

CONSTANTS
  WindowSeq,   \* stable sequence numbers of windows
  NoWindow,    \* -1: a stroke over no window, an eraser for all strokes
  Null,
  UndoCap,     \* _undoCap
  MaxStroke,   \* bound: strokes ever begun
  MaxMove      \* bound: translations ever applied

StrokeId == 1 .. MaxStroke
Stroke == [id : StrokeId, windowSeq : WindowSeq \cup {NoWindow}, moved : 0 .. MaxMove]
Path == [windowSeq : WindowSeq \cup {NoWindow}, touched : SUBSET StrokeId]

ASSUME StrokeModelAssumption ==
  /\ NoWindow \notin WindowSeq
  /\ Null \notin Stroke \cup Path
  /\ UndoCap \in Nat \ {0} /\ {MaxStroke, MaxMove} \subseteq Nat

StrokeModel ==
  [strokes : SUBSET Stroke, current : Stroke \cup {Null},
   eraserPath : Path \cup {Null}, undoStack : Seq(SUBSET Stroke),
   next : 1 .. MaxStroke + 1]    \* id of the next stroke

NewStrokeModel ==
  [strokes |-> {}, current |-> Null, eraserPath |-> Null, undoStack |-> <<>>,
   next |-> 1]

\* Mutant: old states are never dropped.
pushUndoState_Uncapped(m) == [m EXCEPT !.undoStack = Append(@, m.strokes)]

_pushUndoState(m) ==
  LET pushed == Append(m.undoStack, m.strokes)
  IN [m EXCEPT !.undoStack = IF Len(pushed) > UndoCap THEN Tail(pushed) ELSE pushed]

undoOne(m) ==
  IF m.undoStack = <<>> THEN m
  ELSE [m EXCEPT !.strokes = m.undoStack[Len(m.undoStack)],
                 !.undoStack = SubSeq(@, 1, Len(@) - 1),
                 !.current = Null, !.eraserPath = Null]

clearAll(m) ==
  [_pushUndoState(m) EXCEPT !.strokes = {}, !.current = Null, !.eraserPath = Null]

Shifted(s) == [s EXCEPT !.moved = @ + 1]

Moved(S) == {Shifted(s) : s \in S}

\* Mutant: the snapshots share their points with the strokes.
translateAll_Shared(m) ==
  [m EXCEPT !.strokes = Moved(@),
            !.current = IF @ = Null THEN @ ELSE Shifted(@),
            !.undoStack = [i \in DOMAIN @ |-> Moved(@[i])]]

\* The path moves too, so it touches what it touched.
translateAll(m) ==
  [m EXCEPT !.strokes = Moved(@),
            !.current = IF @ = Null THEN @ ELSE Shifted(@)]

commitCurrent(m) ==
  IF m.current = Null THEN m
  ELSE [_pushUndoState(m) EXCEPT !.strokes = @ \cup {m.current}, !.current = Null]

\* A stroke has a point from the start.
beginStroke(m, windowSeq) ==
  [commitCurrent(m) EXCEPT
     !.eraserPath = Null,
     !.current = [id |-> m.next, windowSeq |-> windowSeq, moved |-> 0],
     !.next = @ + 1]

beginErase(m, windowSeq, touched) ==
  [commitCurrent(m) EXCEPT
     !.eraserPath = [windowSeq |-> windowSeq, touched |-> touched]]

_applyEraser(m) ==
  [m EXCEPT !.strokes =
     {s \in @ : \/ m.eraserPath.windowSeq \notin {NoWindow, s.windowSeq}
                \/ s.id \notin m.eraserPath.touched}]

\* The session appends only to a path it has begun.
appendErase(m, touched) ==
  _applyEraser([m EXCEPT !.eraserPath.touched = @ \cup touched])

finishErase(m) ==
  IF m.eraserPath = Null THEN m
  ELSE [_applyEraser(_pushUndoState(m)) EXCEPT !.eraserPath = Null]
=============================================================================
