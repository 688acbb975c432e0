----------------------- MODULE AnnotationLayerProofs -----------------------
(***************************************************************************)
(* Theorems about AnnotationLayer, for every value of its constants: the   *)
(* type invariant, the invariants on pointers, strokes and pauses, and     *)
(* those on what is shown.                                                 *)
(*                                                                         *)
(* The model is a set of operators from a layer value to a layer value, so *)
(* the argument is too: one lemma for each operator says that it keeps the *)
(* invariant of the struct, and the proof that an action keeps it cites    *)
(* the lemmas of the operators the action is composed of.                  *)
(***************************************************************************)
EXTENDS AnnotationLayer, TLAPS

\* What holds of the struct between any two statements that touch it: types,
\* pointers to windows, nothing stored for a window without ink, and no stroke
\* while paused.
Sound(l) ==
  /\ l \in Layer
  /\ l.anchor \in l.inked \cup {Desktop}
  /\ l.last_ink \in l.inked \cup {Desktop}
  /\ l.tap_anchor \in l.inked \cup {Desktop}
  /\ \A w \in Window \ l.inked :
       l.strokes[w] = {} /\ l.drawn[w] = {} /\ l.region[w] = NoRegion
  /\ l.paused => ~l.stroke_active /\ l.current = NoStroke

\* The stroke in flight is stored where the pen is anchored.  Clearing breaks
\* this until the stroke is dropped, so it is kept apart.
InFlight(l) ==
  l.current # NoStroke => l.stroke_active /\ l.current \in l.strokes[l.anchor]

Safe(l) == Sound(l) /\ InFlight(l)

\* The inductive invariant.
Inv == Safe(layer) /\ layer.inked \subseteq managed /\ managed \subseteq Window

-----------------------------------------------------------------------------
(* Recompose                                                               *)

\* The idle, dirty and history fields are in no part of the invariant.
LEMMA FlagsSafe ==
  ASSUME NEW l, Safe(l), NEW b \in BOOLEAN
  PROVE  /\ Safe([l EXCEPT !.idle = b]) /\ [l EXCEPT !.idle = b].inked = l.inked
         /\ Safe([l EXCEPT !.dirty = b]) /\ [l EXCEPT !.dirty = b].inked = l.inked
         /\ Safe([l EXCEPT !.owed = {}]) /\ [l EXCEPT !.owed = {}].inked = l.inked
<1>1. l \in Layer
  BY DEF Safe, Sound
<1>2. Safe([l EXCEPT !.idle = b]) /\ [l EXCEPT !.idle = b].inked = l.inked
  BY <1>1 DEF Safe, Sound, InFlight, Layer
<1>3. Safe([l EXCEPT !.dirty = b]) /\ [l EXCEPT !.dirty = b].inked = l.inked
  BY <1>1 DEF Safe, Sound, InFlight, Layer
<1>4. Safe([l EXCEPT !.owed = {}]) /\ [l EXCEPT !.owed = {}].inked = l.inked
  BY <1>1 DEF Safe, Sound, InFlight, Layer
<1> QED BY <1>2, <1>3, <1>4

\* Scheduling a recompose changes nothing but the idle and dirty flags.
LEMMA ScheduleSafe ==
  ASSUME NEW l, Safe(l)
  PROVE  /\ Safe(schedule_recompose(l))
         /\ schedule_recompose(l).inked = l.inked
  BY FlagsSafe DEF schedule_recompose

\* Neither does running one, but for the history.
LEMMA RecomposeSafe ==
  ASSUME NEW l, Safe(l)
  PROVE  /\ Safe(recompose(l)) /\ recompose(l).inked = l.inked
         /\ Safe([l EXCEPT !.idle = FALSE])
         /\ [l EXCEPT !.idle = FALSE].inked = l.inked
<1>1. Safe([l EXCEPT !.dirty = FALSE]) /\ [l EXCEPT !.dirty = FALSE].inked = l.inked
  BY FlagsSafe
<1>2. /\ Safe([[l EXCEPT !.dirty = FALSE] EXCEPT !.owed = {}])
      /\ [[l EXCEPT !.dirty = FALSE] EXCEPT !.owed = {}].inked = l.inked
  BY <1>1, FlagsSafe
<1> QED BY <1>2, FlagsSafe DEF recompose

\* Showing or hiding the actor recomposes at most.
LEMMA VisibilitySafe ==
  ASSUME NEW l, Safe(l)
  PROVE  /\ Safe(update_actor_visibility(l))
         /\ update_actor_visibility(l).inked = l.inked
<1>1. Safe([l EXCEPT !.idle = FALSE]) /\ [l EXCEPT !.idle = FALSE].inked = l.inked
  BY RecomposeSafe
<1>2. /\ Safe(recompose([l EXCEPT !.idle = FALSE]))
      /\ recompose([l EXCEPT !.idle = FALSE]).inked = l.inked
  BY <1>1, RecomposeSafe
<1> QED BY <1>2 DEF update_actor_visibility

-----------------------------------------------------------------------------
(* Surfaces                                                                *)

\* The frame a stroke is painted in is a frame.
LEMMA FrameType ==
  ASSUME NEW l \in Layer, NEW t \in Target, NEW follow \in BOOLEAN
  PROVE  PaintFrame(l, t, follow) \in Frame
  BY ConstantsAssumption DEF Layer, PaintFrame, FrameOf, Pinned, Frame, Target

\* A repaint of a target makes images of its own strokes, none if it has none.
LEMMA ImagesType ==
  ASSUME NEW l \in Layer, NEW t \in Target
  PROVE  /\ Images(l, t) \subseteq Image
         /\ l.strokes[t] = {} => Images(l, t) = {}
<1>1. \A s \in l.strokes[t] : l.heap[s] \in Stroke /\ s \in StrokeId
  BY DEF Layer
<1>2. \A s \in l.strokes[t] : PaintFrame(l, t, l.heap[s].follow_scroll) \in Frame
  BY <1>1, FrameType DEF Stroke
<1> QED BY <1>1, <1>2 DEF Images, Image, Stroke

\* A repaint keeps every array and pointer.
LEMMA RasterSafe ==
  ASSUME NEW l, NEW T
  PROVE  /\ Sound(l) => Sound(rasterize_all_strokes(l, T))
         /\ Safe(l) => Safe(rasterize_all_strokes(l, T))
         /\ l \in Layer => rasterize_all_strokes(l, T).inked = l.inked
<1>1. ASSUME l \in Layer
      PROVE  /\ \A t \in Target : Images(l, t) \subseteq Image
             /\ \A t \in Target : l.strokes[t] = {} => Images(l, t) = {}
  BY <1>1, ImagesType
<1> QED BY <1>1, ZenonT(60) DEF Safe, Sound, InFlight, Layer, rasterize_all_strokes, Cause, Target

\* Dropping the stroke in flight re-establishes what clearing broke.
LEMMA DropSafe ==
  ASSUME NEW l, Sound(l)
  PROVE  /\ Safe(DropStroke(l)) /\ DropStroke(l).inked = l.inked
         /\ Safe(SealStroke(l)) /\ SealStroke(l).inked = l.inked
         /\ DropStroke(l).anchor = Desktop /\ SealStroke(l).anchor = Desktop
  BY ZenonT(60) DEF Safe, Sound, InFlight, Layer, DropStroke, SealStroke, Target, NoStroke

\* What dropping leaves alone.
LEMMA DropFields ==
  ASSUME NEW l \in Layer
  PROVE  LET d == DropStroke(l)
         IN /\ ~d.stroke_active /\ d.current = NoStroke /\ d.paused = l.paused
            /\ d.last_ink = l.last_ink /\ d.tap_anchor = l.tap_anchor
  BY DEF Layer, DropStroke

\* Wiping a target is safe unless it is where the stroke in flight lives.
LEMMA WipeSafe ==
  ASSUME NEW l, NEW t \in Target
  PROVE  /\ Sound(l) => Sound(WipeTarget(l, t))
         /\ Safe(l) /\ l.anchor # t => Safe(WipeTarget(l, t))
         /\ l \in Layer => WipeTarget(l, t).inked = l.inked
  BY DEF Safe, Sound, InFlight, Layer, WipeTarget, Target, Cause

\* What wiping empties and what it leaves alone.
LEMMA WipeFields ==
  ASSUME NEW l \in Layer, NEW t \in Target
  PROVE  LET m == WipeTarget(l, t)
         IN /\ m.anchor = l.anchor /\ m.last_ink = l.last_ink
            /\ m.tap_anchor = l.tap_anchor
            /\ m.strokes[t] = {} /\ m.drawn[t] = {}
  BY DEF Layer, WipeTarget

-----------------------------------------------------------------------------
(* The stroke in flight                                                    *)

\* Appending a point leaves a stroke in flight, in the anchor's array.
LEMMA AppendSafe ==
  ASSUME NEW l, Safe(l), l.stroke_active, ~l.paused,
         l.current # NoStroke \/ l.next <= MaxStroke
  PROVE  LET a == append_ink_point(l)
         IN /\ Safe(a) /\ a.inked = l.inked /\ a.anchor = l.anchor
            /\ a.current \in StrokeId /\ a.stroke_active /\ ~a.paused
            /\ a.follow = l.follow
<1>1. l \in Layer /\ l.anchor \in Target /\ l.follow \in BOOLEAN
  BY DEF Safe, Sound, Layer
<1>2. CASE l.current # NoStroke
  BY <1>1, <1>2 DEF append_ink_point, Safe, Sound, InFlight, Layer, NoStroke
<1>3. CASE l.current = NoStroke
  <2> DEFINE f == PaintFrame(l, l.anchor, l.follow)
             st == [follow_scroll |-> l.follow,
                    frame |-> f, home |-> l.anchor]
             h == [l.heap EXCEPT ![l.next] = st]
             ss == [l.strokes EXCEPT ![l.anchor] = @ \cup {l.next}]
             a == [l EXCEPT !.heap = h, !.strokes = ss,
                            !.current = l.next, !.next = l.next + 1]
  <2>1. f \in Frame
    BY <1>1, FrameType
  <2>2. l.next \in StrokeId /\ l.next # NoStroke /\ l.next + 1 \in 1 .. MaxStroke + 1
    BY <1>1, <1>3, ConstantsAssumption DEF Layer, StrokeId, NoStroke
  <2>3. h \in [StrokeId -> Stroke]
    BY <1>1, <2>1, <2>2 DEF Layer, Stroke
  <2>4. /\ ss \in [Target -> SUBSET StrokeId] /\ l.next \in ss[l.anchor]
        /\ \A t \in Target : t # l.anchor => ss[t] = l.strokes[t]
    BY <1>1, <2>2 DEF Layer
  <2>5. append_ink_point(l) = a
    BY <1>3, Zenon DEF append_ink_point
  <2> HIDE DEF f, st, h, ss
  <2>6. a \in Layer
    BY <1>1, <2>2, <2>3, <2>4 DEF Layer
  <2>7. /\ a.strokes = ss /\ a.current = l.next /\ a.anchor = l.anchor
        /\ a.inked = l.inked /\ a.stroke_active /\ ~a.paused /\ a.follow = l.follow
        /\ a.drawn = l.drawn /\ a.region = l.region
        /\ a.last_ink = l.last_ink /\ a.tap_anchor = l.tap_anchor
    BY <1>1 DEF Layer
  <2>8. Sound(a)
    BY <2>4, <2>6, <2>7, ConstantsAssumption DEF Safe, Sound, Target
  <2> QED BY <2>2, <2>4, <2>5, <2>7, <2>8 DEF Safe, InFlight
<1> QED BY <1>2, <1>3

\* A press anchors the stroke over the window it hit, and gives it ink.
LEMMA BeginSafe ==
  ASSUME NEW l, Safe(l), ~l.paused, NEW t \in Target,
         NEW inside \in BOOLEAN, NEW erase \in BOOLEAN,
         erase \/ l.next <= MaxStroke
  PROVE  LET b == begin_stroke(l, t, inside, erase)
         IN /\ Safe(b)
            /\ b.inked = IF t \in Window THEN l.inked \cup {t} ELSE l.inked
            /\ t \in b.inked \cup {Desktop}
<1> DEFINE e == ensure_window_ink(l, t)
           b == [e EXCEPT !.anchor = t, !.current = NoStroke,
                          !.stroke_active = TRUE,
                          !.follow = ~erase /\ inside /\ HasRegion(l, t)]
           c == [b EXCEPT !.last_ink = t, !.last_ink_present = TRUE]
<1>1. l \in Layer
  BY DEF Safe, Sound
<1>2. /\ e \in Layer
      /\ e.inked = IF t \in Window THEN l.inked \cup {t} ELSE l.inked
      /\ t \in e.inked \cup {Desktop}
      /\ Sound(e) /\ ~e.paused /\ e.next = l.next
  BY <1>1, SMTT(60) DEF ensure_window_ink, Layer, Target, Safe, Sound
<1> HIDE DEF e
<1>3. (~erase /\ inside /\ HasRegion(l, t)) \in BOOLEAN
  OBVIOUS
<1>4. /\ b \in Layer /\ Safe(b) /\ b.inked = e.inked /\ b.next = e.next
      /\ b.stroke_active /\ ~b.paused
  <2> DEFINE fl == ~erase /\ inside /\ HasRegion(l, t)
  <2>1. e \in Layer /\ fl \in BOOLEAN /\ NoStroke \in StrokeId \cup {NoStroke}
    BY <1>2, <1>3
  <2> HIDE DEF fl
  <2>2. b \in Layer
    BY <2>1, ZenonT(60) DEF Layer
  <2>3. /\ b.anchor = t /\ b.current = NoStroke /\ b.stroke_active
        /\ b.inked = e.inked /\ b.next = e.next /\ b.paused = e.paused
    BY <2>1 DEF Layer
  <2>4. /\ b.strokes = e.strokes /\ b.drawn = e.drawn /\ b.region = e.region
        /\ b.last_ink = e.last_ink /\ b.tap_anchor = e.tap_anchor
    BY <2>1 DEF Layer
  <2> HIDE DEF b
  <2>5. Sound(b)
    BY <1>2, <2>2, <2>3, <2>4 DEF Sound
  <2> QED BY <1>2, <2>2, <2>3, <2>5 DEF Safe, InFlight
<1>5. begin_stroke(l, t, inside, erase) = IF erase THEN b ELSE append_ink_point(c)
  BY DEF begin_stroke, e
<1> HIDE DEF b
<1>6. /\ Safe(c) /\ c.inked = e.inked /\ c.next = e.next
      /\ c.stroke_active /\ ~c.paused
  <2>1. c \in Layer
    BY <1>4 DEF Layer
  <2>2. /\ c.last_ink = t /\ c.tap_anchor = b.tap_anchor /\ c.anchor = b.anchor
        /\ c.inked = b.inked /\ c.next = b.next /\ c.paused = b.paused
    BY <1>4 DEF Layer
  <2>3. /\ c.strokes = b.strokes /\ c.drawn = b.drawn /\ c.region = b.region
        /\ c.stroke_active = b.stroke_active /\ c.current = b.current
    BY <1>4 DEF Layer
  <2> HIDE DEF c
  <2>4. Sound(c)
    BY <1>2, <1>4, <2>1, <2>2, <2>3 DEF Safe, Sound
  <2>5. InFlight(c)
    BY <1>4, <2>2, <2>3 DEF Safe, InFlight
  <2> QED BY <1>2, <1>4, <2>2, <2>3, <2>4, <2>5 DEF Safe
<1> HIDE DEF c
<1>7. CASE erase
  BY <1>2, <1>4, <1>5, <1>7
<1>8. CASE ~erase
  BY <1>2, <1>5, <1>6, <1>8, AppendSafe
<1> QED BY <1>7, <1>8

\* An ink segment paints in the anchor's surface only.
LEMMA InkSegmentSafe ==
  ASSUME NEW l, Safe(l), l.stroke_active, ~l.paused,
         l.current # NoStroke \/ l.next <= MaxStroke
  PROVE  Safe(ink_segment(l)) /\ ink_segment(l).inked = l.inked
<1> DEFINE a == append_ink_point(l)
           f == PaintFrame(a, a.anchor, a.follow)
           d == [a.drawn EXCEPT ![a.anchor] =
                   @ \cup {[stroke |-> a.current, frame |-> f]}]
           o == a.owed \cup {"ink"}
           r == [a EXCEPT !.drawn = d, !.owed = o]
<1>1. Safe(a) /\ a.inked = l.inked /\ a.current \in StrokeId
  BY AppendSafe
<1>2. ink_segment(l) = r
  BY Zenon DEF ink_segment
<1> HIDE DEF a
<1>3. a \in Layer /\ a.anchor \in Target /\ a.follow \in BOOLEAN
  BY <1>1 DEF Safe, Sound, Layer
<1>4. f \in Frame
  BY <1>3, FrameType
<1> HIDE DEF f
<1>5. /\ d \in [Target -> SUBSET Image]
      /\ \A t \in Target : t # a.anchor => d[t] = a.drawn[t]
  BY <1>1, <1>3, <1>4 DEF Layer, Image
<1>6. o \in SUBSET Cause
  BY <1>3 DEF Layer, Cause
<1> HIDE DEF d, o
<1>7. r \in Layer
  BY <1>3, <1>5, <1>6 DEF Layer
<1>8. /\ r.anchor = a.anchor /\ r.inked = a.inked /\ r.strokes = a.strokes
      /\ r.current = a.current /\ r.stroke_active = a.stroke_active
      /\ r.paused = a.paused /\ r.region = a.region /\ r.drawn = d
      /\ r.last_ink = a.last_ink /\ r.tap_anchor = a.tap_anchor
  BY <1>3 DEF Layer
<1> QED BY <1>1, <1>2, <1>5, <1>7, <1>8, ConstantsAssumption
        DEF Safe, Sound, InFlight, Target

\* An eraser segment ends the stroke in flight before it deletes strokes.
LEMMA EraseSegmentSafe ==
  ASSUME NEW l, Safe(l), NEW hit
  PROVE  Safe(erase_segment(l, hit)) /\ erase_segment(l, hit).inked = l.inked
<1> DEFINE c == [l EXCEPT !.current = NoStroke]
           e == [c EXCEPT !.strokes[l.anchor] = @ \ hit]
<1>1. /\ Safe(c) /\ c.inked = l.inked /\ c \in Layer /\ l.anchor \in Target
      /\ c.current = NoStroke
  BY DEF Safe, Sound, InFlight, Layer, NoStroke
<1> HIDE DEF c
<1>2. Safe(e) /\ e.inked = c.inked /\ e \in Layer
  BY <1>1, ZenonT(60) DEF Safe, Sound, InFlight, Layer, Target
<1> HIDE DEF e
<1>3. /\ Safe(rasterize_all_strokes(e, {l.anchor}))
      /\ rasterize_all_strokes(e, {l.anchor}).inked = e.inked
  BY <1>2, RasterSafe
<1> QED BY <1>1, <1>2, <1>3 DEF erase_segment, c, e

\* A segment of either kind.
LEMMA ContinueSafe ==
  ASSUME NEW l, Safe(l), l.stroke_active, ~l.paused, NEW hit,
         NEW erase \in BOOLEAN,
         erase \/ l.current # NoStroke \/ l.next <= MaxStroke
  PROVE  /\ Safe(continue_stroke(l, erase, hit))
         /\ continue_stroke(l, erase, hit).inked = l.inked
<1>1. CASE erase
  BY <1>1, EraseSegmentSafe, ScheduleSafe DEF continue_stroke
<1>2. CASE ~erase
  BY <1>2, InkSegmentSafe, ScheduleSafe DEF continue_stroke
<1> QED BY <1>1, <1>2

\* Ending the stroke in flight.
LEMMA EndSafe ==
  ASSUME NEW l, Safe(l)
  PROVE  Safe(end_stroke(l)) /\ end_stroke(l).inked = l.inked
  BY DropSafe, ScheduleSafe DEF end_stroke, Safe

-----------------------------------------------------------------------------
(* Clearing                                                                *)

\* Forgetting what undo would pop.
LEMMA ForgetSafe ==
  ASSUME NEW l, Safe(l)
  PROVE  LET f == [l EXCEPT !.last_ink = Desktop, !.last_ink_present = FALSE]
         IN Safe(f) /\ f.inked = l.inked /\ f.anchor = l.anchor
  BY ZenonT(60) DEF Safe, Sound, InFlight, Layer, Target

\* Forgetting a pending tap.
LEMMA CancelTapSafe ==
  ASSUME NEW l, Safe(l)
  PROVE  /\ Safe(cancel_tap_pending(l))
         /\ cancel_tap_pending(l).inked = l.inked
         /\ cancel_tap_pending(l).anchor = l.anchor
         /\ cancel_tap_pending(l).last_ink = l.last_ink
         /\ cancel_tap_pending(l).tap_anchor = Desktop
  BY ZenonT(60) DEF Safe, Sound, InFlight, Layer, Target, cancel_tap_pending

\* Clear leaves no stroke, hence none in flight.
LEMMA ClearSafe ==
  ASSUME NEW l, Safe(l)
  PROVE  /\ Safe(meta_annotation_layer_clear(l))
         /\ meta_annotation_layer_clear(l).inked = l.inked
<1> DEFINE d == DropStroke(l)
           none == [t \in Target |-> {}]
           o == d.owed \cup {"ink"}
           c == [d EXCEPT !.strokes = none, !.drawn = none, !.owed = o,
                          !.last_ink = Desktop, !.last_ink_present = FALSE,
                          !.idle = FALSE]
<1>1. Safe(d) /\ d.inked = l.inked /\ d.current = NoStroke
  BY DropSafe, ZenonT(60) DEF Safe, Sound, DropStroke, Layer
<1>2. meta_annotation_layer_clear(l) = recompose(c)
  BY Zenon DEF meta_annotation_layer_clear
<1> HIDE DEF d
<1>3. /\ none \in [Target -> SUBSET StrokeId] /\ none \in [Target -> SUBSET Image]
      /\ \A t \in Target : none[t] = {}
  OBVIOUS
<1>4. o \in SUBSET Cause
  BY <1>1 DEF Safe, Sound, Layer, Cause
<1> HIDE DEF none, o
<1>5. Safe(c) /\ c.inked = d.inked
  <2>1. d \in Layer /\ Desktop \in Target
    BY <1>1 DEF Safe, Sound, Target
  <2>2. c \in Layer
    BY <1>3, <1>4, <2>1, ZenonT(60) DEF Layer
  <2>3. /\ c.anchor = d.anchor /\ c.current = d.current /\ c.paused = d.paused
        /\ c.stroke_active = d.stroke_active /\ c.inked = d.inked
    BY <2>1, ZenonT(60) DEF Layer
  <2>4. /\ c.strokes = none /\ c.drawn = none /\ c.region = d.region
        /\ c.last_ink = Desktop /\ c.tap_anchor = d.tap_anchor
    BY <2>1, ZenonT(60) DEF Layer
  <2> HIDE DEF c
  <2>5. Sound(c)
    BY <1>1, <1>3, <2>2, <2>3, <2>4 DEF Safe, Sound, Target
  <2> QED BY <1>1, <2>3, <2>5 DEF Safe, InFlight
<1> HIDE DEF c
<1> QED BY <1>1, <1>2, <1>5, RecomposeSafe

\* Clearing a target drops the stroke in flight if it lives there.
LEMMA ClearAnchorSafe ==
  ASSUME NEW l, Safe(l), NEW t \in Target
  PROVE  /\ Safe(clear_ink_for_anchor(l, t))
         /\ clear_ink_for_anchor(l, t).inked = l.inked
<1> DEFINE w == WipeTarget(l, t)
           c == IF l.anchor = t THEN DropStroke(w) ELSE w
           f == [c EXCEPT !.last_ink = Desktop, !.last_ink_present = FALSE]
<1>1. Safe(c) /\ c.inked = l.inked
  BY WipeSafe, DropSafe DEF Safe, Sound
<1>2. Safe(f) /\ f.inked = l.inked
  BY <1>1, ForgetSafe
<1>3. clear_ink_for_anchor(l, t) = schedule_recompose(IF l.last_ink = t THEN f ELSE c)
  BY Zenon DEF clear_ink_for_anchor
<1> HIDE DEF c, f
<1> QED BY <1>1, <1>2, <1>3, ScheduleSafe

\* A tap that completes a gesture clears a target, or everything.
LEMMA TapReleaseSafe ==
  ASSUME NEW l, Safe(l), NEW g \in {"none", "triple", "quad"}
  PROVE  /\ Safe(note_tap_release(l, g))
         /\ note_tap_release(l, g).inked = l.inked
<1>1. l.tap_anchor \in Target
  BY DEF Safe, Sound, Layer
<1>2. Safe(cancel_tap_pending(l)) /\ cancel_tap_pending(l).inked = l.inked
  BY CancelTapSafe
<1>3. CASE g = "none"
  BY <1>2, <1>3 DEF note_tap_release
<1>4. CASE g = "triple"
  BY <1>1, <1>2, <1>4, ClearAnchorSafe DEF note_tap_release
<1>5. CASE g = "quad"
  BY <1>2, <1>5, ClearSafe DEF note_tap_release
<1> QED BY <1>3, <1>4, <1>5

\* Undo severs the stroke in flight before it deletes the newest stroke of
\* the same array.
LEMMA UndoSafe ==
  ASSUME NEW l, Safe(l)
  PROVE  /\ Safe(meta_annotation_layer_undo_last(l))
         /\ meta_annotation_layer_undo_last(l).inked = l.inked
<1> DEFINE t == l.last_ink
           cut == IF l.stroke_active /\ l.anchor = t THEN SealStroke(l) ELSE l
           rest == l.strokes[t] \ {Newest(l.strokes[t])}
           popped == [cut EXCEPT !.strokes[t] = rest]
           undone == rasterize_all_strokes(popped, {t})
           forget(m) == [m EXCEPT !.last_ink = Desktop, !.last_ink_present = FALSE]
<1>1. /\ Safe(cut) /\ cut.inked = l.inked /\ cut.strokes = l.strokes
      /\ cut.current # NoStroke => cut.anchor # t
  <2>1. CASE l.stroke_active /\ l.anchor = t
    <3>1. Safe(SealStroke(l)) /\ SealStroke(l).inked = l.inked
      BY DropSafe DEF Safe
    <3>2. SealStroke(l).strokes = l.strokes /\ SealStroke(l).current = NoStroke
      BY DEF SealStroke, DropStroke, Safe, Sound, Layer
    <3> QED BY <2>1, <3>1, <3>2
  <2>2. CASE ~(l.stroke_active /\ l.anchor = t)
    BY <2>2 DEF Safe, InFlight
  <2> QED BY <2>1, <2>2
<1>2. t \in Target /\ rest \subseteq l.strokes[t]
  BY DEF Safe, Sound, Layer
<1>3. /\ meta_annotation_layer_undo_last(l) =
         IF ~l.last_ink_present THEN l
         ELSE IF l.strokes[t] = {} THEN schedule_recompose(forget(l))
         ELSE schedule_recompose(IF rest = {} THEN forget(undone) ELSE undone)
  BY Zenon DEF meta_annotation_layer_undo_last
<1> HIDE DEF cut, rest
<1>4. Safe(popped) /\ popped.inked = l.inked /\ popped \in Layer
  <2> DEFINE s == [cut.strokes EXCEPT ![t] = rest]
  <2>0. cut \in Layer /\ popped = [cut EXCEPT !.strokes = s]
    BY <1>1 DEF Safe, Sound, Layer
  <2>1. /\ s \in [Target -> SUBSET StrokeId]
        /\ \A u \in Target : s[u] \subseteq cut.strokes[u]
        /\ \A u \in Target : u # t => s[u] = cut.strokes[u]
    BY <1>1, <1>2, <2>0 DEF Layer
  <2> HIDE DEF s, popped
  <2>2. popped \in Layer
    BY <2>0, <2>1, ZenonT(60) DEF Layer
  <2>3. /\ popped.anchor = cut.anchor /\ popped.current = cut.current
        /\ popped.paused = cut.paused /\ popped.stroke_active = cut.stroke_active
        /\ popped.inked = cut.inked
    BY <2>0, ZenonT(60) DEF Layer
  <2>4. /\ popped.strokes = s /\ popped.drawn = cut.drawn
        /\ popped.region = cut.region /\ popped.last_ink = cut.last_ink
        /\ popped.tap_anchor = cut.tap_anchor
    BY <2>0, ZenonT(60) DEF Layer
  <2>5. Sound(popped)
    BY <1>1, <2>1, <2>2, <2>3, <2>4 DEF Safe, Sound, Target
  <2>6. InFlight(popped)
    BY <1>1, <2>1, <2>2, <2>3, <2>4 DEF Safe, InFlight, Layer
  <2> QED BY <1>1, <2>2, <2>3, <2>5, <2>6 DEF Safe
<1> HIDE DEF popped
<1>5. Safe(undone) /\ undone.inked = l.inked
  BY <1>4, RasterSafe
<1> HIDE DEF undone
<1>6. /\ Safe(forget(undone)) /\ forget(undone).inked = l.inked
      /\ Safe(forget(l)) /\ forget(l).inked = l.inked
  BY <1>5, ForgetSafe
<1> HIDE DEF forget
<1> QED BY <1>3, <1>5, <1>6, ScheduleSafe

-----------------------------------------------------------------------------
(* Setters                                                                 *)

\* Activation changes what undo pops, and whether the actor shows.
LEMMA SetActiveSafe ==
  ASSUME NEW l, Safe(l), NEW on \in BOOLEAN
  PROVE  /\ Safe(meta_annotation_layer_set_active(l, on))
         /\ meta_annotation_layer_set_active(l, on).inked = l.inked
<1> DEFINE a == [l EXCEPT !.active = TRUE]
           i == [l EXCEPT !.active = FALSE, !.barrel = {}, !.current = NoStroke,
                          !.last_ink = Desktop, !.last_ink_present = FALSE]
<1>1. Safe(a) /\ a.inked = l.inked
  BY DEF Safe, Sound, InFlight, Layer
<1>2. Safe(i) /\ i.inked = l.inked
  BY ZenonT(60) DEF Safe, Sound, InFlight, Layer, Target, NoStroke
<1>3. meta_annotation_layer_set_active(l, on)
        = update_actor_visibility(IF on THEN a ELSE i)
  BY Zenon DEF meta_annotation_layer_set_active
<1> HIDE DEF a, i
<1> QED BY <1>1, <1>2, <1>3, VisibilitySafe

\* A pause drops the stroke in flight; so no stroke is active when paused.
LEMMA SetPausedSafe ==
  ASSUME NEW l, Safe(l), NEW on \in BOOLEAN
  PROVE  /\ Safe(meta_annotation_layer_set_paused(l, on))
         /\ meta_annotation_layer_set_paused(l, on).inked = l.inked
<1> DEFINE cut == IF l.stroke_active THEN DropStroke(l) ELSE l
           p == [cut EXCEPT !.paused = TRUE, !.barrel = {}]
           q == [l EXCEPT !.paused = on]
<1>1. Safe(cut) /\ cut.inked = l.inked /\ ~cut.stroke_active /\ cut.current = NoStroke
  <2>1. CASE l.stroke_active
    BY <2>1, DropSafe, DropFields DEF Safe, Sound
  <2>2. CASE ~l.stroke_active
    BY <2>2 DEF Safe, InFlight
  <2> QED BY <2>1, <2>2
<1>2. meta_annotation_layer_set_paused(l, on)
        = update_actor_visibility(IF on /\ ~l.paused THEN p ELSE q)
  BY Zenon DEF meta_annotation_layer_set_paused
<1> HIDE DEF cut
<1>3. Safe(p) /\ p.inked = l.inked
  BY <1>1, ZenonT(60) DEF Safe, Sound, InFlight, Layer
<1>4. ~(on /\ ~l.paused) => Safe(q) /\ q.inked = l.inked
  BY DEF Safe, Sound, InFlight, Layer
<1> HIDE DEF p, q
<1> QED BY <1>2, <1>3, <1>4, VisibilitySafe

\* Publishing a region gives its windows a WindowInk and seals their stroke.
LEMMA SetRegionSafe ==
  ASSUME NEW l, Safe(l), NEW W \in SUBSET Window, NEW r \in Region \cup {NoRegion}
  PROVE  LET m == meta_annotation_layer_set_window_editor_region(l, W, r)
         IN Safe(m) /\ m.inked = l.inked \cup W
<1> DEFINE n == l.inked \cup W
           g == [w \in Window |-> IF w \in W THEN r ELSE l.region[w]]
           c == [l EXCEPT !.inked = n, !.region = g]
           cut == IF l.stroke_active /\ l.anchor \in W THEN SealStroke(c) ELSE c
           moved == {w \in W : l.region[w] # NoRegion \/ r # NoRegion}
<1>1. l \in Layer
  BY DEF Safe, Sound
<1>2. n \in SUBSET Window /\ g \in [Window -> Region \cup {NoRegion}]
  BY <1>1 DEF Layer
<1>3. \A w \in Window \ n : g[w] = l.region[w] /\ w \notin l.inked
  OBVIOUS
<1>4. meta_annotation_layer_set_window_editor_region(l, W, r)
        = schedule_recompose(rasterize_all_strokes(cut, moved))
  BY Zenon DEF meta_annotation_layer_set_window_editor_region
<1>5. n = l.inked \cup W
  OBVIOUS
<1> HIDE DEF n, g, moved
<1>6. Safe(c) /\ c.inked = n
  BY <1>1, <1>2, <1>3, <1>5 DEF Safe, Sound, InFlight, Layer
<1> HIDE DEF c
<1>7. Safe(cut) /\ cut.inked = n
  BY <1>6, DropSafe DEF Safe
<1> HIDE DEF cut
<1>8. /\ Safe(rasterize_all_strokes(cut, moved))
      /\ rasterize_all_strokes(cut, moved).inked = n
  BY <1>7, RasterSafe DEF Safe, Sound
<1> QED BY <1>4, <1>5, <1>8, ScheduleSafe

\* A scroll moves content-space strokes and seals one in flight.
LEMMA SetScrollSafe ==
  ASSUME NEW l, Safe(l), NEW W, NEW s \in Scroll
  PROVE  /\ Safe(meta_annotation_layer_set_window_scroll(l, W, s))
         /\ meta_annotation_layer_set_window_scroll(l, W, s).inked = l.inked
<1> DEFINE moved == {w \in W \cap l.inked : l.scroll[w] # s}
           g == [w \in Window |-> IF w \in moved THEN s ELSE l.scroll[w]]
           c == [l EXCEPT !.scroll = g]
           cut == IF l.stroke_active /\ l.anchor \in moved /\ l.follow
                    THEN SealStroke(c) ELSE c
<1>1. l \in Layer
  BY DEF Safe, Sound
<1>2. g \in [Window -> Scroll]
  BY <1>1 DEF Layer
<1>3. meta_annotation_layer_set_window_scroll(l, W, s)
        = schedule_recompose(rasterize_all_strokes(cut, moved))
  BY Zenon DEF meta_annotation_layer_set_window_scroll
<1> HIDE DEF g, moved
<1>4. Safe(c) /\ c.inked = l.inked
  BY <1>1, <1>2 DEF Safe, Sound, InFlight, Layer
<1> HIDE DEF c
<1>5. Safe(cut) /\ cut.inked = l.inked
  BY <1>4, DropSafe DEF Safe
<1> HIDE DEF cut
<1>6. /\ Safe(rasterize_all_strokes(cut, moved))
      /\ rasterize_all_strokes(cut, moved).inked = l.inked
  BY <1>5, RasterSafe DEF Safe, Sound
<1> QED BY <1>3, <1>6, ScheduleSafe

-----------------------------------------------------------------------------
(* Signals                                                                 *)

\* Marking the composite stale changes the history only.
LEMMA OweSafe ==
  ASSUME NEW l, Safe(l), NEW c \in Cause
  PROVE  LET m == [l EXCEPT !.owed = @ \cup {c}]
         IN Safe(m) /\ m.inked = l.inked
<1>1. l \in Layer /\ l.owed \cup {c} \in SUBSET Cause
  BY DEF Safe, Sound, Layer
<1> QED BY <1>1 DEF Safe, Sound, InFlight, Layer

\* The last signal of a window drops every pointer to it before its WindowInk.
LEMMA UnmanagedSafe ==
  ASSUME NEW l, Safe(l), NEW w \in Window
  PROVE  LET m == on_window_unmanaged(l, w)
         IN Safe(m) /\ m.inked = l.inked \ {w}
<1> DEFINE cut == IF l.anchor = w THEN DropStroke(l) ELSE l
           undo == IF l.last_ink = w
                     THEN [cut EXCEPT !.last_ink = Desktop,
                                      !.last_ink_present = FALSE]
                     ELSE cut
           tap == IF l.tap_anchor = w THEN cancel_tap_pending(undo) ELSE undo
           wiped == WipeTarget(tap, w)
           n == wiped.inked \ {w}
           g == [wiped.region EXCEPT ![w] = NoRegion]
           sc == [wiped.scroll EXCEPT ![w] = 0]
           o == wiped.owed \cup {"layout"}
           m == [wiped EXCEPT !.inked = n, !.region = g, !.scroll = sc, !.owed = o]
<1>0. w # Desktop /\ w \in Target
  BY ConstantsAssumption DEF Target
<1>1. /\ Safe(cut) /\ cut.inked = l.inked /\ cut.anchor # w
      /\ cut.last_ink = l.last_ink /\ cut.tap_anchor = l.tap_anchor
  BY <1>0, DropSafe, DropFields DEF Safe, Sound
<1> HIDE DEF cut
<1>2. /\ Safe(undo) /\ undo.inked = l.inked /\ undo.anchor # w
      /\ undo.last_ink # w /\ undo.tap_anchor = l.tap_anchor
  <2> DEFINE f == [cut EXCEPT !.last_ink = Desktop, !.last_ink_present = FALSE]
  <2>1. Safe(f) /\ f.inked = l.inked /\ f.anchor # w
    BY <1>1, ForgetSafe
  <2>2. f.last_ink = Desktop /\ f.tap_anchor = l.tap_anchor
    BY <1>1 DEF Safe, Sound, Layer
  <2>3. undo = IF l.last_ink = w THEN f ELSE cut
    OBVIOUS
  <2> HIDE DEF f, undo
  <2> QED BY <1>0, <1>1, <2>1, <2>2, <2>3
<1> HIDE DEF undo
<1>3. /\ Safe(tap) /\ tap.inked = l.inked /\ tap.anchor # w
      /\ tap.last_ink # w /\ tap.tap_anchor # w
  BY <1>0, <1>2, CancelTapSafe
<1> HIDE DEF tap
<1>4. /\ Safe(wiped) /\ wiped.inked = l.inked /\ wiped.anchor # w
      /\ wiped.last_ink # w /\ wiped.tap_anchor # w
      /\ wiped.strokes[w] = {} /\ wiped.drawn[w] = {}
  BY <1>0, <1>3, WipeSafe, WipeFields DEF Safe, Sound
<1>5. on_window_unmanaged(l, w) = schedule_recompose(m)
  BY <1>0, ZenonT(60) DEF on_window_unmanaged, cut, undo, tap
<1> HIDE DEF wiped
<1>6. /\ n \in SUBSET Window /\ g \in [Window -> Region \cup {NoRegion}]
      /\ sc \in [Window -> Scroll] /\ o \in SUBSET Cause
      /\ g[w] = NoRegion /\ \A v \in Window : v # w => g[v] = wiped.region[v]
      /\ n = wiped.inked \ {w}
  BY <1>4, ConstantsAssumption DEF Safe, Sound, Layer, Cause
<1> HIDE DEF n, g, sc, o
<1>7. wiped \in Layer
  BY <1>4 DEF Safe, Sound
<1>8. m \in Layer
  BY <1>6, <1>7 DEF Layer
<1>9. /\ m.anchor = wiped.anchor /\ m.strokes = wiped.strokes
      /\ m.drawn = wiped.drawn /\ m.current = wiped.current
      /\ m.stroke_active = wiped.stroke_active /\ m.paused = wiped.paused
      /\ m.last_ink = wiped.last_ink /\ m.tap_anchor = wiped.tap_anchor
      /\ m.inked = n /\ m.region = g
  BY <1>7 DEF Layer
<1> HIDE DEF m
<1>10. Safe(m)
  BY <1>4, <1>6, <1>8, <1>9 DEF Safe, Sound, InFlight
<1> QED BY <1>4, <1>9, <1>10, <1>5, <1>6, <1>7, ScheduleSafe

\* A stage resize replaces the buffers and drops the stroke in flight.
LEMMA StageSafe ==
  ASSUME NEW l, Safe(l), NEW sized \in BOOLEAN
  PROVE  /\ Safe(on_stage_size_changed(l, sized))
         /\ on_stage_size_changed(l, sized).inked = l.inked
<1> DEFINE b == [l EXCEPT !.surface = TRUE]
           r == rasterize_all_strokes(b, {Desktop})
           fresh == [r EXCEPT !.owed = @ \cup {"layout"}]
           m == IF sized THEN schedule_recompose(fresh) ELSE l
<1>1. Safe(b) /\ b.inked = l.inked /\ b \in Layer
  BY ZenonT(60) DEF Safe, Sound, InFlight, Layer
<1>2. Safe(r) /\ r.inked = l.inked
  BY <1>1, RasterSafe
<1>3. Safe(fresh) /\ fresh.inked = l.inked
  BY <1>2, OweSafe DEF Cause
<1>4. on_stage_size_changed(l, sized) = DropStroke(m)
  BY Zenon DEF on_stage_size_changed
<1> HIDE DEF fresh
<1>5. Safe(m) /\ m.inked = l.inked
  BY <1>3, ScheduleSafe
<1> HIDE DEF m
<1> QED BY <1>4, <1>5, DropSafe DEF Safe

\* A window that moved.
LEMMA MovedSafe ==
  ASSUME NEW l, Safe(l), NEW w \in Window
  PROVE  Safe(window_moved(l, w)) /\ window_moved(l, w).inked = l.inked
<1>1. /\ Safe([l EXCEPT !.owed = @ \cup {"layout"}])
      /\ [l EXCEPT !.owed = @ \cup {"layout"}].inked = l.inked
  BY OweSafe DEF Cause
<1>2. /\ Safe([l EXCEPT !.owed = @ \cup {"bystander"}])
      /\ [l EXCEPT !.owed = @ \cup {"bystander"}].inked = l.inked
  BY OweSafe DEF Cause
<1> QED BY <1>1, <1>2, ScheduleSafe DEF window_moved

-----------------------------------------------------------------------------
(* The invariant of the specification                                      *)

\* The freshly allocated struct, sized to the stage or not.
LEMMA InitInv == Init => Inv
<1> SUFFICES ASSUME Init PROVE Inv
  OBVIOUS
<1>1. NewLayer \in Layer
  BY ConstantsAssumption
  DEF NewLayer, Layer, Target, StrokeId, NoStroke, Stroke, NullStroke, Frame,
      Pinned, Image, Cause
<1>2. Safe(NewLayer) /\ NewLayer.inked = {}
  BY <1>1 DEF Safe, Sound, InFlight, NewLayer, NoStroke, Target
<1>3. PICK sized \in BOOLEAN : layer = on_stage_size_changed(NewLayer, sized)
  BY DEF Init
<1>4. Safe(layer) /\ layer.inked = {}
  BY <1>2, <1>3, StageSafe
<1> QED BY <1>4 DEF Inv, Init

\* Events of the pens, fingers and mice that draw.
LEMMA PenEventInv == Inv /\ PenEvent => Inv'
<1> SUFFICES ASSUME Inv, PenEvent PROVE Inv'
  OBVIOUS
<1> USE DEF Inv
<1>1. layer \in Layer /\ Safe(layer)
  BY DEF Safe, Sound
<1>2. ASSUME NEW b \in Barrel, BarrelPress(b) \/ BarrelRelease(b) PROVE Inv'
  <2>1. /\ Safe([layer EXCEPT !.barrel = @ \cup {b}])
        /\ [layer EXCEPT !.barrel = @ \cup {b}].inked = layer.inked
    BY <1>1, <1>2 DEF Safe, Sound, InFlight, Layer
  <2>2. /\ Safe([layer EXCEPT !.barrel = @ \ {b}])
        /\ [layer EXCEPT !.barrel = @ \ {b}].inked = layer.inked
    BY <1>1 DEF Safe, Sound, InFlight, Layer
  <2> QED BY <1>2, <2>1, <2>2 DEF BarrelPress, BarrelRelease
<1>3. ASSUME NEW t \in Target, NEW inside \in BOOLEAN, NEW tip \in EraserTip,
             Press(t, inside, tip)
      PROVE  Inv'
  <2> DEFINE b == begin_stroke(layer, t, inside, erase_is_active(layer, tip))
             m == [b EXCEPT !.pending_tap = TRUE, !.tap_anchor = t]
  <2>1. erase_is_active(layer, tip) \in BOOLEAN
    BY <1>1, ConstantsAssumption DEF erase_is_active
  <2>2. /\ Safe(b) /\ t \in b.inked \cup {Desktop}
        /\ b.inked = IF t \in Window THEN layer.inked \cup {t} ELSE layer.inked
    <3>1. /\ ~layer.paused
          /\ erase_is_active(layer, tip) \/ layer.next <= MaxStroke
      BY <1>3 DEF Press, Receives, Visible, Room
    <3> QED BY <1>1, <2>1, <3>1, BeginSafe, ZenonT(60)
  <2>3. layer' = m /\ managed' = managed /\ t \in managed \cup {Desktop}
    BY <1>3 DEF Press, pick_anchor_window
  <2> HIDE DEF b
  <2>4. Safe(m) /\ m.inked = b.inked
    BY <2>2, ZenonT(60) DEF Safe, Sound, InFlight, Layer
  <2> HIDE DEF m
  <2> QED BY <2>2, <2>3, <2>4, ConstantsAssumption
<1>4. ASSUME NEW t \in Target, NEW inside \in BOOLEAN, NEW tip \in EraserTip,
             MotionBegins(t, inside, tip)
      PROVE  Inv'
  <2> DEFINE b == begin_stroke(layer, t, inside, erase_is_active(layer, tip))
  <2>1. erase_is_active(layer, tip) \in BOOLEAN
    BY <1>1, ConstantsAssumption DEF erase_is_active
  <2>2. /\ Safe(b)
        /\ b.inked = IF t \in Window THEN layer.inked \cup {t} ELSE layer.inked
    <3>1. /\ ~layer.paused
          /\ erase_is_active(layer, tip) \/ layer.next <= MaxStroke
      BY <1>4 DEF MotionBegins, Receives, Visible, Room
    <3> QED BY <1>1, <2>1, <3>1, BeginSafe, ZenonT(60)
  <2>3. layer' = cancel_tap_pending(b) /\ managed' = managed
        /\ t \in managed \cup {Desktop}
    BY <1>4 DEF MotionBegins, pick_anchor_window
  <2> HIDE DEF b
  <2>4. Safe(cancel_tap_pending(b)) /\ cancel_tap_pending(b).inked = b.inked
    BY <2>2, CancelTapSafe
  <2> QED BY <2>2, <2>3, <2>4, ConstantsAssumption
<1>5. ASSUME NEW tip \in EraserTip, NEW drift \in BOOLEAN, NEW down \in BOOLEAN,
             NEW hit \in SUBSET StrokeId, MotionContinues(tip, hit, drift, down)
      PROVE  Inv'
  <2> DEFINE d == continue_stroke(layer, erase_is_active(layer, tip), hit)
             c == IF drift THEN cancel_tap_pending(d) ELSE d
  <2>1. erase_is_active(layer, tip) \in BOOLEAN
    BY <1>1, ConstantsAssumption DEF erase_is_active
  <2>2. Safe(d) /\ d.inked = layer.inked
    BY <1>1, <1>5, <2>1, ContinueSafe
    DEF MotionContinues, Receives, Visible, Room
  <2>3. layer' = (IF down THEN c ELSE end_stroke(c)) /\ managed' = managed
    BY <1>5 DEF MotionContinues
  <2> HIDE DEF d
  <2>4. Safe(c) /\ c.inked = layer.inked
    BY <2>2, CancelTapSafe
  <2> HIDE DEF c
  <2> QED BY <2>3, <2>4, EndSafe
<1>6. ASSUME NEW tip \in EraserTip, NEW hit \in SUBSET StrokeId,
             NEW g \in {"none", "triple", "quad"}, Release(tip, hit, g)
      PROVE  Inv'
  <2> DEFINE d == IF layer.stroke_active
                    THEN continue_stroke(layer, erase_is_active(layer, tip), hit)
                    ELSE layer
  <2>1. erase_is_active(layer, tip) \in BOOLEAN
    BY <1>1, ConstantsAssumption DEF erase_is_active
  <2>2. Safe(d) /\ d.inked = layer.inked
    BY <1>1, <1>6, <2>1, ContinueSafe DEF Release, Receives, Visible, Room
  <2>3. layer' = end_stroke(note_tap_release(d, g)) /\ managed' = managed
    BY <1>6 DEF Release
  <2> HIDE DEF d
  <2> QED BY <2>2, <2>3, TapReleaseSafe, EndSafe
<1>7. CASE TouchCancel
  BY <1>1, <1>7, CancelTapSafe, EndSafe DEF TouchCancel
<1> QED BY <1>2, <1>3, <1>4, <1>5, <1>6, <1>7 DEF PenEvent

\* Calls over D-Bus.
LEMMA CallInv == Inv /\ Call => Inv'
<1> SUFFICES ASSUME Inv, Call PROVE Inv'
  OBVIOUS
<1> USE DEF Inv
<1>1. layer \in Layer /\ Safe(layer)
  BY DEF Safe, Sound
<1>2. CASE Clear \/ UndoLast
  BY <1>2, ClearSafe, UndoSafe DEF Clear, UndoLast
<1>3. ASSUME NEW on \in BOOLEAN, SetActive(on) \/ SetPaused(on) PROVE Inv'
  BY <1>3, SetActiveSafe, SetPausedSafe DEF SetActive, SetPaused
<1>4. ASSUME NEW c \in Colour, SetColor(c) PROVE Inv'
  <2>1. Safe([layer EXCEPT !.rgba = c]) /\ [layer EXCEPT !.rgba = c].inked = layer.inked
    BY <1>1 DEF Safe, Sound, InFlight, Layer
  <2> QED BY <1>4, <2>1 DEF SetColor
<1>5. ASSUME NEW p \in Pid, NEW W \in SUBSET Window,
             NEW r \in Region \cup {NoRegion}, SetWindowEditorRegion(p, W, r)
      PROVE  Inv'
  <2>1. W \subseteq managed
    BY <1>5 DEF SetWindowEditorRegion, WindowsOf
  <2> QED BY <1>5, <2>1, SetRegionSafe DEF SetWindowEditorRegion
<1>6. ASSUME NEW p \in Pid, NEW s \in Scroll, SetWindowScroll(p, s) PROVE Inv'
  BY <1>6, SetScrollSafe DEF SetWindowScroll
<1>7. ASSUME NEW C \in SUBSET Chrome, SetChromeRegions(C) PROVE Inv'
  <2> DEFINE o == IF C = layer.chrome THEN layer.owed ELSE layer.owed \cup {"chrome"}
             m == [layer EXCEPT !.chrome = C, !.owed = o]
  <2>1. o \in SUBSET Cause
    BY <1>1 DEF Layer, Cause
  <2>2. layer' = schedule_recompose(m) /\ managed' = managed
    BY <1>7, Zenon DEF SetChromeRegions
  <2> HIDE DEF o
  <2>3. Safe(m) /\ m.inked = layer.inked
    BY <1>1, <2>1 DEF Safe, Sound, InFlight, Layer
  <2> HIDE DEF m
  <2> QED BY <2>2, <2>3, ScheduleSafe
<1> QED BY <1>2, <1>3, <1>4, <1>5, <1>6, <1>7 DEF Call

\* Signals of windows and of the stage.
LEMMA SignalInv == Inv /\ Signal => Inv'
<1> SUFFICES ASSUME Inv, Signal PROVE Inv'
  OBVIOUS
<1> USE DEF Inv
<1>1. layer \in Layer /\ Safe(layer)
  BY DEF Safe, Sound
<1>2. ASSUME NEW w \in Window, MapWindow(w) PROVE Inv'
  BY <1>2 DEF MapWindow
<1>3. ASSUME NEW w \in Window, UnmanageWindow(w) PROVE Inv'
  BY <1>3, UnmanagedSafe DEF UnmanageWindow
<1>4. ASSUME NEW w \in Window, WindowMoved(w) PROVE Inv'
  BY <1>4, MovedSafe DEF WindowMoved
<1>5. ASSUME NEW w \in Window, WindowResized(w) PROVE Inv'
  <2> DEFINE r == IF w \in layer.inked
                    THEN rasterize_all_strokes(layer, {w}) ELSE layer
  <2>1. Safe(r) /\ r.inked = layer.inked
    BY <1>1, RasterSafe
  <2>2. layer' = window_moved(r, w) /\ managed' = managed
    BY <1>5 DEF WindowResized
  <2> HIDE DEF r
  <2> QED BY <2>1, <2>2, MovedSafe
<1>6. CASE Restacked
  <2> DEFINE m == [layer EXCEPT !.owed = @ \cup {"layout"}]
  <2>1. Safe(m) /\ m.inked = layer.inked
    BY OweSafe DEF Cause
  <2>2. layer' = schedule_recompose(m) /\ managed' = managed
    BY <1>6 DEF Restacked
  <2> HIDE DEF m
  <2> QED BY <2>1, <2>2, ScheduleSafe
<1>7. ASSUME NEW sized \in BOOLEAN, StageResized(sized) PROVE Inv'
  BY <1>7, StageSafe DEF StageResized
<1> QED BY <1>2, <1>3, <1>4, <1>5, <1>6, <1>7 DEF Signal

\* Every step keeps the invariant.
LEMMA NextInv == Inv /\ [Next]_vars => Inv'
<1> SUFFICES ASSUME Inv, [Next]_vars PROVE Inv'
  OBVIOUS
<1>1. CASE RecomposeIdle
  BY <1>1, RecomposeSafe DEF RecomposeIdle, Inv
<1>2. CASE UNCHANGED vars
  BY <1>2 DEF vars, Inv, Safe, Sound, InFlight
<1> QED BY <1>1, <1>2, PenEventInv, CallInv, SignalInv DEF Next

\* The struct, its WindowInk and its Stroke objects satisfy the invariant in
\* every state the main loop reaches.
THEOREM Invariance == Spec => []Inv
<1> QED BY InitInv, NextInv, PTL DEF Spec

\* Every field of the struct keeps its type: the bound on strokes is the only
\* one the model adds.
THEOREM TypeCorrect == Spec => []TypeOK
<1>1. Inv => TypeOK
  BY DEF Inv, Safe, Sound, TypeOK
<1> QED BY <1>1, Invariance, PTL

\* current_stroke never dangles: whatever undo, clear, tap gestures, window
\* close and stage resizes do while the pen is down, it points into the array
\* of the target the pen is anchored to.
THEOREM CurrentStrokeIsLive == Spec => []CurrentStrokeLive
<1>1. Inv => CurrentStrokeLive
  BY DEF Inv, Safe, InFlight, CurrentStrokeLive
<1> QED BY <1>1, Invariance, PTL

\* No pointer to a window outlives on_window_unmanaged, for any number of
\* windows and processes.
THEOREM NoWindowDangles == Spec => []NoDanglingWindow
<1>1. Inv => NoDanglingWindow
  BY DEF Inv, Safe, Sound, NoDanglingWindow
<1> QED BY <1>1, Invariance, PTL

\* A stroke never survives a pause, whatever calls and signals come while
\* paused.
THEOREM PauseSeals == Spec => []PauseSealsStroke
<1>1. Inv => PauseSealsStroke
  BY DEF Inv, Safe, Sound, PauseSealsStroke
<1> QED BY <1>1, Invariance, PTL

-----------------------------------------------------------------------------
(***************************************************************************)
(* What the layer shows: the surfaces carry no image but of the strokes    *)
(* still stored, in the frames they are painted in now, and whatever the   *)
(* uploaded composite lacks is owed a recompose.  Both rest on Safe above  *)
(* and on a strengthening of their own: Debt for the recompose flags, Ink  *)
(* for strokes and surfaces.  Again one lemma for each operator.           *)
(***************************************************************************)

\* The actor is not shown with a recompose owed to its next show, and none is
\* owed before there are buffers.  This holds between any two statements.
Kept(l) == (l.dirty => l.surface) /\ (Visible(l) => ~l.dirty)

Lacks(l) == l.owed \ {"bystander"} # {}

\* What the composite lacks is on its way.
Paid(l) == l.surface /\ Lacks(l) => l.idle \/ l.dirty

\* This holds at the end of a dispatch.
Debt(l) == Kept(l) /\ Paid(l)

\* Ids of stored strokes have been handed out.
Issued(l) == \A t \in Target : \A s \in l.strokes[t] : s < l.next

\* Surfaces show stored strokes only, where they lie now.
Picture(l) == \A t \in Target : l.drawn[t] \subseteq Images(l, t)

\* The stroke in flight is painted as its first point was, and it follows the
\* scroll only over a region.
Frames(l) ==
  /\ l.current # NoStroke =>
       /\ l.heap[l.current].follow_scroll = l.follow
       /\ l.heap[l.current].frame = PaintFrame(l, l.anchor, l.follow)
  /\ l.stroke_active /\ l.follow => HasRegion(l, l.anchor)

Ink(l) == Issued(l) /\ Picture(l) /\ Frames(l)

\* The inductive invariants.
DebtInv == Inv /\ Debt(layer)
InkInv == Inv /\ Ink(layer)

-----------------------------------------------------------------------------
(* Recompose                                                               *)

\* The fields Kept is about.
Flags(l) == <<l.active, l.paused, l.surface, l.dirty>>

\* Those, and the rest of what Paid is about.
Account(l) == <<Flags(l), l.idle, l.owed>>

\* Kept and Debt look at these fields only.
LEMMA SameFlags ==
  ASSUME NEW l, NEW m
  PROVE  /\ Flags(m) = Flags(l) /\ Kept(l) => Kept(m)
         /\ Account(m) = Account(l) /\ Debt(l) => Debt(m)
  BY DEF Flags, Account, Kept, Debt, Paid, Lacks, Visible

\* Scheduling and recomposing set flags only.
LEMMA ScheduleType ==
  ASSUME NEW l \in Layer
  PROVE  schedule_recompose(l) \in Layer /\ recompose(l) \in Layer
<1>1. [l EXCEPT !.idle = TRUE] \in Layer
  BY DEF Layer
<1>2. [l EXCEPT !.dirty = TRUE] \in Layer
  BY DEF Layer
<1>3. [l EXCEPT !.dirty = FALSE, !.owed = {}] \in Layer
  BY DEF Layer
<1> QED BY <1>1, <1>2, <1>3 DEF schedule_recompose, recompose

\* A schedule pays for whatever happened before it.
LEMMA ScheduleDebt ==
  ASSUME NEW l \in Layer, Kept(l)
  PROVE  Debt(schedule_recompose(l))
  BY DEF schedule_recompose, Layer, Kept, Debt, Paid, Visible

\* So does a recompose, even if it drops the idle.
LEMMA RecomposeDebt ==
  ASSUME NEW l \in Layer, Kept(l)
  PROVE  Debt(recompose(l)) /\ Debt(recompose([l EXCEPT !.idle = FALSE]))
<1>1. Debt(recompose(l))
  BY DEF recompose, Layer, Kept, Debt, Paid, Lacks, Visible
<1>2. Debt(recompose([l EXCEPT !.idle = FALSE]))
  <2> DEFINE m == [l EXCEPT !.idle = FALSE]
  <2>1. m \in Layer /\ Kept(m)
    BY DEF Layer, Kept, Visible
  <2> HIDE DEF m
  <2>2. Debt(recompose(m))
    BY <2>1 DEF recompose, Layer, Kept, Debt, Paid, Lacks, Visible
  <2> QED BY <2>2 DEF m
<1> QED BY <1>1, <1>2

\* Showing the actor composes what its hiding left undone.
LEMMA VisibilityDebt ==
  ASSUME NEW l \in Layer, l.dirty => l.surface, Paid(l)
  PROVE  Debt(update_actor_visibility(l))
<1> DEFINE m == [l EXCEPT !.idle = FALSE]
<1>1. /\ m \in Layer /\ m.surface = l.surface /\ m.dirty = l.dirty
      /\ Visible(m) <=> Visible(l)
  BY DEF Layer, Visible
<1>2. update_actor_visibility(l) = IF Visible(l) /\ l.dirty THEN recompose(m) ELSE l
  BY DEF update_actor_visibility
<1> HIDE DEF m
<1>3. ASSUME Visible(l), l.dirty PROVE Debt(recompose(m))
  BY <1>1, <1>3 DEF recompose, Layer, Kept, Debt, Paid, Lacks, Visible
<1>4. ASSUME ~(Visible(l) /\ l.dirty) PROVE Debt(l)
  BY <1>4 DEF Kept, Debt
<1> QED BY <1>2, <1>3, <1>4

\* The operators that neither schedule nor make the composite stale.
LEMMA QuietSteps ==
  ASSUME NEW l \in Layer
  PROVE  /\ DropStroke(l) \in Layer /\ Account(DropStroke(l)) = Account(l)
         /\ SealStroke(l) \in Layer /\ Account(SealStroke(l)) = Account(l)
         /\ cancel_tap_pending(l) \in Layer
         /\ Account(cancel_tap_pending(l)) = Account(l)
         /\ \A t \in Target : Account(ensure_window_ink(l, t)) = Account(l)
         /\ Account(append_ink_point(l)) = Account(l)
<1>0. /\ DropStroke(l) \in Layer /\ SealStroke(l) \in Layer
      /\ cancel_tap_pending(l) \in Layer
  <2>1. DropStroke(l) \in Layer
    BY ZenonT(60) DEF Layer, DropStroke, Target, NoStroke
  <2>2. SealStroke(l) \in Layer
    BY <2>1 DEF Layer, SealStroke
  <2>3. cancel_tap_pending(l) \in Layer
    BY ZenonT(60) DEF Layer, cancel_tap_pending, Target
  <2> QED BY <2>1, <2>2, <2>3
<1>1. Account(DropStroke(l)) = Account(l)
  BY DEF Layer, Account, Flags, DropStroke
<1>2. Account(SealStroke(l)) = Account(l)
  BY DEF Layer, Account, Flags, DropStroke, SealStroke
<1>3. Account(cancel_tap_pending(l)) = Account(l)
  BY DEF Layer, Account, Flags, cancel_tap_pending
<1>4. \A t \in Target : Account(ensure_window_ink(l, t)) = Account(l)
  BY DEF Layer, Account, Flags, ensure_window_ink
<1>5. Account(append_ink_point(l)) = Account(l)
  BY DEF Layer, Account, Flags, append_ink_point
<1> QED BY <1>0, <1>1, <1>2, <1>3, <1>4, <1>5

\* Repaints change the surfaces and the history, not the flags.
LEMMA PaintFlags ==
  ASSUME NEW l \in Layer
  PROVE  /\ \A T : /\ rasterize_all_strokes(l, T) \in Layer
                   /\ Flags(rasterize_all_strokes(l, T)) = Flags(l)
         /\ \A t : Flags(WipeTarget(l, t)) = Flags(l)
<1>1. \A T : Flags(rasterize_all_strokes(l, T)) = Flags(l)
  BY DEF Layer, Flags, rasterize_all_strokes
<1>2. ASSUME NEW T PROVE rasterize_all_strokes(l, T) \in Layer
  <2>1. \A t \in Target : Images(l, t) \subseteq Image
    BY ImagesType
  <2> QED BY <2>1, ZenonT(60) DEF Layer, rasterize_all_strokes, Cause
<1>3. \A t : Flags(WipeTarget(l, t)) = Flags(l)
  BY DEF Layer, Flags, WipeTarget
<1> QED BY <1>1, <1>2, <1>3

\* A press opens a stroke and paints nothing.
LEMMA BeginDebt ==
  ASSUME NEW l, Safe(l), Debt(l), ~l.paused, NEW t \in Target,
         NEW inside \in BOOLEAN, NEW erase \in BOOLEAN,
         erase \/ l.next <= MaxStroke
  PROVE  Debt(begin_stroke(l, t, inside, erase))
<1> DEFINE e == ensure_window_ink(l, t)
           fl == ~erase /\ inside /\ HasRegion(l, t)
           b == [e EXCEPT !.anchor = t, !.current = NoStroke,
                          !.stroke_active = TRUE, !.follow = fl]
           c == [b EXCEPT !.last_ink = t, !.last_ink_present = TRUE]
<1>1. e \in Layer /\ Account(e) = Account(l) /\ fl \in BOOLEAN
  <2>1. l \in Layer
    BY DEF Safe, Sound
  <2>2. e \in Layer
    BY <2>1 DEF ensure_window_ink, Layer
  <2> QED BY <2>1, <2>2, QuietSteps
<1> HIDE DEF e, fl
<1>2. b \in Layer /\ Account(b) = Account(l)
  BY <1>1, ZenonT(60) DEF Layer, Account, Flags
<1>3. begin_stroke(l, t, inside, erase) = IF erase THEN b ELSE append_ink_point(c)
  BY DEF begin_stroke, e, fl
<1> HIDE DEF b
<1>4. c \in Layer /\ Account(c) = Account(l)
  BY <1>2, ZenonT(60) DEF Layer, Account, Flags
<1> HIDE DEF c
<1>5. Account(append_ink_point(c)) = Account(l)
  BY <1>4, QuietSteps
<1> QED BY <1>2, <1>3, <1>5, SameFlags

\* A segment paints, and its recompose is scheduled in the same dispatch.
LEMMA ContinueDebt ==
  ASSUME NEW l, Safe(l), l.stroke_active, ~l.paused, Kept(l),
         NEW hit, NEW erase \in BOOLEAN,
         erase \/ l.current # NoStroke \/ l.next <= MaxStroke
  PROVE  Debt(continue_stroke(l, erase, hit))
<1>1. l \in Layer
  BY DEF Safe, Sound
<1>2. CASE erase
  <2> DEFINE c == [l EXCEPT !.current = NoStroke]
             e == [c EXCEPT !.strokes[l.anchor] = @ \ hit]
  <2>1. c \in Layer /\ Flags(c) = Flags(l) /\ l.anchor \in Target
    BY <1>1 DEF Layer, Flags
  <2> HIDE DEF c
  <2>2. e \in Layer /\ Flags(e) = Flags(l)
    BY <2>1, ZenonT(60) DEF Layer, Flags
  <2>3. erase_segment(l, hit) = IF hit = {} THEN c
                                ELSE rasterize_all_strokes(e, {l.anchor})
    BY Zenon DEF erase_segment, c
  <2> HIDE DEF e
  <2>4. Kept(erase_segment(l, hit))
    <3>1. Flags(rasterize_all_strokes(e, {l.anchor})) = Flags(l)
      BY <2>2, PaintFlags
    <3>2. Kept(c) /\ Kept(rasterize_all_strokes(e, {l.anchor}))
      BY <2>1, <3>1, SameFlags
    <3> QED BY <2>3, <3>2
  <2>5. erase_segment(l, hit) \in Layer
    BY EraseSegmentSafe DEF Safe, Sound
  <2>6. continue_stroke(l, erase, hit) = schedule_recompose(erase_segment(l, hit))
    BY <1>2 DEF continue_stroke
  <2> QED BY <2>4, <2>5, <2>6, ScheduleDebt
<1>3. CASE ~erase
  <2> DEFINE a == append_ink_point(l)
             d == [a.drawn EXCEPT ![a.anchor] =
                     @ \cup {[stroke |-> a.current,
                              frame |-> PaintFrame(a, a.anchor, a.follow)]}]
             o == a.owed \cup {"ink"}
  <2>1. Safe(a)
    BY <1>3, AppendSafe
  <2>2. a \in Layer /\ Flags(a) = Flags(l)
    BY <1>1, <2>1, QuietSteps DEF Safe, Sound, Account
  <2>3. ink_segment(l) = [a EXCEPT !.drawn = d, !.owed = o]
    BY Zenon DEF ink_segment
  <2> HIDE DEF a, d, o
  <2>4. Flags(ink_segment(l)) = Flags(l)
    BY <2>2, <2>3 DEF Layer, Flags
  <2> QED BY <1>3, <2>4, InkSegmentSafe, ScheduleDebt, SameFlags
          DEF continue_stroke, Safe, Sound
<1> QED BY <1>2, <1>3

\* The end of a stroke schedules too.
LEMMA EndDebt ==
  ASSUME NEW l, Safe(l), Kept(l)
  PROVE  Debt(end_stroke(l))
<1>1. Kept(SealStroke(l))
  BY QuietSteps, SameFlags DEF Account, Safe, Sound
<1> QED BY <1>1, DropSafe, ScheduleDebt DEF end_stroke, Safe, Sound

\* A clear drops a queued idle: it composes, or leaves that to the next show.
LEMMA ClearDebt ==
  ASSUME NEW l, Safe(l), Kept(l)
  PROVE  Debt(meta_annotation_layer_clear(l))
<1> DEFINE d == DropStroke(l)
           none == [t \in Target |-> {}]
           o == d.owed \cup {"ink"}
           c == [d EXCEPT !.strokes = none, !.drawn = none, !.owed = o,
                          !.last_ink = Desktop, !.last_ink_present = FALSE,
                          !.idle = FALSE]
<1>1. d \in Layer /\ Flags(d) = Flags(l)
  BY DropSafe, QuietSteps DEF Safe, Sound, Account
<1>2. meta_annotation_layer_clear(l) = recompose(c)
  BY Zenon DEF meta_annotation_layer_clear
<1> HIDE DEF d
<1>3. /\ none \in [Target -> SUBSET StrokeId] /\ none \in [Target -> SUBSET Image]
      /\ o \in SUBSET Cause /\ Desktop \in Target
  BY <1>1 DEF Layer, Cause, Target
<1> HIDE DEF none, o
<1>4. c \in Layer
  BY <1>1, <1>3, ZenonT(60) DEF Layer
<1>5. Flags(c) = Flags(d)
  BY <1>1, ZenonT(60) DEF Layer, Flags
<1> HIDE DEF c
<1> QED BY <1>1, <1>2, <1>4, <1>5, SameFlags, RecomposeDebt

\* Clearing a target schedules.
LEMMA ClearAnchorDebt ==
  ASSUME NEW l, Safe(l), Kept(l), NEW t \in Target
  PROVE  Debt(clear_ink_for_anchor(l, t))
<1> DEFINE w == WipeTarget(l, t)
           c == IF l.anchor = t THEN DropStroke(w) ELSE w
           f == [c EXCEPT !.last_ink = Desktop, !.last_ink_present = FALSE]
<1>1. w \in Layer /\ Flags(w) = Flags(l)
  BY WipeSafe, PaintFlags DEF Safe, Sound
<1>2. Safe(c) /\ c \in Layer /\ Flags(c) = Flags(l)
  BY <1>1, WipeSafe, DropSafe, QuietSteps DEF Safe, Sound, Account
<1>3. f \in Layer
  BY <1>2, ForgetSafe DEF Safe, Sound
<1>4. Flags(f) = Flags(l)
  BY <1>2 DEF Layer, Flags
<1>5. clear_ink_for_anchor(l, t) = schedule_recompose(IF l.last_ink = t THEN f ELSE c)
  BY Zenon DEF clear_ink_for_anchor
<1> HIDE DEF c, f
<1> QED BY <1>2, <1>3, <1>4, <1>5, SameFlags, ScheduleDebt

\* A tap release in the middle of a dispatch.
LEMMA TapReleaseKept ==
  ASSUME NEW l, Safe(l), Kept(l), NEW g \in {"none", "triple", "quad"}
  PROVE  Kept(note_tap_release(l, g))
<1>1. l.tap_anchor \in Target
  BY DEF Safe, Sound, Layer
<1>2. Safe(cancel_tap_pending(l)) /\ Kept(cancel_tap_pending(l))
  BY CancelTapSafe, QuietSteps, SameFlags DEF Safe, Sound, Account
<1>3. CASE g = "none"
  BY <1>2, <1>3 DEF note_tap_release
<1>4. CASE g = "triple"
  BY <1>1, <1>2, <1>4, ClearAnchorDebt DEF note_tap_release, Debt
<1>5. CASE g = "quad"
  BY <1>2, <1>5, ClearDebt DEF note_tap_release, Debt
<1> QED BY <1>3, <1>4, <1>5

\* Undo schedules if it changes a surface.
LEMMA UndoDebt ==
  ASSUME NEW l, Safe(l), Debt(l)
  PROVE  Debt(meta_annotation_layer_undo_last(l))
<1> DEFINE t == l.last_ink
           cut == IF l.stroke_active /\ l.anchor = t THEN SealStroke(l) ELSE l
           rest == l.strokes[t] \ {Newest(l.strokes[t])}
           popped == [cut EXCEPT !.strokes[t] = rest]
           undone == rasterize_all_strokes(popped, {t})
           forget(m) == [m EXCEPT !.last_ink = Desktop, !.last_ink_present = FALSE]
<1>1. l \in Layer /\ t \in Target /\ rest \in SUBSET StrokeId
  BY DEF Safe, Sound, Layer
<1>2. cut \in Layer /\ Flags(cut) = Flags(l)
  BY <1>1, DropSafe, QuietSteps DEF Safe, Sound, Account
<1>3. /\ meta_annotation_layer_undo_last(l) =
         IF ~l.last_ink_present THEN l
         ELSE IF l.strokes[t] = {} THEN schedule_recompose(forget(l))
         ELSE schedule_recompose(IF rest = {} THEN forget(undone) ELSE undone)
  BY Zenon DEF meta_annotation_layer_undo_last
<1> HIDE DEF cut, rest
<1>4. popped \in Layer /\ Flags(popped) = Flags(l)
  BY <1>1, <1>2 DEF Layer, Flags
<1> HIDE DEF popped
<1>5. undone \in Layer /\ Flags(undone) = Flags(l)
  BY <1>4, PaintFlags
<1> HIDE DEF undone
<1>6. ASSUME NEW m \in Layer, Flags(m) = Flags(l)
      PROVE  forget(m) \in Layer /\ Kept(forget(m)) /\ Kept(m)
  <2>1. forget(m) \in Layer /\ Flags(forget(m)) = Flags(m)
    BY <1>6, ZenonT(60) DEF Layer, Target, Flags
  <2> QED BY <1>6, <2>1, SameFlags DEF Debt
<1> HIDE DEF forget
<1> QED BY <1>1, <1>3, <1>5, <1>6, ScheduleDebt

-----------------------------------------------------------------------------
(* Setters                                                                 *)

\* Activation composes what the layer lacks before it shows it.
LEMMA SetActiveDebt ==
  ASSUME NEW l, Safe(l), Debt(l), NEW on \in BOOLEAN
  PROVE  Debt(meta_annotation_layer_set_active(l, on))
<1> DEFINE a == [l EXCEPT !.active = TRUE]
           i == [l EXCEPT !.active = FALSE, !.barrel = {}, !.current = NoStroke,
                          !.last_ink = Desktop, !.last_ink_present = FALSE]
<1>0. l \in Layer
  BY DEF Safe, Sound
<1>1. /\ a \in Layer /\ a.surface = l.surface /\ a.dirty = l.dirty
      /\ a.idle = l.idle /\ a.owed = l.owed
  BY <1>0 DEF Layer
<1>2. /\ i \in Layer /\ i.surface = l.surface /\ i.dirty = l.dirty
      /\ i.idle = l.idle /\ i.owed = l.owed
  BY <1>0, ZenonT(60) DEF Layer, Target, NoStroke
<1>3. meta_annotation_layer_set_active(l, on)
        = update_actor_visibility(IF on THEN a ELSE i)
  BY Zenon DEF meta_annotation_layer_set_active
<1> HIDE DEF a, i
<1> QED BY <1>1, <1>2, <1>3, VisibilityDebt DEF Debt, Kept, Paid, Lacks

\* So does the end of a pause; a pause only hides.
LEMMA SetPausedDebt ==
  ASSUME NEW l, Safe(l), Debt(l), NEW on \in BOOLEAN
  PROVE  Debt(meta_annotation_layer_set_paused(l, on))
<1> DEFINE cut == IF l.stroke_active THEN DropStroke(l) ELSE l
           p == [cut EXCEPT !.paused = TRUE, !.barrel = {}]
           q == [l EXCEPT !.paused = on]
<1>0. l \in Layer
  BY DEF Safe, Sound
<1>1. cut \in Layer /\ Account(cut) = Account(l)
  BY <1>0, DropSafe, QuietSteps DEF Safe, Sound
<1>2. meta_annotation_layer_set_paused(l, on)
        = update_actor_visibility(IF on /\ ~l.paused THEN p ELSE q)
  BY Zenon DEF meta_annotation_layer_set_paused
<1> HIDE DEF cut
<1>3. /\ p \in Layer /\ p.surface = l.surface /\ p.dirty = l.dirty
      /\ p.idle = l.idle /\ p.owed = l.owed
  BY <1>1 DEF Layer, Account, Flags
<1>4. /\ q \in Layer /\ q.surface = l.surface /\ q.dirty = l.dirty
      /\ q.idle = l.idle /\ q.owed = l.owed
  BY <1>0 DEF Layer
<1> HIDE DEF p, q
<1> QED BY <1>2, <1>3, <1>4, VisibilityDebt DEF Debt, Kept, Paid, Lacks

\* A region update repaints and schedules.
LEMMA SetRegionDebt ==
  ASSUME NEW l, Safe(l), Kept(l), NEW W \in SUBSET Window,
         NEW r \in Region \cup {NoRegion}
  PROVE  Debt(meta_annotation_layer_set_window_editor_region(l, W, r))
<1> DEFINE n == l.inked \cup W
           g == [w \in Window |-> IF w \in W THEN r ELSE l.region[w]]
           c == [l EXCEPT !.inked = n, !.region = g]
           cut == IF l.stroke_active /\ l.anchor \in W THEN SealStroke(c) ELSE c
           moved == {w \in W : l.region[w] # NoRegion \/ r # NoRegion}
           done == rasterize_all_strokes(cut, moved)
<1>1. n \in SUBSET Window /\ g \in [Window -> Region \cup {NoRegion}] /\ l \in Layer
  BY DEF Safe, Sound, Layer
<1>2. meta_annotation_layer_set_window_editor_region(l, W, r) = schedule_recompose(done)
  BY Zenon DEF meta_annotation_layer_set_window_editor_region
<1> HIDE DEF n, g, moved
<1>3. c \in Layer /\ Flags(c) = Flags(l)
  BY <1>1 DEF Layer, Flags
<1> HIDE DEF c
<1>4. cut \in Layer /\ Flags(cut) = Flags(l)
  BY <1>3, QuietSteps DEF Account
<1> HIDE DEF cut
<1>5. done \in Layer /\ Flags(done) = Flags(l)
  BY <1>4, PaintFlags
<1> HIDE DEF done
<1> QED BY <1>2, <1>5, SameFlags, ScheduleDebt

\* A scroll update repaints and schedules.
LEMMA SetScrollDebt ==
  ASSUME NEW l, Safe(l), Kept(l), NEW W, NEW s \in Scroll
  PROVE  Debt(meta_annotation_layer_set_window_scroll(l, W, s))
<1> DEFINE moved == {w \in W \cap l.inked : l.scroll[w] # s}
           g == [w \in Window |-> IF w \in moved THEN s ELSE l.scroll[w]]
           c == [l EXCEPT !.scroll = g]
           cut == IF l.stroke_active /\ l.anchor \in moved /\ l.follow
                    THEN SealStroke(c) ELSE c
           done == rasterize_all_strokes(cut, moved)
<1>1. g \in [Window -> Scroll] /\ l \in Layer
  BY DEF Safe, Sound, Layer
<1>2. meta_annotation_layer_set_window_scroll(l, W, s) = schedule_recompose(done)
  BY Zenon DEF meta_annotation_layer_set_window_scroll
<1> HIDE DEF g, moved
<1>3. c \in Layer /\ Flags(c) = Flags(l)
  BY <1>1 DEF Layer, Flags
<1> HIDE DEF c
<1>4. cut \in Layer /\ Flags(cut) = Flags(l)
  BY <1>3, QuietSteps DEF Account
<1> HIDE DEF cut
<1>5. done \in Layer /\ Flags(done) = Flags(l)
  BY <1>4, PaintFlags
<1> HIDE DEF done
<1> QED BY <1>2, <1>5, SameFlags, ScheduleDebt

-----------------------------------------------------------------------------
(* Signals                                                                 *)

\* Marking the composite stale leaves the flags alone; for a bystander it
\* leaves what is owed alone too.
LEMMA OweFlags ==
  ASSUME NEW l \in Layer, NEW c \in Cause
  PROVE  LET m == [l EXCEPT !.owed = @ \cup {c}]
         IN /\ m \in Layer /\ Flags(m) = Flags(l)
            /\ c = "bystander" /\ Debt(l) => Debt(m)
<1> DEFINE o == l.owed \cup {c}
           m == [l EXCEPT !.owed = o]
<1>1. o \in SUBSET Cause /\ (c = "bystander" => o \ {"bystander"} = l.owed \ {"bystander"})
  BY DEF Layer
<1> HIDE DEF o
<1>2. m \in Layer /\ Flags(m) = Flags(l) /\ m.idle = l.idle /\ m.owed = o
  BY <1>1 DEF Layer, Flags
<1>3. m = [l EXCEPT !.owed = @ \cup {c}]
  BY DEF o
<1> HIDE DEF m
<1>4. c = "bystander" /\ Debt(l) => Debt(m)
  BY <1>1, <1>2 DEF Debt, Kept, Paid, Lacks, Flags, Visible
<1> QED BY <1>2, <1>3, <1>4

\* The end of a window uncovers what was below it.
LEMMA UnmanagedDebt ==
  ASSUME NEW l, Safe(l), Kept(l), NEW w \in Window
  PROVE  Debt(on_window_unmanaged(l, w))
<1> DEFINE cut == IF l.anchor = w THEN DropStroke(l) ELSE l
           undo == IF l.last_ink = w
                     THEN [cut EXCEPT !.last_ink = Desktop,
                                      !.last_ink_present = FALSE]
                     ELSE cut
           tap == IF l.tap_anchor = w THEN cancel_tap_pending(undo) ELSE undo
           wiped == WipeTarget(tap, w)
           n == wiped.inked \ {w}
           g == [wiped.region EXCEPT ![w] = NoRegion]
           sc == [wiped.scroll EXCEPT ![w] = 0]
           o == wiped.owed \cup {"layout"}
           m == [wiped EXCEPT !.inked = n, !.region = g, !.scroll = sc, !.owed = o]
<1>0. l \in Layer /\ w \in Target
  BY DEF Safe, Sound, Target
<1>5. on_window_unmanaged(l, w) = schedule_recompose(m)
  BY ZenonT(60) DEF on_window_unmanaged
<1>1. cut \in Layer /\ Flags(cut) = Flags(l)
  BY <1>0, QuietSteps DEF Account
<1> HIDE DEF cut
<1>2. undo \in Layer /\ Flags(undo) = Flags(l)
  <2> DEFINE f == [cut EXCEPT !.last_ink = Desktop, !.last_ink_present = FALSE]
  <2>1. f \in Layer
    BY <1>1, ZenonT(60) DEF Layer, Target
  <2>2. Flags(f) = Flags(l)
    BY <1>1 DEF Layer, Flags
  <2> HIDE DEF f
  <2> QED BY <1>1, <2>1, <2>2 DEF f
<1> HIDE DEF undo
<1>3. tap \in Layer /\ Flags(tap) = Flags(l)
  BY <1>2, QuietSteps DEF Account
<1> HIDE DEF tap
<1>4. wiped \in Layer /\ Flags(wiped) = Flags(l)
  <2>1. wiped \in Layer
    BY <1>0, <1>3, ZenonT(60) DEF Layer, WipeTarget, Cause
  <2> QED BY <1>3, <2>1, PaintFlags
<1> HIDE DEF wiped
<1>6. /\ n \in SUBSET Window /\ g \in [Window -> Region \cup {NoRegion}]
      /\ sc \in [Window -> Scroll] /\ o \in SUBSET Cause
  BY <1>4, ConstantsAssumption DEF Layer, Cause
<1> HIDE DEF n, g, sc, o
<1>7. m \in Layer /\ Flags(m) = Flags(l)
  BY <1>4, <1>6 DEF Layer, Flags
<1> HIDE DEF m
<1> QED BY <1>5, <1>7, SameFlags, ScheduleDebt

\* New buffers are composed, if the stage has a size.
LEMMA StageDebt ==
  ASSUME NEW l, Safe(l), Debt(l), NEW sized \in BOOLEAN
  PROVE  Debt(on_stage_size_changed(l, sized))
<1> DEFINE b == [l EXCEPT !.surface = TRUE]
           r == rasterize_all_strokes(b, {Desktop})
           fresh == [r EXCEPT !.owed = @ \cup {"layout"}]
           m == IF sized THEN schedule_recompose(fresh) ELSE l
<1>1. l \in Layer /\ b \in Layer /\ Kept(b)
  BY DEF Safe, Sound, Layer, Debt, Kept, Visible
<1>2. on_stage_size_changed(l, sized) = DropStroke(m)
  BY Zenon DEF on_stage_size_changed
<1> HIDE DEF b
<1>3. r \in Layer /\ Kept(r)
  BY <1>1, PaintFlags, SameFlags
<1> HIDE DEF r
<1>4. fresh \in Layer /\ Kept(fresh)
  BY <1>3, OweFlags, SameFlags DEF Cause
<1> HIDE DEF fresh
<1>5. m \in Layer /\ Debt(m)
  BY <1>1, <1>4, ScheduleType, ScheduleDebt
<1> HIDE DEF m
<1> QED BY <1>2, <1>5, QuietSteps, SameFlags

\* The move of a window with ink schedules; that of another is a bystander's.
LEMMA MovedDebt ==
  ASSUME NEW l, Safe(l), Kept(l), NEW w \in Window, w \in l.inked \/ Debt(l)
  PROVE  Debt(window_moved(l, w))
<1>1. l \in Layer
  BY DEF Safe, Sound
<1>2. CASE w \in l.inked
  <2> DEFINE m == [l EXCEPT !.owed = @ \cup {"layout"}]
  <2>1. m \in Layer /\ Kept(m)
    BY <1>1, OweFlags, SameFlags DEF Cause
  <2>2. window_moved(l, w) = schedule_recompose(m)
    BY <1>2 DEF window_moved
  <2> HIDE DEF m
  <2> QED BY <2>1, <2>2, ScheduleDebt
<1>3. CASE w \notin l.inked
  <2> DEFINE m == [l EXCEPT !.owed = @ \cup {"bystander"}]
  <2>1. Debt(m)
    BY <1>1, <1>3, OweFlags DEF Cause
  <2>2. window_moved(l, w) \in {m, l}
    BY <1>3 DEF window_moved
  <2> HIDE DEF m
  <2> QED BY <1>3, <2>1, <2>2
<1> QED BY <1>2, <1>3

-----------------------------------------------------------------------------
(* Every dispatch pays                                                     *)

\* The buffers are allocated blank and composed at once.
LEMMA InitDebt == Init => DebtInv
<1> SUFFICES ASSUME Init PROVE Debt(layer)
  BY InitInv DEF DebtInv
<1>1. NewLayer \in Layer
  BY ConstantsAssumption
  DEF NewLayer, Layer, Target, StrokeId, NoStroke, Stroke, NullStroke, Frame,
      Pinned, Image, Cause
<1>2. Safe(NewLayer) /\ Debt(NewLayer)
  BY <1>1 DEF Safe, Sound, InFlight, NewLayer, NoStroke, Target, Debt, Kept,
              Paid, Lacks, Visible
<1>3. PICK sized \in BOOLEAN : layer = on_stage_size_changed(NewLayer, sized)
  BY DEF Init
<1> QED BY <1>2, <1>3, StageDebt

\* Events of the pens, fingers and mice that draw.
LEMMA PenEventDebt == DebtInv /\ PenEvent => Debt(layer)'
<1> SUFFICES ASSUME DebtInv, PenEvent PROVE Debt(layer')
  BY DEF Debt, Kept, Paid, Lacks, Visible
<1>1. layer \in Layer /\ Safe(layer) /\ Debt(layer) /\ Kept(layer)
  BY DEF DebtInv, Inv, Safe, Sound, Debt
<1>0. \A tip \in EraserTip : erase_is_active(layer, tip) \in BOOLEAN
  BY <1>1, ConstantsAssumption DEF erase_is_active
<1>2. ASSUME NEW b \in Barrel, BarrelPress(b) \/ BarrelRelease(b)
      PROVE  Debt(layer')
  <2>1. Account(layer') = Account(layer)
    BY <1>1, <1>2 DEF BarrelPress, BarrelRelease, Layer, Account, Flags
  <2> QED BY <1>1, <2>1, SameFlags
<1>3. ASSUME NEW t \in Target, NEW inside \in BOOLEAN, NEW tip \in EraserTip,
             Press(t, inside, tip) \/ MotionBegins(t, inside, tip)
      PROVE  Debt(layer')
  <2> DEFINE e == erase_is_active(layer, tip)
             b == begin_stroke(layer, t, inside, e)
  <2>1. ~layer.paused /\ (e \/ layer.next <= MaxStroke)
    BY <1>3 DEF Press, MotionBegins, Receives, Visible, Room
  <2>2. Safe(b) /\ Debt(b) /\ b \in Layer
    <3> HIDE DEF e
    <3>1. e \in BOOLEAN
      BY <1>0 DEF e
    <3>2. Safe(b)
      BY <1>1, <2>1, <3>1, BeginSafe, ZenonT(60)
    <3>3. Debt(b)
      BY <1>1, <2>1, <3>1, BeginDebt, ZenonT(60)
    <3> QED BY <3>2, <3>3 DEF Safe, Sound
  <2>3. layer' \in {[b EXCEPT !.pending_tap = TRUE, !.tap_anchor = t],
                    cancel_tap_pending(b)}
    BY <1>3 DEF Press, MotionBegins
  <2> HIDE DEF b
  <2>4. Account([b EXCEPT !.pending_tap = TRUE, !.tap_anchor = t]) = Account(b)
    BY <2>2 DEF Layer, Account, Flags
  <2> QED BY <2>2, <2>3, <2>4, QuietSteps, SameFlags
<1>4. ASSUME NEW tip \in EraserTip, NEW drift \in BOOLEAN, NEW down \in BOOLEAN,
             NEW hit \in SUBSET StrokeId, MotionContinues(tip, hit, drift, down)
      PROVE  Debt(layer')
  <2> DEFINE d == continue_stroke(layer, erase_is_active(layer, tip), hit)
             c == IF drift THEN cancel_tap_pending(d) ELSE d
  <2>1. Safe(d) /\ Debt(d)
    BY <1>0, <1>1, <1>4, ContinueSafe, ContinueDebt
    DEF MotionContinues, Receives, Visible, Room
  <2>2. layer' = IF down THEN c ELSE end_stroke(c)
    BY <1>4 DEF MotionContinues
  <2> HIDE DEF d
  <2>3. Safe(c) /\ Debt(c)
    BY <2>1, CancelTapSafe, QuietSteps, SameFlags DEF Safe, Sound
  <2> HIDE DEF c
  <2> QED BY <2>2, <2>3, EndDebt DEF Debt
<1>5. ASSUME NEW tip \in EraserTip, NEW hit \in SUBSET StrokeId,
             NEW g \in {"none", "triple", "quad"}, Release(tip, hit, g)
      PROVE  Debt(layer')
  <2> DEFINE d == IF layer.stroke_active
                    THEN continue_stroke(layer, erase_is_active(layer, tip), hit)
                    ELSE layer
  <2>1. Safe(d) /\ Kept(d)
    BY <1>0, <1>1, <1>5, ContinueSafe, ContinueDebt
    DEF Release, Receives, Visible, Room, Debt
  <2>2. layer' = end_stroke(note_tap_release(d, g))
    BY <1>5 DEF Release
  <2> HIDE DEF d
  <2> QED BY <2>1, <2>2, TapReleaseSafe, TapReleaseKept, EndDebt
<1>6. CASE TouchCancel
  BY <1>1, <1>6, CancelTapSafe, QuietSteps, SameFlags, EndDebt
  DEF TouchCancel, Debt, Account
<1> QED BY <1>2, <1>3, <1>4, <1>5, <1>6 DEF PenEvent

\* Calls over D-Bus.
LEMMA CallDebt == DebtInv /\ Call => Debt(layer)'
<1> SUFFICES ASSUME DebtInv, Call PROVE Debt(layer')
  BY DEF Debt, Kept, Paid, Lacks, Visible
<1>1. layer \in Layer /\ Safe(layer) /\ Debt(layer) /\ Kept(layer)
  BY DEF DebtInv, Inv, Safe, Sound, Debt
<1>2. CASE Clear \/ UndoLast
  BY <1>1, <1>2, ClearDebt, UndoDebt DEF Clear, UndoLast
<1>3. ASSUME NEW on \in BOOLEAN, SetActive(on) \/ SetPaused(on) PROVE Debt(layer')
  BY <1>1, <1>3, SetActiveDebt, SetPausedDebt DEF SetActive, SetPaused
<1>4. ASSUME NEW c \in Colour, SetColor(c) PROVE Debt(layer')
  <2>1. Account(layer') = Account(layer)
    BY <1>1, <1>4 DEF SetColor, Layer, Account, Flags
  <2> QED BY <1>1, <2>1, SameFlags
<1>5. ASSUME NEW p \in Pid, NEW W \in SUBSET Window,
             NEW r \in Region \cup {NoRegion}, SetWindowEditorRegion(p, W, r)
      PROVE  Debt(layer')
  BY <1>1, <1>5, SetRegionDebt DEF SetWindowEditorRegion
<1>6. ASSUME NEW p \in Pid, NEW s \in Scroll, SetWindowScroll(p, s)
      PROVE  Debt(layer')
  BY <1>1, <1>6, SetScrollDebt DEF SetWindowScroll
<1>7. ASSUME NEW C \in SUBSET Chrome, SetChromeRegions(C) PROVE Debt(layer')
  <2> DEFINE o == IF C = layer.chrome THEN layer.owed ELSE layer.owed \cup {"chrome"}
             m == [layer EXCEPT !.chrome = C, !.owed = o]
  <2>1. o \in SUBSET Cause
    BY <1>1 DEF Layer, Cause
  <2>2. layer' = schedule_recompose(m)
    BY <1>7, Zenon DEF SetChromeRegions
  <2> HIDE DEF o
  <2>3. m \in Layer /\ Flags(m) = Flags(layer)
    BY <1>1, <2>1 DEF Layer, Flags
  <2> HIDE DEF m
  <2> QED BY <1>1, <2>2, <2>3, SameFlags, ScheduleDebt
<1> QED BY <1>2, <1>3, <1>4, <1>5, <1>6, <1>7 DEF Call

\* Signals of windows and of the stage.
LEMMA SignalDebt == DebtInv /\ Signal => Debt(layer)'
<1> SUFFICES ASSUME DebtInv, Signal PROVE Debt(layer')
  BY DEF Debt, Kept, Paid, Lacks, Visible
<1>1. layer \in Layer /\ Safe(layer) /\ Debt(layer) /\ Kept(layer)
  BY DEF DebtInv, Inv, Safe, Sound, Debt
<1>2. ASSUME NEW w \in Window, MapWindow(w) \/ UnmanageWindow(w)
      PROVE  Debt(layer')
  BY <1>1, <1>2, UnmanagedDebt DEF MapWindow, UnmanageWindow
<1>3. ASSUME NEW w \in Window, WindowMoved(w) PROVE Debt(layer')
  BY <1>1, <1>3, MovedDebt DEF WindowMoved
<1>4. ASSUME NEW w \in Window, WindowResized(w) PROVE Debt(layer')
  <2> DEFINE r == IF w \in layer.inked
                    THEN rasterize_all_strokes(layer, {w}) ELSE layer
  <2>1. Safe(r) /\ Kept(r) /\ (w \in r.inked \/ Debt(r))
    BY <1>1, RasterSafe, PaintFlags, SameFlags
  <2>2. layer' = window_moved(r, w)
    BY <1>4 DEF WindowResized
  <2> HIDE DEF r
  <2> QED BY <2>1, <2>2, MovedDebt
<1>5. CASE Restacked
  <2> DEFINE m == [layer EXCEPT !.owed = @ \cup {"layout"}]
  <2>1. m \in Layer /\ Kept(m)
    BY <1>1, OweFlags, SameFlags DEF Cause
  <2>2. layer' = schedule_recompose(m)
    BY <1>5 DEF Restacked
  <2> HIDE DEF m
  <2> QED BY <2>1, <2>2, ScheduleDebt
<1>6. ASSUME NEW sized \in BOOLEAN, StageResized(sized) PROVE Debt(layer')
  BY <1>1, <1>6, StageDebt DEF StageResized
<1> QED BY <1>2, <1>3, <1>4, <1>5, <1>6 DEF Signal

\* Every dispatch pays for what it changed.
LEMMA NextDebt == DebtInv /\ [Next]_vars => DebtInv'
<1> SUFFICES ASSUME DebtInv, [Next]_vars PROVE Debt(layer)'
  BY NextInv DEF DebtInv
<1>1. CASE RecomposeIdle
  <2>1. layer \in Layer /\ Kept(layer)
    BY DEF DebtInv, Inv, Safe, Sound, Debt
  <2>2. Debt(layer')
    BY <1>1, <2>1, RecomposeDebt DEF RecomposeIdle
  <2> QED BY <2>2 DEF Debt, Kept, Paid, Lacks, Visible
<1>2. CASE UNCHANGED vars
  BY <1>2 DEF vars, DebtInv, Debt, Kept, Paid, Lacks, Visible
<1> QED BY <1>1, <1>2, PenEventDebt, CallDebt, SignalDebt DEF Next

\* Whatever an event, a call or a signal leaves different from the uploaded
\* composite, an idle is queued for it or recompose_dirty is set: the code
\* forgets no change, except for windows that carry no ink.
THEOREM RecomposeIsOwed == Spec => []RecomposeOwed
<1>1. DebtInv => RecomposeOwed
  BY DEF DebtInv, Debt, Paid, Lacks, RecomposeOwed
<1> QED BY <1>1, InitDebt, NextDebt, PTL DEF Spec

\* recompose_dirty is never set while the actor shows: only a show clears it,
\* and there would be none.
THEOREM ShownIsNotDirty == Spec => []ShownNotDirty
<1>1. DebtInv => ShownNotDirty
  BY DEF DebtInv, Debt, Kept, ShownNotDirty
<1> QED BY <1>1, InitDebt, NextDebt, PTL DEF Spec

-----------------------------------------------------------------------------
(* Strokes and surfaces                                                    *)

\* Where strokes lie and what is painted.
Content(l) == <<l.strokes, l.drawn, l.region, l.scroll, l.heap, l.next>>

\* The stroke in flight.
Pen(l) == <<l.stroke_active, l.current, l.anchor, l.follow>>

\* The part of Ink that is not about the stroke in flight.
Still(l) == Issued(l) /\ Picture(l)

\* The images of a target depend on its array, its strokes and its frame.
LEMMA SameImages ==
  ASSUME NEW l, NEW m, NEW t, m.strokes[t] = l.strokes[t],
         \A s \in l.strokes[t] : m.heap[s] = l.heap[s],
         t \in Window => m.region[t] = l.region[t] /\ m.scroll[t] = l.scroll[t]
  PROVE  Images(m, t) = Images(l, t)
<1>1. HasRegion(m, t) <=> HasRegion(l, t)
  BY DEF HasRegion
<1>2. \A follow : PaintFrame(m, t, follow) = PaintFrame(l, t, follow)
  BY DEF PaintFrame, FrameOf
<1> QED BY <1>1, <1>2 DEF Images

\* Still looks at Content only, Frames at Content and Pen; a layer without a
\* stroke has no frame to keep.
LEMMA SameInk ==
  ASSUME NEW l, NEW m, Content(m) = Content(l)
  PROVE  /\ Still(l) => Still(m)
         /\ Pen(m) = Pen(l) /\ Ink(l) => Ink(m)
         /\ ~m.stroke_active /\ m.current = NoStroke /\ Still(l) => Ink(m)
<1>1. /\ m.strokes = l.strokes /\ m.drawn = l.drawn /\ m.region = l.region
      /\ m.scroll = l.scroll /\ m.heap = l.heap /\ m.next = l.next
  BY DEF Content
<1>2. \A t : Images(m, t) = Images(l, t)
  BY <1>1, SameImages
<1>3. Still(l) => Still(m)
  BY <1>1, <1>2 DEF Still, Issued, Picture
<1>4. ASSUME Pen(m) = Pen(l), Frames(l) PROVE Frames(m)
  <2>1. \A t : HasRegion(m, t) <=> HasRegion(l, t)
    BY <1>1 DEF HasRegion
  <2>2. \A t, follow : PaintFrame(m, t, follow) = PaintFrame(l, t, follow)
    BY <1>1 DEF PaintFrame, FrameOf
  <2>3. /\ m.stroke_active = l.stroke_active /\ m.current = l.current
        /\ m.anchor = l.anchor /\ m.follow = l.follow
    BY <1>4 DEF Pen
  <2> QED BY <1>1, <1>4, <2>1, <2>2, <2>3 DEF Frames
<1>5. ~m.stroke_active /\ m.current = NoStroke => Frames(m)
  BY DEF Frames
<1> QED BY <1>3, <1>4, <1>5 DEF Ink, Still

\* What neither stores nor paints.
LEMMA IdleSteps ==
  ASSUME NEW l \in Layer
  PROVE  /\ \A b : Content([l EXCEPT !.idle = b]) = Content(l)
                   /\ Pen([l EXCEPT !.idle = b]) = Pen(l)
         /\ Content(schedule_recompose(l)) = Content(l)
         /\ Pen(schedule_recompose(l)) = Pen(l)
         /\ Content(recompose(l)) = Content(l) /\ Pen(recompose(l)) = Pen(l)
         /\ Content(cancel_tap_pending(l)) = Content(l)
         /\ Pen(cancel_tap_pending(l)) = Pen(l)
         /\ \A c : Content([l EXCEPT !.owed = c]) = Content(l)
                   /\ Pen([l EXCEPT !.owed = c]) = Pen(l)
<1>1. ASSUME NEW b
      PROVE  /\ Content([l EXCEPT !.idle = b]) = Content(l)
             /\ Pen([l EXCEPT !.idle = b]) = Pen(l)
             /\ Content([l EXCEPT !.owed = b]) = Content(l)
             /\ Pen([l EXCEPT !.owed = b]) = Pen(l)
  BY DEF Layer, Content, Pen
<1>2. /\ Content(schedule_recompose(l)) = Content(l)
      /\ Pen(schedule_recompose(l)) = Pen(l)
  BY DEF Layer, Content, Pen, schedule_recompose
<1>3. Content(recompose(l)) = Content(l) /\ Pen(recompose(l)) = Pen(l)
  BY DEF Layer, Content, Pen, recompose
<1>4. /\ Content(cancel_tap_pending(l)) = Content(l)
      /\ Pen(cancel_tap_pending(l)) = Pen(l)
  BY DEF Layer, Content, Pen, cancel_tap_pending
<1> QED BY <1>1, <1>2, <1>3, <1>4

\* Showing or hiding the actor does not touch the ink.
LEMMA VisibilityInk ==
  ASSUME NEW l \in Layer
  PROVE  /\ Content(update_actor_visibility(l)) = Content(l)
         /\ Pen(update_actor_visibility(l)) = Pen(l)
<1>1. [l EXCEPT !.idle = FALSE] \in Layer
  BY DEF Layer
<1> QED BY <1>1, IdleSteps DEF update_actor_visibility

\* Dropping the stroke in flight leaves its ink where it is.
LEMMA DropInk ==
  ASSUME NEW l \in Layer, Still(l)
  PROVE  Ink(DropStroke(l)) /\ Ink(SealStroke(l))
<1>1. /\ Content(DropStroke(l)) = Content(l) /\ ~DropStroke(l).stroke_active
      /\ DropStroke(l).current = NoStroke
  BY DEF Layer, Content, DropStroke
<1>2. /\ Content(SealStroke(l)) = Content(l) /\ ~SealStroke(l).stroke_active
      /\ SealStroke(l).current = NoStroke
  BY DEF Layer, Content, DropStroke, SealStroke
<1> QED BY <1>1, <1>2, SameInk

\* Repainting the targets whose images changed restores the picture.
LEMMA RasterInk ==
  ASSUME NEW l \in Layer, NEW T, Issued(l),
         \A t \in Target \ T : l.drawn[t] \subseteq Images(l, t)
  PROVE  LET r == rasterize_all_strokes(l, T)
         IN Still(r) /\ (Frames(l) => Ink(r))
<1> DEFINE r == rasterize_all_strokes(l, T)
<1>1. /\ r.strokes = l.strokes /\ r.region = l.region /\ r.scroll = l.scroll
      /\ r.heap = l.heap /\ r.next = l.next /\ Pen(r) = Pen(l)
      /\ r.drawn = [t \in Target |-> IF t \in T THEN Images(l, t) ELSE l.drawn[t]]
  BY DEF Layer, rasterize_all_strokes, Pen
<1> HIDE DEF r
<1>2. \A t : Images(r, t) = Images(l, t)
  BY <1>1, SameImages
<1>3. Still(r)
  BY <1>1, <1>2 DEF Still, Issued, Picture
<1>4. ASSUME Frames(l) PROVE Frames(r)
  <2>1. \A t : HasRegion(r, t) <=> HasRegion(l, t)
    BY <1>1 DEF HasRegion
  <2>2. \A t, follow : PaintFrame(r, t, follow) = PaintFrame(l, t, follow)
    BY <1>1 DEF PaintFrame, FrameOf
  <2>3. /\ r.stroke_active = l.stroke_active /\ r.current = l.current
        /\ r.anchor = l.anchor /\ r.follow = l.follow
    BY <1>1 DEF Pen
  <2> QED BY <1>1, <1>4, <2>1, <2>2, <2>3 DEF Frames
<1> QED BY <1>3, <1>4 DEF Ink, Still, r

\* Wiping a target takes its images with its strokes.
LEMMA WipeInk ==
  ASSUME NEW l \in Layer, Still(l), NEW t \in Target
  PROVE  LET m == WipeTarget(l, t)
         IN Still(m) /\ (l.anchor # t /\ Ink(l) => Ink(m))
<1> DEFINE m == WipeTarget(l, t)
<1>1. /\ m.region = l.region /\ m.scroll = l.scroll
      /\ m.heap = l.heap /\ m.next = l.next /\ Pen(m) = Pen(l)
      /\ m.strokes[t] = {} /\ m.drawn[t] = {}
      /\ \A u \in Target : u # t => m.strokes[u] = l.strokes[u] /\ m.drawn[u] = l.drawn[u]
  BY DEF Layer, WipeTarget, Pen
<1> HIDE DEF m
<1>2. \A u \in Target : u # t => Images(m, u) = Images(l, u)
  BY <1>1, SameImages
<1>3. Still(m)
  BY <1>1, <1>2 DEF Still, Issued, Picture
<1>4. ASSUME Frames(l) PROVE Frames(m)
  <2>1. \A u : HasRegion(m, u) <=> HasRegion(l, u)
    BY <1>1 DEF HasRegion
  <2>2. \A u, follow : PaintFrame(m, u, follow) = PaintFrame(l, u, follow)
    BY <1>1 DEF PaintFrame, FrameOf
  <2>3. /\ m.stroke_active = l.stroke_active /\ m.current = l.current
        /\ m.anchor = l.anchor /\ m.follow = l.follow
    BY <1>1 DEF Pen
  <2> QED BY <1>1, <1>4, <2>1, <2>2, <2>3 DEF Frames
<1> QED BY <1>3, <1>4 DEF Ink, Still, m

\* A new stroke gets the frame the pen converts points with; its id is new, so
\* no image is of it yet.
LEMMA AppendInk ==
  ASSUME NEW l, Safe(l), Ink(l), l.stroke_active, ~l.paused,
         l.current # NoStroke \/ l.next <= MaxStroke
  PROVE  Ink(append_ink_point(l))
<1>1. l \in Layer /\ l.anchor \in Target /\ l.follow \in BOOLEAN
  BY DEF Safe, Sound, Layer
<1>2. CASE l.current # NoStroke
  BY <1>2 DEF append_ink_point
<1>3. CASE l.current = NoStroke
  <2> DEFINE n == l.next
             f == PaintFrame(l, l.anchor, l.follow)
             st == [follow_scroll |-> l.follow, frame |-> f, home |-> l.anchor]
             h == [l.heap EXCEPT ![n] = st]
             ss == [l.strokes EXCEPT ![l.anchor] = @ \cup {n}]
             a == [l EXCEPT !.heap = h, !.strokes = ss,
                            !.current = n, !.next = n + 1]
  <2>1. n \in StrokeId /\ n \in Nat
    BY <1>1, <1>3, ConstantsAssumption DEF Layer, StrokeId
  <2>2. /\ h[n] = st /\ \A s \in StrokeId : s # n => h[s] = l.heap[s]
        /\ ss[l.anchor] = l.strokes[l.anchor] \cup {n}
        /\ \A t \in Target : t # l.anchor => ss[t] = l.strokes[t]
    BY <1>1, <2>1 DEF Layer
  <2>3. append_ink_point(l) = a
    BY <1>3, Zenon DEF append_ink_point
  <2> HIDE DEF h, ss, n, st
  <2>4. /\ a.strokes = ss /\ a.heap = h /\ a.current = n /\ a.next = n + 1
        /\ a.drawn = l.drawn /\ a.region = l.region /\ a.scroll = l.scroll
        /\ a.anchor = l.anchor /\ a.follow = l.follow
        /\ a.stroke_active = l.stroke_active
    BY <1>1 DEF Layer
  <2> HIDE DEF a
  <2>5. \A t \in Target : \A s \in l.strokes[t] : s < n /\ s \in StrokeId
    BY <1>1 DEF Ink, Issued, Layer, n
  <2>6. \A t : HasRegion(a, t) <=> HasRegion(l, t)
    BY <2>4 DEF HasRegion
  <2>7. \A t, follow : PaintFrame(a, t, follow) = PaintFrame(l, t, follow)
    BY <2>4 DEF PaintFrame, FrameOf
  <2>8. Issued(a)
    BY <2>1, <2>2, <2>4, <2>5 DEF Issued, StrokeId
  <2>9. Picture(a)
    <3>1. ASSUME NEW t \in Target PROVE Images(l, t) \subseteq Images(a, t)
      <4>1. \A s \in l.strokes[t] : s \in a.strokes[t] /\ a.heap[s] = l.heap[s]
        BY <2>1, <2>2, <2>4, <2>5 DEF StrokeId
      <4> QED BY <4>1, <2>6, <2>7 DEF Images
    <3> QED BY <3>1, <2>4 DEF Ink, Picture
  <2>10. Frames(a)
    BY <2>2, <2>4, <2>6, <2>7 DEF Frames, Ink, st
  <2> QED BY <2>3, <2>8, <2>9, <2>10 DEF Ink
<1> QED BY <1>2, <1>3

\* A press follows the scroll only inside the region of the window it hit.
LEMMA BeginInk ==
  ASSUME NEW l, Safe(l), Ink(l), ~l.paused, NEW t \in Target,
         NEW inside \in BOOLEAN, NEW erase \in BOOLEAN,
         erase \/ l.next <= MaxStroke
  PROVE  Ink(begin_stroke(l, t, inside, erase))
<1> DEFINE e == ensure_window_ink(l, t)
           fl == ~erase /\ inside /\ HasRegion(l, t)
           b == [e EXCEPT !.anchor = t, !.current = NoStroke,
                          !.stroke_active = TRUE, !.follow = fl]
           c == [b EXCEPT !.last_ink = t, !.last_ink_present = TRUE]
<1>1. l \in Layer
  BY DEF Safe, Sound
<1>2. Safe(e) /\ e \in Layer /\ e.next = l.next /\ ~e.paused
  BY <1>1, SMTT(60) DEF ensure_window_ink, Layer, Target, Safe, Sound, InFlight
<1>3. Content(e) = Content(l)
  BY <1>1 DEF ensure_window_ink, Layer, Content
<1>4. Still(e) /\ fl \in BOOLEAN /\ (fl => HasRegion(e, t))
  BY <1>3, SameInk DEF Ink, Still, HasRegion, Content
<1>5. begin_stroke(l, t, inside, erase) = IF erase THEN b ELSE append_ink_point(c)
  BY DEF begin_stroke
<1> HIDE DEF e, fl
<1>6. /\ b \in Layer /\ b.stroke_active /\ ~b.paused /\ b.next = l.next
      /\ b.anchor = t /\ b.current = NoStroke /\ b.follow = fl
      /\ b.inked = e.inked /\ b.last_ink = e.last_ink /\ b.tap_anchor = e.tap_anchor
  BY <1>2, <1>4, ZenonT(60) DEF Layer, NoStroke
<1>7. Content(b) = Content(e)
  BY <1>2 DEF Layer, Content
<1> HIDE DEF b
<1>8. Ink(b)
  <2>1. HasRegion(b, t) <=> HasRegion(e, t)
    BY <1>7 DEF HasRegion, Content
  <2>2. Frames(b)
    BY <1>4, <1>6, <2>1 DEF Frames
  <2> QED BY <1>4, <1>7, <2>2, SameInk DEF Ink, Still
<1>9. ASSUME ~erase PROVE Ink(append_ink_point(c))
  <2>1. /\ c \in Layer /\ c.stroke_active /\ ~c.paused /\ c.next = b.next
        /\ c.anchor = t /\ c.current = NoStroke
        /\ c.last_ink = t /\ c.inked = b.inked /\ c.tap_anchor = b.tap_anchor
    BY <1>6, ZenonT(60) DEF Layer
  <2>2. Content(c) = Content(b) /\ Pen(c) = Pen(b)
    BY <1>6 DEF Layer, Content, Pen
  <2> HIDE DEF c
  <2>3. Safe(c)
    <3>1. t \in e.inked \cup {Desktop}
      BY <1>1, SMTT(60) DEF ensure_window_ink, Layer, Target, e
    <3>2. c.strokes = e.strokes /\ c.drawn = e.drawn /\ c.region = e.region
      BY <1>7, <2>2 DEF Content
    <3> QED BY <1>2, <1>6, <2>1, <3>1, <3>2 DEF Safe, Sound, InFlight
  <2> QED BY <1>6, <1>8, <1>9, <2>1, <2>2, <2>3, SameInk, AppendInk
<1> QED BY <1>5, <1>8, <1>9

\* A segment is painted in the frame of its stroke, on the surface of the
\* array that holds it.
LEMMA InkSegmentInk ==
  ASSUME NEW l, Safe(l), Ink(l), l.stroke_active, ~l.paused,
         l.current # NoStroke \/ l.next <= MaxStroke
  PROVE  Ink(ink_segment(l))
<1> DEFINE a == append_ink_point(l)
           i == [stroke |-> a.current, frame |-> PaintFrame(a, a.anchor, a.follow)]
           d == [a.drawn EXCEPT ![a.anchor] = @ \cup {i}]
           o == a.owed \cup {"ink"}
           r == [a EXCEPT !.drawn = d, !.owed = o]
<1>1. Safe(a) /\ Ink(a) /\ a.current \in StrokeId
  BY AppendSafe, AppendInk
<1>2. ink_segment(l) = r
  BY Zenon DEF ink_segment
<1> HIDE DEF a, o
<1>3. a \in Layer /\ a.anchor \in Target
  BY <1>1 DEF Safe, Sound, Layer
<1>4. i \in Images(a, a.anchor)
  <2>1. a.current # NoStroke
    BY <1>1 DEF StrokeId, NoStroke
  <2>2. /\ a.stroke_active /\ a.current \in a.strokes[a.anchor]
        /\ a.heap[a.current].follow_scroll = a.follow
        /\ a.follow => HasRegion(a, a.anchor)
    BY <1>1, <2>1 DEF Safe, InFlight, Ink, Frames
  <2> QED BY <2>2 DEF Images
<1> HIDE DEF i
<1>5. \A t \in Target : d[t] \subseteq Images(a, t)
  BY <1>1, <1>3, <1>4 DEF Ink, Picture, Layer
<1> HIDE DEF d
<1>6. /\ r.strokes = a.strokes /\ r.region = a.region /\ r.scroll = a.scroll
      /\ r.heap = a.heap /\ r.next = a.next /\ r.drawn = d /\ Pen(r) = Pen(a)
  BY <1>3 DEF Layer, Pen
<1> HIDE DEF r
<1>7. \A t : Images(r, t) = Images(a, t)
  BY <1>6, SameImages
<1>8. Frames(r)
  <2>1. HasRegion(r, a.anchor) <=> HasRegion(a, a.anchor)
    BY <1>6 DEF HasRegion
  <2>2. PaintFrame(r, a.anchor, a.follow) = PaintFrame(a, a.anchor, a.follow)
    BY <1>6 DEF PaintFrame, FrameOf
  <2>3. /\ r.stroke_active = a.stroke_active /\ r.current = a.current
        /\ r.anchor = a.anchor /\ r.follow = a.follow
    BY <1>6 DEF Pen
  <2> QED BY <1>1, <1>6, <2>1, <2>2, <2>3 DEF Ink, Frames
<1> QED BY <1>1, <1>2, <1>5, <1>6, <1>7, <1>8 DEF Ink, Issued, Picture

\* Deleting strokes of one target leaves Still to the repaint of that target.
LEMMA CutInk ==
  ASSUME NEW l \in Layer, Still(l), NEW t \in Target,
         NEW rest \in SUBSET l.strokes[t]
  PROVE  LET m == [l EXCEPT !.strokes[t] = rest]
             r == rasterize_all_strokes(m, {t})
         IN /\ m \in Layer /\ r \in Layer /\ Still(r)
            /\ Frames(l) => Ink(r)
<1> DEFINE s == [l.strokes EXCEPT ![t] = rest]
           m == [l EXCEPT !.strokes = s]
           r == rasterize_all_strokes(m, {t})
<1>1. /\ s \in [Target -> SUBSET StrokeId] /\ s[t] = rest
      /\ \A u \in Target : u # t => s[u] = l.strokes[u]
  BY DEF Layer
<1>2. [l EXCEPT !.strokes[t] = rest] = m
  BY DEF Layer
<1> HIDE DEF s
<1>3. m \in Layer
  BY <1>1, ZenonT(60) DEF Layer
<1>4. /\ m.strokes = s /\ m.drawn = l.drawn /\ m.region = l.region
      /\ m.scroll = l.scroll /\ m.heap = l.heap /\ m.next = l.next
      /\ Pen(m) = Pen(l)
  BY DEF Layer, Pen
<1> HIDE DEF m
<1>5. Issued(m)
  BY <1>1, <1>4 DEF Still, Issued
<1>6. \A u \in Target \ {t} : m.drawn[u] \subseteq Images(m, u)
  <2>1. \A u \in Target \ {t} : Images(m, u) = Images(l, u)
    BY <1>1, <1>4, SameImages
  <2> QED BY <1>4, <2>1 DEF Still, Picture
<1>7. Frames(l) => Frames(m)
  <2>1. \A u : HasRegion(m, u) <=> HasRegion(l, u)
    BY <1>4 DEF HasRegion
  <2>2. \A u, follow : PaintFrame(m, u, follow) = PaintFrame(l, u, follow)
    BY <1>4 DEF PaintFrame, FrameOf
  <2>3. /\ m.stroke_active = l.stroke_active /\ m.current = l.current
        /\ m.anchor = l.anchor /\ m.follow = l.follow
    BY <1>4 DEF Pen
  <2> QED BY <1>4, <2>1, <2>2, <2>3 DEF Frames
<1> QED BY <1>2, <1>3, <1>5, <1>6, <1>7, RasterInk, PaintFlags

\* A segment of either kind.
LEMMA ContinueInk ==
  ASSUME NEW l, Safe(l), Ink(l), l.stroke_active, ~l.paused,
         NEW hit, NEW erase \in BOOLEAN,
         erase \/ l.current # NoStroke \/ l.next <= MaxStroke
  PROVE  Ink(continue_stroke(l, erase, hit))
<1>1. CASE erase
  <2> DEFINE c == [l EXCEPT !.current = NoStroke]
             e == [c EXCEPT !.strokes[l.anchor] = @ \ hit]
             r == rasterize_all_strokes(e, {l.anchor})
  <2>1. c \in Layer /\ l.anchor \in Target
    BY DEF Safe, Sound, Layer
  <2>2. Ink(c)
    <3>1. /\ Content(c) = Content(l) /\ c.current = NoStroke
          /\ c.anchor = l.anchor /\ c.follow = l.follow
          /\ c.stroke_active = l.stroke_active
      BY DEF Safe, Sound, Layer, Content
    <3>2. HasRegion(c, l.anchor) <=> HasRegion(l, l.anchor)
      BY <3>1 DEF HasRegion, Content
    <3>3. Frames(c)
      BY <3>1, <3>2 DEF Ink, Frames
    <3> QED BY <3>1, <3>3, SameInk DEF Ink, Still
  <2>3. erase_segment(l, hit) = IF hit = {} THEN c ELSE r
    BY Zenon DEF erase_segment
  <2> HIDE DEF c
  <2>4. Ink(r) /\ r \in Layer
    <3>1. e = [c EXCEPT !.strokes[l.anchor] = c.strokes[l.anchor] \ hit]
      OBVIOUS
    <3>2. c.strokes[l.anchor] \ hit \in SUBSET c.strokes[l.anchor]
      OBVIOUS
    <3> HIDE DEF e
    <3> QED BY <2>1, <2>2, <3>1, <3>2, CutInk DEF Ink, Still
  <2> HIDE DEF r
  <2>5. Ink(erase_segment(l, hit)) /\ erase_segment(l, hit) \in Layer
    BY <2>1, <2>2, <2>3, <2>4
  <2> QED BY <1>1, <2>5, IdleSteps, SameInk DEF continue_stroke
<1>2. CASE ~erase
  <2>1. Safe(ink_segment(l)) /\ Ink(ink_segment(l))
    BY <1>2, InkSegmentSafe, InkSegmentInk
  <2> QED BY <1>2, <2>1, IdleSteps, SameInk DEF continue_stroke, Safe, Sound
<1> QED BY <1>1, <1>2

\* The end of a stroke.
LEMMA EndInk ==
  ASSUME NEW l, Safe(l), Ink(l)
  PROVE  Ink(end_stroke(l))
<1>1. SealStroke(l) \in Layer /\ Ink(SealStroke(l))
  BY QuietSteps, DropInk DEF Safe, Sound, Ink, Still
<1> QED BY <1>1, IdleSteps, SameInk DEF end_stroke

-----------------------------------------------------------------------------
(* Clearing                                                                *)

\* Forgetting what undo would pop.
LEMMA ForgetInk ==
  ASSUME NEW l \in Layer
  PROVE  LET f == [l EXCEPT !.last_ink = Desktop, !.last_ink_present = FALSE]
         IN f \in Layer /\ (Ink(l) => Ink(f))
<1> DEFINE f == [l EXCEPT !.last_ink = Desktop, !.last_ink_present = FALSE]
<1>1. f \in Layer
  BY ZenonT(60) DEF Layer, Target
<1>2. Content(f) = Content(l) /\ Pen(f) = Pen(l)
  BY DEF Layer, Content, Pen
<1> QED BY <1>1, <1>2, SameInk

\* Clear takes every stroke with its images.
LEMMA ClearInk ==
  ASSUME NEW l, Safe(l), Ink(l)
  PROVE  Ink(meta_annotation_layer_clear(l))
<1> DEFINE d == DropStroke(l)
           none == [t \in Target |-> {}]
           o == d.owed \cup {"ink"}
           c == [d EXCEPT !.strokes = none, !.drawn = none, !.owed = o,
                          !.last_ink = Desktop, !.last_ink_present = FALSE,
                          !.idle = FALSE]
<1>1. d \in Layer /\ d.current = NoStroke /\ ~d.stroke_active
  BY QuietSteps, DropFields DEF Safe, Sound
<1>2. meta_annotation_layer_clear(l) = recompose(c)
  BY Zenon DEF meta_annotation_layer_clear
<1> HIDE DEF d
<1>3. /\ none \in [Target -> SUBSET StrokeId] /\ none \in [Target -> SUBSET Image]
      /\ o \in SUBSET Cause /\ \A t \in Target : none[t] = {}
  BY <1>1 DEF Layer, Cause
<1> HIDE DEF none, o
<1>4. c \in Layer
  BY <1>1, <1>3, ZenonT(60) DEF Layer, Target
<1>5. /\ c.strokes = none /\ c.drawn = none /\ c.current = NoStroke
      /\ ~c.stroke_active
  BY <1>1, ZenonT(60) DEF Layer
<1> HIDE DEF c
<1>6. Ink(c)
  BY <1>3, <1>5 DEF Ink, Issued, Picture, Frames
<1> QED BY <1>2, <1>4, <1>6, IdleSteps, SameInk

\* Clearing a target takes its stroke in flight as well.
LEMMA ClearAnchorInk ==
  ASSUME NEW l, Safe(l), Ink(l), NEW t \in Target
  PROVE  Ink(clear_ink_for_anchor(l, t))
<1> DEFINE w == WipeTarget(l, t)
           c == IF l.anchor = t THEN DropStroke(w) ELSE w
           f == [c EXCEPT !.last_ink = Desktop, !.last_ink_present = FALSE]
           m == IF l.last_ink = t THEN f ELSE c
<1>1. w \in Layer /\ Still(w) /\ (l.anchor # t => Ink(w))
  BY WipeSafe, WipeInk DEF Safe, Sound, Ink, Still
<1>2. clear_ink_for_anchor(l, t) = schedule_recompose(m)
  BY Zenon DEF clear_ink_for_anchor
<1> HIDE DEF w
<1>3. c \in Layer /\ Ink(c)
  BY <1>1, QuietSteps, DropInk
<1> HIDE DEF c
<1>4. m \in Layer /\ Ink(m)
  BY <1>3, ForgetInk
<1> HIDE DEF m
<1> QED BY <1>2, <1>4, IdleSteps, SameInk

\* A release that completes a tap, or a gesture.
LEMMA TapReleaseInk ==
  ASSUME NEW l, Safe(l), Ink(l), NEW g \in {"none", "triple", "quad"}
  PROVE  Ink(note_tap_release(l, g))
<1>1. l.tap_anchor \in Target
  BY DEF Safe, Sound, Layer
<1>2. Safe(cancel_tap_pending(l)) /\ Ink(cancel_tap_pending(l))
  BY CancelTapSafe, IdleSteps, SameInk DEF Safe, Sound
<1>3. CASE g = "none"
  BY <1>2, <1>3 DEF note_tap_release
<1>4. CASE g = "triple"
  BY <1>1, <1>2, <1>4, ClearAnchorInk DEF note_tap_release
<1>5. CASE g = "quad"
  BY <1>2, <1>5, ClearInk DEF note_tap_release
<1> QED BY <1>3, <1>4, <1>5

\* Undo repaints the target it pops from.
LEMMA UndoInk ==
  ASSUME NEW l, Safe(l), Ink(l)
  PROVE  Ink(meta_annotation_layer_undo_last(l))
<1> DEFINE t == l.last_ink
           cut == IF l.stroke_active /\ l.anchor = t THEN SealStroke(l) ELSE l
           rest == l.strokes[t] \ {Newest(l.strokes[t])}
           popped == [cut EXCEPT !.strokes[t] = rest]
           undone == rasterize_all_strokes(popped, {t})
           forget(m) == [m EXCEPT !.last_ink = Desktop, !.last_ink_present = FALSE]
<1>1. l \in Layer /\ t \in Target /\ rest \in SUBSET l.strokes[t]
  BY DEF Safe, Sound, Layer
<1>2. cut \in Layer /\ Ink(cut) /\ cut.strokes = l.strokes
  <2>1. SealStroke(l).strokes = l.strokes
    BY <1>1 DEF Layer, SealStroke, DropStroke
  <2> QED BY <1>1, <2>1, QuietSteps, DropInk DEF Ink, Still
<1>3. /\ meta_annotation_layer_undo_last(l) =
         IF ~l.last_ink_present THEN l
         ELSE IF l.strokes[t] = {} THEN schedule_recompose(forget(l))
         ELSE schedule_recompose(IF rest = {} THEN forget(undone) ELSE undone)
  BY Zenon DEF meta_annotation_layer_undo_last
<1> HIDE DEF cut, rest
<1>4. undone \in Layer /\ Ink(undone)
  BY <1>1, <1>2, CutInk DEF Ink, Still
<1> HIDE DEF undone
<1>5. ASSUME NEW m \in Layer, Ink(m)
      PROVE  forget(m) \in Layer /\ Ink(forget(m))
  BY <1>5, ForgetInk
<1> HIDE DEF forget
<1> QED BY <1>1, <1>3, <1>4, <1>5, IdleSteps, SameInk

-----------------------------------------------------------------------------
(* Setters                                                                 *)

\* Deactivation cuts the stroke in flight, whatever the pen goes on to do.
LEMMA SetActiveInk ==
  ASSUME NEW l, Safe(l), Ink(l), NEW on \in BOOLEAN
  PROVE  Ink(meta_annotation_layer_set_active(l, on))
<1> DEFINE a == [l EXCEPT !.active = TRUE]
           i == [l EXCEPT !.active = FALSE, !.barrel = {}, !.current = NoStroke,
                          !.last_ink = Desktop, !.last_ink_present = FALSE]
<1>0. l \in Layer
  BY DEF Safe, Sound
<1>1. a \in Layer /\ Content(a) = Content(l) /\ Pen(a) = Pen(l)
  BY <1>0 DEF Layer, Content, Pen
<1>2. i \in Layer
  BY <1>0, ZenonT(60) DEF Layer, Target, NoStroke
<1>3. /\ Content(i) = Content(l) /\ i.current = NoStroke
      /\ i.anchor = l.anchor /\ i.follow = l.follow
      /\ i.stroke_active = l.stroke_active
  BY <1>0 DEF Layer, Content
<1>4. meta_annotation_layer_set_active(l, on)
        = update_actor_visibility(IF on THEN a ELSE i)
  BY Zenon DEF meta_annotation_layer_set_active
<1> HIDE DEF a, i
<1>5. Ink(i)
  <2>1. HasRegion(i, l.anchor) <=> HasRegion(l, l.anchor)
    BY <1>3 DEF HasRegion, Content
  <2> QED BY <1>3, <2>1, SameInk DEF Ink, Still, Frames
<1> QED BY <1>1, <1>2, <1>4, <1>5, VisibilityInk, SameInk

\* A pause drops it.
LEMMA SetPausedInk ==
  ASSUME NEW l, Safe(l), Ink(l), NEW on \in BOOLEAN
  PROVE  Ink(meta_annotation_layer_set_paused(l, on))
<1> DEFINE cut == IF l.stroke_active THEN DropStroke(l) ELSE l
           p == [cut EXCEPT !.paused = TRUE, !.barrel = {}]
           q == [l EXCEPT !.paused = on]
<1>0. l \in Layer
  BY DEF Safe, Sound
<1>1. cut \in Layer /\ Ink(cut)
  BY <1>0, QuietSteps, DropInk DEF Ink, Still
<1>2. meta_annotation_layer_set_paused(l, on)
        = update_actor_visibility(IF on /\ ~l.paused THEN p ELSE q)
  BY Zenon DEF meta_annotation_layer_set_paused
<1> HIDE DEF cut
<1>3. p \in Layer /\ Content(p) = Content(cut) /\ Pen(p) = Pen(cut)
  BY <1>1 DEF Layer, Content, Pen
<1>4. q \in Layer /\ Content(q) = Content(l) /\ Pen(q) = Pen(l)
  BY <1>0 DEF Layer, Content, Pen
<1> HIDE DEF p, q
<1> QED BY <1>1, <1>2, <1>3, <1>4, VisibilityInk, SameInk

\* The windows that moved to another region are repainted, and a stroke in
\* flight over one of the windows is sealed: its frame would no longer be theirs.
LEMMA SetRegionInk ==
  ASSUME NEW l, Safe(l), Ink(l), NEW W \in SUBSET Window,
         NEW r \in Region \cup {NoRegion}
  PROVE  Ink(meta_annotation_layer_set_window_editor_region(l, W, r))
<1> DEFINE n == l.inked \cup W
           g == [w \in Window |-> IF w \in W THEN r ELSE l.region[w]]
           c == [l EXCEPT !.inked = n, !.region = g]
           cut == IF l.stroke_active /\ l.anchor \in W THEN SealStroke(c) ELSE c
           moved == {w \in W : l.region[w] # NoRegion \/ r # NoRegion}
           done == rasterize_all_strokes(cut, moved)
<1>1. /\ n \in SUBSET Window /\ g \in [Window -> Region \cup {NoRegion}]
      /\ l \in Layer /\ l.anchor \in Target
  BY DEF Safe, Sound, Layer
<1>2. meta_annotation_layer_set_window_editor_region(l, W, r) = schedule_recompose(done)
  BY Zenon DEF meta_annotation_layer_set_window_editor_region
<1>3. /\ \A w \in Window \ moved : g[w] = l.region[w]
      /\ \A w \in Window \ W : g[w] = l.region[w]
  OBVIOUS
<1> HIDE DEF n, g, moved
<1>4. /\ c \in Layer /\ c.strokes = l.strokes /\ c.drawn = l.drawn /\ c.region = g
      /\ c.scroll = l.scroll /\ c.heap = l.heap /\ c.next = l.next /\ Pen(c) = Pen(l)
  BY <1>1 DEF Layer, Pen
<1> HIDE DEF c
<1>5. cut \in Layer /\ Content(cut) = Content(c)
  <2>1. SealStroke(c) \in Layer
    BY <1>4, QuietSteps
  <2>2. Content(SealStroke(c)) = Content(c)
    BY <1>4 DEF Layer, Content, SealStroke, DropStroke
  <2> QED BY <1>4, <2>1, <2>2
<1>6. Frames(cut)
  <2>1. CASE l.stroke_active /\ l.anchor \in W
    <3>1. SealStroke(c).current = NoStroke /\ ~SealStroke(c).stroke_active
      BY <1>4 DEF Layer, SealStroke, DropStroke
    <3> QED BY <2>1, <3>1 DEF Frames
  <2>2. CASE ~l.stroke_active
    <3>1. cut = c /\ ~c.stroke_active /\ c.current = NoStroke
      BY <1>4, <2>2 DEF Pen, Safe, InFlight
    <3> QED BY <3>1 DEF Frames
  <2>3. CASE l.anchor \notin W
    <3>1. cut = c
      BY <2>3
    <3>2. HasRegion(c, l.anchor) <=> HasRegion(l, l.anchor)
      BY <1>3, <1>4, <2>3 DEF HasRegion
    <3>3. PaintFrame(c, l.anchor, l.follow) = PaintFrame(l, l.anchor, l.follow)
      BY <1>3, <1>4, <2>3 DEF PaintFrame, FrameOf
    <3>4. /\ c.stroke_active = l.stroke_active /\ c.current = l.current
          /\ c.anchor = l.anchor /\ c.follow = l.follow
      BY <1>4 DEF Pen
    <3> QED BY <1>4, <3>1, <3>2, <3>3, <3>4 DEF Frames, Ink
  <2> QED BY <2>1, <2>2, <2>3
<1> HIDE DEF cut
<1>7. /\ cut.strokes = l.strokes /\ cut.drawn = l.drawn /\ cut.region = g
      /\ cut.scroll = l.scroll /\ cut.heap = l.heap /\ cut.next = l.next
  BY <1>4, <1>5 DEF Content
<1>8. /\ Issued(cut)
      /\ \A t \in Target \ moved : cut.drawn[t] \subseteq Images(cut, t)
  <2>1. \A t \in Target \ moved : Images(cut, t) = Images(l, t)
    BY <1>3, <1>7, SameImages
  <2> QED BY <1>7, <2>1 DEF Ink, Issued, Picture
<1>9. done \in Layer /\ Ink(done)
  BY <1>5, <1>6, <1>8, RasterInk, PaintFlags
<1> HIDE DEF done
<1> QED BY <1>2, <1>9, IdleSteps, SameInk

\* A scroll repaints likewise; a stroke that does not follow it goes on.
LEMMA SetScrollInk ==
  ASSUME NEW l, Safe(l), Ink(l), NEW W, NEW s \in Scroll
  PROVE  Ink(meta_annotation_layer_set_window_scroll(l, W, s))
<1> DEFINE moved == {w \in W \cap l.inked : l.scroll[w] # s}
           g == [w \in Window |-> IF w \in moved THEN s ELSE l.scroll[w]]
           c == [l EXCEPT !.scroll = g]
           cut == IF l.stroke_active /\ l.anchor \in moved /\ l.follow
                    THEN SealStroke(c) ELSE c
           done == rasterize_all_strokes(cut, moved)
<1>1. g \in [Window -> Scroll] /\ l \in Layer /\ l.anchor \in Target
  BY DEF Safe, Sound, Layer
<1>2. meta_annotation_layer_set_window_scroll(l, W, s) = schedule_recompose(done)
  BY Zenon DEF meta_annotation_layer_set_window_scroll
<1>3. \A w \in Window \ moved : g[w] = l.scroll[w]
  OBVIOUS
<1> HIDE DEF g, moved
<1>4. /\ c \in Layer /\ c.strokes = l.strokes /\ c.drawn = l.drawn
      /\ c.region = l.region /\ c.scroll = g /\ c.heap = l.heap /\ c.next = l.next
      /\ Pen(c) = Pen(l)
  BY <1>1 DEF Layer, Pen
<1> HIDE DEF c
<1>5. cut \in Layer /\ Content(cut) = Content(c)
  <2>1. SealStroke(c) \in Layer
    BY <1>4, QuietSteps
  <2>2. Content(SealStroke(c)) = Content(c)
    BY <1>4 DEF Layer, Content, SealStroke, DropStroke
  <2> QED BY <1>4, <2>1, <2>2
<1>6. Frames(cut)
  <2>0. /\ c.stroke_active = l.stroke_active /\ c.current = l.current
        /\ c.anchor = l.anchor /\ c.follow = l.follow
    BY <1>4 DEF Pen
  <2>1. CASE l.stroke_active /\ l.anchor \in moved /\ l.follow
    <3>1. SealStroke(c).current = NoStroke /\ ~SealStroke(c).stroke_active
      BY <1>4 DEF Layer, SealStroke, DropStroke
    <3> QED BY <2>1, <3>1 DEF Frames
  <2>2. CASE ~l.stroke_active
    <3>1. cut = c /\ ~c.stroke_active /\ c.current = NoStroke
      BY <2>0, <2>2 DEF Safe, InFlight
    <3> QED BY <3>1 DEF Frames
  <2>3. CASE l.anchor \notin moved \/ ~l.follow
    <3>1. cut = c
      BY <2>3
    <3>2. HasRegion(c, l.anchor) <=> HasRegion(l, l.anchor)
      BY <1>4 DEF HasRegion
    <3>3. PaintFrame(c, l.anchor, l.follow) = PaintFrame(l, l.anchor, l.follow)
      BY <1>3, <1>4, <2>3 DEF PaintFrame, FrameOf
    <3> QED BY <1>4, <2>0, <3>1, <3>2, <3>3 DEF Frames, Ink
  <2> QED BY <2>1, <2>2, <2>3
<1> HIDE DEF cut
<1>7. /\ cut.strokes = l.strokes /\ cut.drawn = l.drawn /\ cut.region = l.region
      /\ cut.scroll = g /\ cut.heap = l.heap /\ cut.next = l.next
  BY <1>4, <1>5 DEF Content
<1>8. /\ Issued(cut)
      /\ \A t \in Target \ moved : cut.drawn[t] \subseteq Images(cut, t)
  <2>1. \A t \in Target \ moved : Images(cut, t) = Images(l, t)
    BY <1>3, <1>7, SameImages
  <2> QED BY <1>7, <2>1 DEF Ink, Issued, Picture
<1>9. done \in Layer /\ Ink(done)
  BY <1>5, <1>6, <1>8, RasterInk, PaintFlags
<1> HIDE DEF done
<1> QED BY <1>2, <1>9, IdleSteps, SameInk

-----------------------------------------------------------------------------
(* Signals                                                                 *)

\* The ink of a window goes with it, and a stroke in flight over it.
LEMMA UnmanagedInk ==
  ASSUME NEW l, Safe(l), Ink(l), NEW w \in Window
  PROVE  Ink(on_window_unmanaged(l, w))
<1> DEFINE cut == IF l.anchor = w THEN DropStroke(l) ELSE l
           undo == IF l.last_ink = w
                     THEN [cut EXCEPT !.last_ink = Desktop,
                                      !.last_ink_present = FALSE]
                     ELSE cut
           tap == IF l.tap_anchor = w THEN cancel_tap_pending(undo) ELSE undo
           wiped == WipeTarget(tap, w)
           n == wiped.inked \ {w}
           g == [wiped.region EXCEPT ![w] = NoRegion]
           sc == [wiped.scroll EXCEPT ![w] = 0]
           o == wiped.owed \cup {"layout"}
           m == [wiped EXCEPT !.inked = n, !.region = g, !.scroll = sc, !.owed = o]
<1>0. l \in Layer /\ w \in Target /\ w # Desktop
  BY ConstantsAssumption DEF Safe, Sound, Target
<1>1. on_window_unmanaged(l, w) = schedule_recompose(m)
  BY ZenonT(60) DEF on_window_unmanaged
<1>2. cut \in Layer /\ Ink(cut) /\ cut.anchor # w
  BY <1>0, QuietSteps, DropInk, DropSafe DEF Ink, Still, Safe
<1> HIDE DEF cut
<1>3. undo \in Layer /\ Ink(undo) /\ undo.anchor # w
  <2> DEFINE f == [cut EXCEPT !.last_ink = Desktop, !.last_ink_present = FALSE]
  <2>1. f \in Layer /\ Ink(f)
    BY <1>2, ForgetInk
  <2>2. f.anchor = cut.anchor
    BY <1>2 DEF Layer
  <2>3. undo = IF l.last_ink = w THEN f ELSE cut
    OBVIOUS
  <2> HIDE DEF f, undo
  <2> QED BY <1>2, <2>1, <2>2, <2>3
<1> HIDE DEF undo
<1>4. tap \in Layer /\ Ink(tap) /\ tap.anchor # w
  <2>1. LET k == cancel_tap_pending(undo)
        IN k \in Layer /\ Ink(k) /\ k.anchor # w
    BY <1>3, QuietSteps, IdleSteps, SameInk DEF Pen
  <2> QED BY <1>3, <2>1
<1> HIDE DEF tap
<1>5. /\ wiped \in Layer /\ Ink(wiped) /\ wiped.anchor # w
      /\ wiped.drawn[w] = {} /\ wiped.strokes[w] = {}
  <2>1. wiped \in Layer
    BY <1>0, <1>4, ZenonT(60) DEF Layer, WipeTarget, Cause
  <2> QED BY <1>0, <1>4, <2>1, WipeInk, WipeFields DEF Ink, Still
<1> HIDE DEF wiped
<1>6. /\ n \in SUBSET Window /\ g \in [Window -> Region \cup {NoRegion}]
      /\ sc \in [Window -> Scroll] /\ o \in SUBSET Cause
      /\ \A v \in Window : v # w => g[v] = wiped.region[v] /\ sc[v] = wiped.scroll[v]
  BY <1>5, ConstantsAssumption DEF Layer, Cause
<1> HIDE DEF n, g, sc, o
<1>7. /\ m \in Layer /\ m.strokes = wiped.strokes /\ m.drawn = wiped.drawn
      /\ m.region = g /\ m.scroll = sc /\ m.heap = wiped.heap /\ m.next = wiped.next
      /\ m.anchor = wiped.anchor /\ m.current = wiped.current
      /\ m.stroke_active = wiped.stroke_active /\ m.follow = wiped.follow
  BY <1>5, <1>6 DEF Layer
<1> HIDE DEF m
<1>8. Still(m)
  <2>1. \A t \in Target : t # w => Images(m, t) = Images(wiped, t)
    BY <1>6, <1>7, SameImages
  <2> QED BY <1>5, <1>7, <2>1 DEF Still, Ink, Issued, Picture
<1>9. Frames(m)
  <2>1. HasRegion(m, m.anchor) <=> HasRegion(wiped, m.anchor)
    BY <1>5, <1>6, <1>7 DEF HasRegion
  <2>2. PaintFrame(m, m.anchor, m.follow) = PaintFrame(wiped, m.anchor, m.follow)
    BY <1>5, <1>6, <1>7 DEF PaintFrame, FrameOf
  <2> QED BY <1>5, <1>7, <2>1, <2>2 DEF Ink, Frames
<1>10. Ink(m)
  BY <1>8, <1>9 DEF Ink, Still
<1> QED BY <1>1, <1>7, <1>10, IdleSteps, SameInk

\* A stage resize repaints the desktop's surface, the only one it replaces.
LEMMA StageInk ==
  ASSUME NEW l \in Layer, Ink(l), NEW sized \in BOOLEAN
  PROVE  Ink(on_stage_size_changed(l, sized))
<1> DEFINE b == [l EXCEPT !.surface = TRUE]
           r == rasterize_all_strokes(b, {Desktop})
           o == r.owed \cup {"layout"}
           fresh == [r EXCEPT !.owed = o]
           m == IF sized THEN schedule_recompose(fresh) ELSE l
<1>1. b \in Layer /\ Content(b) = Content(l) /\ Pen(b) = Pen(l)
  BY DEF Layer, Content, Pen
<1>2. on_stage_size_changed(l, sized) = DropStroke(m)
  BY Zenon DEF on_stage_size_changed
<1>3. Ink(b)
  BY <1>1, SameInk
<1> HIDE DEF b
<1>4. r \in Layer /\ Ink(r)
  BY <1>1, <1>3, PaintFlags, RasterInk DEF Ink, Picture
<1> HIDE DEF r
<1>5. fresh \in Layer /\ Ink(fresh)
  <2>1. o \in SUBSET Cause
    BY <1>4 DEF Layer, Cause
  <2> HIDE DEF o
  <2>2. fresh \in Layer
    BY <1>4, <2>1 DEF Layer
  <2> QED BY <1>4, <2>2, IdleSteps, SameInk
<1> HIDE DEF fresh
<1>6. m \in Layer /\ Still(m)
  BY <1>5, ScheduleType, IdleSteps, SameInk DEF Ink, Still
<1> HIDE DEF m
<1> QED BY <1>2, <1>6, DropInk

\* A move changes where a surface is composed, not the surface.
LEMMA MovedInk ==
  ASSUME NEW l \in Layer, Ink(l), NEW w
  PROVE  Ink(window_moved(l, w))
<1>1. ASSUME NEW c \in Cause
      PROVE  LET m == [l EXCEPT !.owed = @ \cup {c}] IN m \in Layer /\ Ink(m)
  <2> DEFINE m == [l EXCEPT !.owed = @ \cup {c}]
  <2>1. m \in Layer
    BY OweFlags
  <2>2. Content(m) = Content(l) /\ Pen(m) = Pen(l)
    BY DEF Layer, Content, Pen
  <2> QED BY <2>1, <2>2, SameInk
<1>2. \A c \in {"layout", "bystander"} : c \in Cause
  BY DEF Cause
<1> QED BY <1>1, <1>2, IdleSteps, SameInk DEF window_moved

-----------------------------------------------------------------------------
(* Every dispatch keeps the picture                                        *)

\* The struct starts with no stroke.
LEMMA InitInk == Init => InkInv
<1> SUFFICES ASSUME Init PROVE Ink(layer)
  BY InitInv DEF InkInv
<1>1. NewLayer \in Layer
  BY ConstantsAssumption
  DEF NewLayer, Layer, Target, StrokeId, NoStroke, Stroke, NullStroke, Frame,
      Pinned, Image, Cause
<1>2. Ink(NewLayer)
  BY DEF NewLayer, Ink, Issued, Picture, Frames, NoStroke
<1>3. PICK sized \in BOOLEAN : layer = on_stage_size_changed(NewLayer, sized)
  BY DEF Init
<1> QED BY <1>1, <1>2, <1>3, StageInk

\* Ink is about the struct alone.
LEMMA InkPrime == Ink(layer') => Ink(layer)'
  BY DEF Ink, Issued, Picture, Frames, Images, HasRegion, PaintFrame, FrameOf

\* Events of the pens, fingers and mice that draw.
LEMMA PenEventInk == InkInv /\ PenEvent => Ink(layer')
<1> SUFFICES ASSUME InkInv, PenEvent PROVE Ink(layer')
  OBVIOUS
<1>1. layer \in Layer /\ Safe(layer) /\ Ink(layer)
  BY DEF InkInv, Inv, Safe, Sound
<1>0. \A tip \in EraserTip : erase_is_active(layer, tip) \in BOOLEAN
  BY <1>1, ConstantsAssumption DEF erase_is_active
<1>2. ASSUME NEW b \in Barrel, BarrelPress(b) \/ BarrelRelease(b)
      PROVE  Ink(layer')
  <2>1. Content(layer') = Content(layer) /\ Pen(layer') = Pen(layer)
    BY <1>1, <1>2 DEF BarrelPress, BarrelRelease, Layer, Content, Pen
  <2> QED BY <1>1, <2>1, SameInk
<1>3. ASSUME NEW t \in Target, NEW inside \in BOOLEAN, NEW tip \in EraserTip,
             Press(t, inside, tip) \/ MotionBegins(t, inside, tip)
      PROVE  Ink(layer')
  <2> DEFINE e == erase_is_active(layer, tip)
             b == begin_stroke(layer, t, inside, e)
  <2>1. ~layer.paused /\ (e \/ layer.next <= MaxStroke)
    BY <1>3 DEF Press, MotionBegins, Receives, Visible, Room
  <2>2. Safe(b) /\ Ink(b) /\ b \in Layer
    <3> HIDE DEF e
    <3>1. e \in BOOLEAN
      BY <1>0 DEF e
    <3>2. Safe(b)
      BY <1>1, <2>1, <3>1, BeginSafe, ZenonT(60)
    <3>3. Ink(b)
      BY <1>1, <2>1, <3>1, BeginInk, ZenonT(60)
    <3> QED BY <3>2, <3>3 DEF Safe, Sound
  <2>3. layer' \in {[b EXCEPT !.pending_tap = TRUE, !.tap_anchor = t],
                    cancel_tap_pending(b)}
    BY <1>3 DEF Press, MotionBegins
  <2> HIDE DEF b
  <2>4. LET p == [b EXCEPT !.pending_tap = TRUE, !.tap_anchor = t]
        IN Content(p) = Content(b) /\ Pen(p) = Pen(b)
    BY <2>2 DEF Layer, Content, Pen
  <2> QED BY <2>2, <2>3, <2>4, IdleSteps, SameInk
<1>4. ASSUME NEW tip \in EraserTip, NEW drift \in BOOLEAN, NEW down \in BOOLEAN,
             NEW hit \in SUBSET StrokeId, MotionContinues(tip, hit, drift, down)
      PROVE  Ink(layer')
  <2> DEFINE d == continue_stroke(layer, erase_is_active(layer, tip), hit)
             c == IF drift THEN cancel_tap_pending(d) ELSE d
  <2>1. Safe(d) /\ Ink(d)
    BY <1>0, <1>1, <1>4, ContinueSafe, ContinueInk
    DEF MotionContinues, Receives, Visible, Room
  <2>2. layer' = IF down THEN c ELSE end_stroke(c)
    BY <1>4 DEF MotionContinues
  <2> HIDE DEF d
  <2>3. Safe(c) /\ Ink(c)
    BY <2>1, CancelTapSafe, IdleSteps, SameInk DEF Safe, Sound
  <2> HIDE DEF c
  <2> QED BY <2>2, <2>3, EndInk
<1>5. ASSUME NEW tip \in EraserTip, NEW hit \in SUBSET StrokeId,
             NEW g \in {"none", "triple", "quad"}, Release(tip, hit, g)
      PROVE  Ink(layer')
  <2> DEFINE d == IF layer.stroke_active
                    THEN continue_stroke(layer, erase_is_active(layer, tip), hit)
                    ELSE layer
  <2>1. Safe(d) /\ Ink(d)
    BY <1>0, <1>1, <1>5, ContinueSafe, ContinueInk
    DEF Release, Receives, Visible, Room
  <2>2. layer' = end_stroke(note_tap_release(d, g))
    BY <1>5 DEF Release
  <2> HIDE DEF d
  <2> QED BY <2>1, <2>2, TapReleaseSafe, TapReleaseInk, EndInk
<1>6. CASE TouchCancel
  BY <1>1, <1>6, CancelTapSafe, IdleSteps, SameInk, EndInk DEF TouchCancel
<1> QED BY <1>2, <1>3, <1>4, <1>5, <1>6 DEF PenEvent

\* Calls over D-Bus.
LEMMA CallInk == InkInv /\ Call => Ink(layer')
<1> SUFFICES ASSUME InkInv, Call PROVE Ink(layer')
  OBVIOUS
<1>1. layer \in Layer /\ Safe(layer) /\ Ink(layer)
  BY DEF InkInv, Inv, Safe, Sound
<1>2. CASE Clear \/ UndoLast
  BY <1>1, <1>2, ClearInk, UndoInk DEF Clear, UndoLast
<1>3. ASSUME NEW on \in BOOLEAN, SetActive(on) \/ SetPaused(on) PROVE Ink(layer')
  BY <1>1, <1>3, SetActiveInk, SetPausedInk DEF SetActive, SetPaused
<1>4. ASSUME NEW c \in Colour, SetColor(c) PROVE Ink(layer')
  <2>1. Content(layer') = Content(layer) /\ Pen(layer') = Pen(layer)
    BY <1>1, <1>4 DEF SetColor, Layer, Content, Pen
  <2> QED BY <1>1, <2>1, SameInk
<1>5. ASSUME NEW p \in Pid, NEW W \in SUBSET Window,
             NEW r \in Region \cup {NoRegion}, SetWindowEditorRegion(p, W, r)
      PROVE  Ink(layer')
  BY <1>1, <1>5, SetRegionInk DEF SetWindowEditorRegion
<1>6. ASSUME NEW p \in Pid, NEW s \in Scroll, SetWindowScroll(p, s)
      PROVE  Ink(layer')
  BY <1>1, <1>6, SetScrollInk DEF SetWindowScroll
<1>7. ASSUME NEW C \in SUBSET Chrome, SetChromeRegions(C) PROVE Ink(layer')
  <2> DEFINE o == IF C = layer.chrome THEN layer.owed ELSE layer.owed \cup {"chrome"}
             m == [layer EXCEPT !.chrome = C, !.owed = o]
  <2>1. o \in SUBSET Cause
    BY <1>1 DEF Layer, Cause
  <2>2. layer' = schedule_recompose(m)
    BY <1>7, Zenon DEF SetChromeRegions
  <2> HIDE DEF o
  <2>3. m \in Layer /\ Content(m) = Content(layer) /\ Pen(m) = Pen(layer)
    BY <1>1, <2>1 DEF Layer, Content, Pen
  <2> HIDE DEF m
  <2> QED BY <1>1, <2>2, <2>3, IdleSteps, SameInk
<1> QED BY <1>2, <1>3, <1>4, <1>5, <1>6, <1>7 DEF Call

\* Signals of windows and of the stage.
LEMMA SignalInk == InkInv /\ Signal => Ink(layer')
<1> SUFFICES ASSUME InkInv, Signal PROVE Ink(layer')
  OBVIOUS
<1>1. layer \in Layer /\ Safe(layer) /\ Ink(layer)
  BY DEF InkInv, Inv, Safe, Sound
<1>2. ASSUME NEW w \in Window, MapWindow(w) \/ UnmanageWindow(w)
      PROVE  Ink(layer')
  BY <1>1, <1>2, UnmanagedInk DEF MapWindow, UnmanageWindow
<1>3. ASSUME NEW w \in Window, WindowMoved(w) PROVE Ink(layer')
  BY <1>1, <1>3, MovedInk DEF WindowMoved
<1>4. ASSUME NEW w \in Window, WindowResized(w) PROVE Ink(layer')
  <2> DEFINE r == IF w \in layer.inked
                    THEN rasterize_all_strokes(layer, {w}) ELSE layer
  <2>1. r \in Layer /\ Ink(r)
    BY <1>1, PaintFlags, RasterInk DEF Ink, Picture
  <2>2. layer' = window_moved(r, w)
    BY <1>4 DEF WindowResized
  <2> HIDE DEF r
  <2> QED BY <2>1, <2>2, MovedInk
<1>5. CASE Restacked
  <2> DEFINE o == layer.owed \cup {"layout"}
             m == [layer EXCEPT !.owed = o]
  <2>1. m \in Layer
    BY <1>1, OweFlags DEF Cause
  <2>2. Ink(m)
    BY <1>1, IdleSteps, SameInk
  <2>3. layer' = schedule_recompose(m)
    BY <1>5 DEF Restacked
  <2> HIDE DEF m
  <2> QED BY <2>1, <2>2, <2>3, IdleSteps, SameInk
<1>6. ASSUME NEW sized \in BOOLEAN, StageResized(sized) PROVE Ink(layer')
  BY <1>1, <1>6, StageInk DEF StageResized
<1> QED BY <1>2, <1>3, <1>4, <1>5, <1>6 DEF Signal

\* Every dispatch leaves the surfaces showing what is stored.
LEMMA NextInk == InkInv /\ [Next]_vars => InkInv'
<1> SUFFICES ASSUME InkInv, [Next]_vars PROVE Ink(layer')
  BY NextInv, InkPrime DEF InkInv
<1>1. CASE RecomposeIdle
  <2> DEFINE m == [layer EXCEPT !.idle = FALSE]
  <2>1. layer \in Layer /\ m \in Layer /\ Ink(layer)
    BY DEF InkInv, Inv, Safe, Sound, Layer
  <2>2. Ink(m)
    BY <2>1, IdleSteps, SameInk
  <2>3. layer' = recompose(m)
    BY <1>1 DEF RecomposeIdle
  <2> HIDE DEF m
  <2> QED BY <2>1, <2>2, <2>3, IdleSteps, SameInk
<1>2. CASE UNCHANGED vars
  BY <1>2 DEF vars, InkInv
<1> QED BY <1>1, <1>2, PenEventInk, CallInk, SignalInk DEF Next

\* The surfaces show no deleted stroke, and none where it lay before the last
\* scroll or region update, for any number of windows, regions and offsets.
THEOREM NoInkIsGhost == Spec => []NoGhostInk
<1>1. InkInv => NoGhostInk
  BY DEF InkInv, Ink, Picture, NoGhostInk
<1> QED BY <1>1, InitInk, NextInk, PTL DEF Spec

\* The frame a stroke's points are converted with never changes while it is in
\* flight, because whatever would change it seals the stroke.
THEOREM FollowFrameIsStable == Spec => []FollowFrameStable
<1>1. InkInv => FollowFrameStable
  BY DEF InkInv, Ink, Frames, FollowFrameStable
<1> QED BY <1>1, InitInk, NextInk, PTL DEF Spec
=============================================================================
