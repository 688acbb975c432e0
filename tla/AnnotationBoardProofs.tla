----------------------- MODULE AnnotationBoardProofs -----------------------
(***************************************************************************)
(* AnnotationLayer implements Whiteboard, step by step: every dispatch of  *)
(* the main loop is one move of the whiteboard or none.                    *)
(*                                                                         *)
(* What a dispatch does is said of two layer values, before and after: it  *)
(* moves, draws, erases, undoes, wipes, clears, shows or hides.  One lemma *)
(* for each of these takes it to the whiteboard's action, and one for each *)
(* operator says which it is.                                              *)
(***************************************************************************)
EXTENDS AnnotationBoard, AnnotationLayerProofs, WellFoundedInduction

\* What the whiteboard sees is true only of a layer that keeps its ids, its
\* tap and its buffers in order.
Tidy(l) ==
  /\ l.current # NoStroke => l.current = l.next - 1
  /\ \A t, u \in Target : t # u => l.strokes[t] \cap l.strokes[u] = {}
  /\ l.pending_tap /\ l.stroke_active => l.tap_anchor = l.anchor
  /\ l.stroke_active => l.surface
  /\ l.barrel # {} => Visible(l) /\ l.surface

\* The inductive invariant.
BoardInv == DebtInv /\ InkInv /\ Tidy(layer)

-----------------------------------------------------------------------------
(* Moves of the whiteboard, between two layer values                       *)

Shown(l) == Visible(l) /\ l.surface

\* The gesture's own tap may have opened a stroke.
TapDraws(l, m) ==
  m.next = l.next \/ (Shown(l) /\ l.next \in StrokeId /\ m.next = l.next + 1)

Moves(l, m) ==
  /\ m.strokes = l.strokes /\ m.next = l.next
  /\ m.current \in {l.current, NoStroke}
  /\ (Lacks(l) => Lacks(m)) /\ (Shown(m) <=> Shown(l))

Draws(l, m, p) ==
  /\ Shown(l) /\ Shown(m) /\ l.next \in StrokeId
  /\ m.strokes = [l.strokes EXCEPT ![p] = @ \cup {l.next}]
  /\ m.next = l.next + 1
  /\ m.current \in {l.next, NoStroke}
  /\ (Lacks(l) => Lacks(m))

Erases(l, m, p, S) ==
  /\ Shown(l) /\ Shown(m) /\ S # {} /\ S \subseteq l.strokes[p]
  /\ m.strokes = [l.strokes EXCEPT ![p] = @ \ S]
  /\ m.next = l.next
  /\ m.current = NoStroke /\ Lacks(m)

Undoes(l, m, p) ==
  /\ l.strokes[p] # {}
  /\ m.strokes = [l.strokes EXCEPT ![p] = @ \ {Newest(l.strokes[p])}]
  /\ m.next = l.next
  /\ m.current = IF l.current = Newest(l.strokes[p]) THEN NoStroke ELSE l.current
  /\ Lacks(m) /\ (Shown(m) <=> Shown(l))

Wipes(l, m, p) ==
  /\ Shown(l) /\ Shown(m)
  /\ m.strokes = [l.strokes EXCEPT ![p] = {}]
  /\ TapDraws(l, m)
  /\ m.current = NoStroke /\ Lacks(m)

Clears(l, m) ==
  /\ m.strokes = [t \in Target |-> {}]
  /\ TapDraws(l, m)
  /\ m.current = NoStroke
  /\ (Lacks(m) <=> ~Shown(l)) /\ (Shown(m) <=> Shown(l))

\* Shown or hidden; what is shown is composed or not.
Turns(l, m) ==
  /\ m.strokes = l.strokes /\ m.next = l.next
  /\ \/ ~Shown(l) /\ Shown(m) /\ m.current = l.current
     \/ Shown(l) /\ ~Shown(m) /\ m.current = NoStroke /\ (Lacks(m) <=> Lacks(l))

\* A composite is made.
Composes(l, m) ==
  /\ m.strokes = l.strokes /\ m.next = l.next /\ m.current = l.current
  /\ Shown(l) /\ Shown(m) /\ Lacks(l) /\ ~Lacks(m)

\* Nothing the whiteboard sees.
Rests(l, m) ==
  /\ m.strokes = l.strokes /\ m.next = l.next /\ m.current = l.current
  /\ (Lacks(m) <=> Lacks(l)) /\ (Shown(m) <=> Shown(l))

\* The next id is new.
LEMMA NextId ==
  ASSUME NEW n \in Nat \ {0}
  PROVE  n \notin 1 .. n - 1 /\ 1 .. (n + 1) - 1 = (1 .. n - 1) \cup {n}
  OBVIOUS

\* The stroke in hand may end; no sheet changes.
LEMMA MoveStep ==
  ASSUME layer \in Layer, layer' \in Layer, managed' = managed,
         Moves(layer, layer')
  PROVE  Board!Next
<1>1. Board!Move
  BY DEF Moves, Board!Move, Board!Touched, Lacks, Shown, Visible
<1> QED BY <1>1 DEF Board!Next

\* A stroke that is added is a draw on the sheet of an open window.
LEMMA DrawStep ==
  ASSUME layer \in Layer, layer' \in Layer, managed' = managed,
         NEW p \in managed \cup {Desktop}, p \in Target, Draws(layer, layer', p)
  PROVE  Board!Next
<1>1. Board!Draw(p, layer.next)
  <2>1. layer.next \in Nat \ {0}
    BY ConstantsAssumption DEF Draws, StrokeId
  <2>2. /\ layer.next \notin 1 .. layer.next - 1
        /\ 1 .. layer'.next - 1 = (1 .. layer.next - 1) \cup {layer.next}
    BY <2>1, NextId DEF Draws
  <2> QED BY <2>2 DEF Draws, Board!Draw, Board!Touched, Lacks, Shown, Visible
<1>2. layer.next \in StrokeId
  BY DEF Draws
<1> QED BY <1>1, <1>2 DEF Board!Next, Board!Sheet, Target

\* Strokes that the eraser hits.
LEMMA EraseStep ==
  ASSUME layer \in Layer, layer' \in Layer, managed' = managed,
         NEW p \in Target, NEW S, Erases(layer, layer', p, S)
  PROVE  Board!Next
<1>1. Board!Erase(p, S) /\ S \in SUBSET layer.strokes[p]
  BY DEF Erases, Board!Erase, Lacks, Shown, Visible
<1> QED BY <1>1 DEF Board!Next, Board!Sheet, Target

\* The newest stroke of a sheet.
LEMMA UndoStep ==
  ASSUME layer \in Layer, layer' \in Layer, managed' = managed,
         NEW p \in Target, Undoes(layer, layer', p)
  PROVE  Board!Next
<1>1. Board!Undo(p)
  BY DEF Undoes, Newest, Board!Undo, Board!Last, Lacks, Shown, Visible
<1> QED BY <1>1 DEF Board!Next, Board!Sheet, Target

\* All strokes of a sheet.
LEMMA WipeStep ==
  ASSUME layer \in Layer, layer' \in Layer, managed' = managed,
         NEW p \in Target, Wipes(layer, layer', p)
  PROVE  Board!Next
<1>1. Board!Wipe(p)
  <2>1. Board!TapStroke
    BY DEF Layer, Wipes, TapDraws, Board!TapStroke, Shown, Visible, StrokeId
  <2> QED BY <2>1 DEF Wipes, Board!Wipe, Lacks, Shown, Visible
<1> QED BY <1>1 DEF Board!Next, Board!Sheet, Target

\* All strokes.
LEMMA ClearStep ==
  ASSUME layer \in Layer, layer' \in Layer, managed' = managed,
         Clears(layer, layer')
  PROVE  Board!Next
<1>1. Board!Clear
  <2>1. Board!TapStroke
    BY DEF Layer, Clears, TapDraws, Board!TapStroke, Shown, Visible, StrokeId
  <2>2. (layer'.owed \ {"bystander"} # {}) = ~(Visible(layer) /\ layer.surface)
    BY DEF Clears, Lacks, Shown
  <2>3. /\ (Visible(layer) /\ layer.surface)' = (Visible(layer) /\ layer.surface)
        /\ layer'.strokes = Board!Empty
    BY Zenon DEF Clears, Shown, Visible, Board!Empty, Board!Sheet, Target
  <2> QED BY <2>1, <2>2, <2>3 DEF Clears, Board!Clear
<1> QED BY <1>1 DEF Board!Next

\* The layer shows or hides.
LEMMA TurnStep ==
  ASSUME layer \in Layer, layer' \in Layer, managed' = managed,
         Turns(layer, layer')
  PROVE  Board!Next
<1>1. Board!Show \/ Board!Hide
  BY DEF Turns, Board!Show, Board!Hide, Lacks, Shown, Visible
<1> QED BY <1>1 DEF Board!Next

\* What is lacking is made up for.
LEMMA ComposeStep ==
  ASSUME layer \in Layer, layer' \in Layer, managed' = managed,
         Composes(layer, layer')
  PROVE  Board!Next
<1>1. Board!Compose
  BY DEF Composes, Board!Compose, Lacks, Shown, Visible
<1> QED BY <1>1 DEF Board!Next

\* Nothing that the whiteboard sees changes.
LEMMA RestStep ==
  ASSUME layer \in Layer, layer' \in Layer, managed' = managed,
         Rests(layer, layer')
  PROVE  UNCHANGED Board!vars
  BY DEF Rests, Board!vars, Lacks, Shown, Visible

-----------------------------------------------------------------------------
(* What the operators do to the fields the whiteboard and Tidy look at     *)

Sheets(l) == <<l.strokes, l.next>>
Hand(l)   == <<l.stroke_active, l.current, l.anchor>>
Tap(l)    == <<l.pending_tap, l.tap_anchor>>
Face(l)   == <<l.active, l.paused, l.surface, l.barrel>>
Seen(l)   == <<Sheets(l), Hand(l), Tap(l), Face(l)>>

\* The pen does not come down, and nothing is drawn.
Lifts(l, m) ==
  /\ m.next = l.next /\ m.current \in {l.current, NoStroke}
  /\ (m.stroke_active => l.stroke_active) /\ m.barrel \subseteq l.barrel

\* They are all of them, but for the history.
LEMMA SameSeen ==
  ASSUME NEW l, NEW m
  PROVE  /\ Seen(m) = Seen(l) /\ Tidy(l) => Tidy(m)
         /\ Face(m) = Face(l) => (Visible(m) <=> Visible(l)) /\ (Shown(m) <=> Shown(l))
         /\ Seen(m) = Seen(l) => Lifts(l, m)
  BY DEF Seen, Sheets, Hand, Tap, Face, Tidy, Shown, Visible, Lifts

\* A recompose that is scheduled is not made yet.
LEMMA ScheduleSees ==
  ASSUME NEW l \in Layer
  PROVE  /\ Seen(schedule_recompose(l)) = Seen(l)
         /\ schedule_recompose(l).owed = l.owed
<1>1. /\ Seen([l EXCEPT !.idle = TRUE]) = Seen(l)
      /\ [l EXCEPT !.idle = TRUE].owed = l.owed
  BY DEF Layer, Seen, Sheets, Hand, Tap, Face
<1>2. /\ Seen([l EXCEPT !.dirty = TRUE]) = Seen(l)
      /\ [l EXCEPT !.dirty = TRUE].owed = l.owed
  BY DEF Layer, Seen, Sheets, Hand, Tap, Face
<1> QED BY <1>1, <1>2 DEF schedule_recompose

\* A recompose is made if the layer shows.
LEMMA RecomposeSees ==
  ASSUME NEW l \in Layer, NEW b
  PROVE  /\ Seen(recompose(l)) = Seen(l)
         /\ recompose(l).owed = IF Shown(l) THEN {} ELSE l.owed
         /\ Seen([l EXCEPT !.idle = b]) = Seen(l)
         /\ [l EXCEPT !.idle = b].owed = l.owed
<1>1. /\ Seen([l EXCEPT !.idle = b]) = Seen(l)
      /\ [l EXCEPT !.idle = b].owed = l.owed
  BY DEF Layer, Seen, Sheets, Hand, Tap, Face
<1>2. /\ Seen([l EXCEPT !.dirty = TRUE]) = Seen(l)
      /\ [l EXCEPT !.dirty = TRUE].owed = l.owed
  BY DEF Layer, Seen, Sheets, Hand, Tap, Face
<1>3. /\ Seen([l EXCEPT !.dirty = FALSE, !.owed = {}]) = Seen(l)
      /\ [l EXCEPT !.dirty = FALSE, !.owed = {}].owed = {}
  BY DEF Layer, Seen, Sheets, Hand, Tap, Face
<1> QED BY <1>1, <1>2, <1>3 DEF recompose, Shown

\* A show makes one if the layer is dirty.
LEMMA VisibilitySees ==
  ASSUME NEW l \in Layer
  PROVE  LET m == update_actor_visibility(l)
         IN /\ Seen(m) = Seen(l)
            /\ m.owed = IF Shown(l) /\ l.dirty THEN {} ELSE l.owed
<1> DEFINE k == [l EXCEPT !.idle = FALSE]
<1>1. k \in Layer
  BY DEF Layer
<1>2. Seen(k) = Seen(l) /\ k.owed = l.owed
  BY RecomposeSees
<1>3. Seen(recompose(k)) = Seen(k) /\ recompose(k).owed = IF Shown(k) THEN {} ELSE k.owed
  BY <1>1, RecomposeSees
<1>4. Shown(k) <=> Shown(l)
  BY <1>2, SameSeen DEF Seen
<1>5. update_actor_visibility(l) = IF Visible(l) /\ l.dirty THEN recompose(k) ELSE l
  BY DEF update_actor_visibility
<1> QED BY <1>2, <1>3, <1>4, <1>5 DEF Shown

\* The stroke in flight leaves the hand and the anchor.
LEMMA DropSees ==
  ASSUME NEW l \in Layer
  PROVE  \A m \in {DropStroke(l), SealStroke(l)} :
           /\ Sheets(m) = Sheets(l) /\ Tap(m) = Tap(l) /\ Face(m) = Face(l)
           /\ Hand(m) = <<FALSE, NoStroke, Desktop>> /\ m.owed = l.owed
<1>1. LET m == DropStroke(l)
      IN /\ Sheets(m) = Sheets(l) /\ Tap(m) = Tap(l) /\ Face(m) = Face(l)
         /\ Hand(m) = <<FALSE, NoStroke, Desktop>> /\ m.owed = l.owed
  BY DEF Layer, Sheets, Hand, Tap, Face, DropStroke
<1>2. LET m == SealStroke(l)
      IN /\ Sheets(m) = Sheets(l) /\ Tap(m) = Tap(l) /\ Face(m) = Face(l)
         /\ Hand(m) = <<FALSE, NoStroke, Desktop>> /\ m.owed = l.owed
  BY DEF Layer, Sheets, Hand, Tap, Face, DropStroke, SealStroke
<1> QED BY <1>1, <1>2

\* A tap that is cancelled.
LEMMA CancelSees ==
  ASSUME NEW l \in Layer
  PROVE  LET m == cancel_tap_pending(l)
         IN /\ Sheets(m) = Sheets(l) /\ Hand(m) = Hand(l) /\ Face(m) = Face(l)
            /\ m.owed = l.owed /\ Tap(m) = <<FALSE, Desktop>>
  BY DEF Layer, Sheets, Hand, Tap, Face, cancel_tap_pending

\* Surfaces that are painted afresh.
LEMMA RasterSees ==
  ASSUME NEW l \in Layer, NEW T
  PROVE  LET m == rasterize_all_strokes(l, T)
         IN /\ m \in Layer /\ Seen(m) = Seen(l)
            /\ m.owed = IF T = {} THEN l.owed ELSE l.owed \cup {"ink"}
<1>1. LET m == rasterize_all_strokes(l, T)
      IN /\ Seen(m) = Seen(l)
         /\ m.owed = IF T = {} THEN l.owed ELSE l.owed \cup {"ink"}
  BY DEF Layer, Seen, Sheets, Hand, Tap, Face, rasterize_all_strokes
<1> QED BY <1>1, PaintFlags

-----------------------------------------------------------------------------
(* Operators that change no sheet                                          *)

\* The stroke in flight or the tap may end, and the composite may get stale.
Light(l, m) ==
  /\ Sheets(m) = Sheets(l) /\ Face(m) = Face(l) /\ l.owed \subseteq m.owed
  /\ \/ Hand(m) = Hand(l) /\ (Tap(m) = Tap(l) \/ ~m.pending_tap)
     \/ ~m.stroke_active /\ m.current = NoStroke

\* Then the whiteboard sees a move, before or after whatever else happened.
LEMMA LightMoves ==
  ASSUME NEW l, NEW m, Light(l, m)
  PROVE  /\ Moves(l, m) /\ Lifts(l, m)
         /\ Tidy(l) => Tidy(m)
         /\ \A k : Light(m, k) => Light(l, k)
         /\ \A k, p : Draws(k, l, p) => Draws(k, m, p)
         /\ \A k, p, S : Erases(k, l, p, S) => Erases(k, m, p, S)
<1>1. /\ m.strokes = l.strokes /\ m.next = l.next
      /\ m.active = l.active /\ m.paused = l.paused
      /\ m.surface = l.surface /\ m.barrel = l.barrel
      /\ l.owed \subseteq m.owed
      /\ m.current \in {l.current, NoStroke}
      /\ (Shown(m) <=> Shown(l)) /\ (Visible(m) <=> Visible(l))
  BY DEF Light, Sheets, Face, Hand, Shown, Visible
<1>2. \/ /\ m.stroke_active = l.stroke_active /\ m.current = l.current
         /\ m.anchor = l.anchor
         /\ m.pending_tap = l.pending_tap /\ m.tap_anchor = l.tap_anchor
      \/ /\ m.stroke_active = l.stroke_active /\ m.current = l.current
         /\ m.anchor = l.anchor /\ ~m.pending_tap
      \/ ~m.stroke_active /\ m.current = NoStroke
  BY DEF Light, Hand, Tap
<1>3. Lacks(l) => Lacks(m)
  BY <1>1 DEF Lacks
<1>4. Moves(l, m)
  BY <1>1, <1>3 DEF Moves
<1>5. Lifts(l, m)
  BY <1>1, <1>2 DEF Lifts
<1>6. Tidy(l) => Tidy(m)
  BY <1>1, <1>2 DEF Tidy
<1>7. \A k : Light(m, k) => Light(l, k)
  BY DEF Light, Hand, Tap
<1>8. \A k, p : Draws(k, l, p) => Draws(k, m, p)
  BY <1>1, <1>3 DEF Draws
<1>9. \A k, p, S : Erases(k, l, p, S) => Erases(k, m, p, S)
  BY <1>1, <1>3 DEF Erases
<1> QED BY <1>4, <1>5, <1>6, <1>7, <1>8, <1>9

\* The elementary ones.
LEMMA LightSteps ==
  ASSUME NEW l \in Layer
  PROVE  /\ Light(l, l)
         /\ Light(l, schedule_recompose(l))
         /\ Light(l, DropStroke(l)) /\ Light(l, SealStroke(l))
         /\ Light(l, cancel_tap_pending(l))
         /\ \A T : Light(l, rasterize_all_strokes(l, T))
         /\ \A c : Light(l, [l EXCEPT !.owed = @ \cup {c}])
<1>1. Light(l, l)
  BY DEF Light
<1>2. Light(l, schedule_recompose(l))
  BY ScheduleSees DEF Light, Seen
<1>3. Light(l, DropStroke(l)) /\ Light(l, SealStroke(l))
  <2>1. \A m : Hand(m) = <<FALSE, NoStroke, Desktop>>
          => ~m.stroke_active /\ m.current = NoStroke
    BY DEF Hand
  <2> QED BY <2>1, DropSees, ZenonT(30) DEF Light
<1>4. Light(l, cancel_tap_pending(l))
  BY CancelSees DEF Light, Tap
<1>5. ASSUME NEW T PROVE Light(l, rasterize_all_strokes(l, T))
  BY RasterSees DEF Light, Seen
<1>6. ASSUME NEW c PROVE Light(l, [l EXCEPT !.owed = @ \cup {c}])
  BY DEF Layer, Light, Sheets, Hand, Tap, Face
<1> QED BY <1>1, <1>2, <1>3, <1>4, <1>5, <1>6

\* The end of a stroke; the composite is as stale as it was.
LEMMA EndSees ==
  ASSUME NEW l \in Layer
  PROVE  LET m == end_stroke(l)
         IN /\ Light(l, m) /\ ~m.stroke_active /\ m.current = NoStroke
            /\ Sheets(m) = Sheets(l) /\ Face(m) = Face(l) /\ m.owed = l.owed
<1> DEFINE k == SealStroke(l)
<1>1. k \in Layer
  BY QuietSteps
<1>2. /\ Sheets(k) = Sheets(l) /\ Face(k) = Face(l)
      /\ Hand(k) = <<FALSE, NoStroke, Desktop>> /\ k.owed = l.owed
  BY DropSees
<1>3. end_stroke(l) = schedule_recompose(k)
  BY DEF end_stroke
<1> HIDE DEF k
<1>4. Seen(schedule_recompose(k)) = Seen(k) /\ schedule_recompose(k).owed = k.owed
  BY <1>1, ScheduleSees
<1> QED BY <1>2, <1>3, <1>4 DEF Seen, Light, Hand

\* A change of the geometry of windows, followed by a seal or not, a repaint
\* and a schedule.
LEMMA RepaintLight ==
  ASSUME NEW l \in Layer, NEW c \in Layer, Light(l, c), NEW T, NEW seal \in BOOLEAN
  PROVE  LET cut == IF seal THEN SealStroke(c) ELSE c
         IN Light(l, schedule_recompose(rasterize_all_strokes(cut, T)))
<1> DEFINE cut == IF seal THEN SealStroke(c) ELSE c
           done == rasterize_all_strokes(cut, T)
<1>1. cut \in Layer /\ Light(c, cut)
  BY QuietSteps, LightSteps
<1> HIDE DEF cut
<1>2. done \in Layer /\ Light(cut, done)
  BY <1>1, LightSteps, RasterSees
<1> HIDE DEF done
<1>3. Light(done, schedule_recompose(done))
  BY <1>2, LightSteps
<1>4. Light(l, cut)
  BY <1>1, LightMoves
<1>5. Light(l, done)
  BY <1>2, <1>4, LightMoves
<1>6. Light(l, schedule_recompose(done))
  BY <1>3, <1>5, LightMoves
<1> QED BY <1>6 DEF cut, done

\* An editor region that is set or cleared.
LEMMA RegionLight ==
  ASSUME NEW l \in Layer, NEW W \in SUBSET Window, NEW r \in Region \cup {NoRegion}
  PROVE  Light(l, meta_annotation_layer_set_window_editor_region(l, W, r))
<1> DEFINE n == l.inked \cup W
           g == [w \in Window |-> IF w \in W THEN r ELSE l.region[w]]
           c == [l EXCEPT !.inked = n, !.region = g]
           seal == l.stroke_active /\ l.anchor \in W
           moved == {w \in W : l.region[w] # NoRegion \/ r # NoRegion}
<1>1. /\ n \in SUBSET Window /\ g \in [Window -> Region \cup {NoRegion}]
      /\ seal \in BOOLEAN
  BY DEF Layer
<1>2. meta_annotation_layer_set_window_editor_region(l, W, r)
        = schedule_recompose(rasterize_all_strokes(
            IF seal THEN SealStroke(c) ELSE c, moved))
  BY Zenon DEF meta_annotation_layer_set_window_editor_region
<1> HIDE DEF n, g, moved, seal
<1>3. c \in Layer /\ Light(l, c)
  BY <1>1 DEF Layer, Light, Sheets, Hand, Tap, Face
<1> HIDE DEF c
<1> QED BY <1>1, <1>2, <1>3, RepaintLight

\* A scroll.
LEMMA ScrollLight ==
  ASSUME NEW l \in Layer, NEW W, NEW s \in Scroll
  PROVE  Light(l, meta_annotation_layer_set_window_scroll(l, W, s))
<1> DEFINE moved == {w \in W \cap l.inked : l.scroll[w] # s}
           g == [w \in Window |-> IF w \in moved THEN s ELSE l.scroll[w]]
           c == [l EXCEPT !.scroll = g]
           seal == l.stroke_active /\ l.anchor \in moved /\ l.follow
<1>1. g \in [Window -> Scroll] /\ seal \in BOOLEAN
  BY DEF Layer
<1>2. meta_annotation_layer_set_window_scroll(l, W, s)
        = schedule_recompose(rasterize_all_strokes(
            IF seal THEN SealStroke(c) ELSE c, moved))
  BY Zenon DEF meta_annotation_layer_set_window_scroll
<1> HIDE DEF g, moved, seal
<1>3. c \in Layer /\ Light(l, c)
  BY <1>1 DEF Layer, Light, Sheets, Hand, Tap, Face
<1> HIDE DEF c
<1> QED BY <1>1, <1>2, <1>3, RepaintLight

\* What makes the composite stale is scheduled, or is a bystander's.
LEMMA OweLight ==
  ASSUME NEW l \in Layer, NEW c \in Cause
  PROVE  LET m == [l EXCEPT !.owed = @ \cup {c}]
         IN m \in Layer /\ Light(l, m) /\ Light(l, schedule_recompose(m))
<1> DEFINE m == [l EXCEPT !.owed = @ \cup {c}]
<1>1. m \in Layer /\ Light(l, m)
  BY OweFlags, LightSteps
<1> HIDE DEF m
<1>2. Light(m, schedule_recompose(m))
  BY <1>1, LightSteps
<1> QED BY <1>1, <1>2, LightMoves DEF m

\* A window that moved.
LEMMA MovedLight ==
  ASSUME NEW l \in Layer, NEW w \in Window
  PROVE  Light(l, window_moved(l, w))
<1>1. "layout" \in Cause /\ "bystander" \in Cause
  BY DEF Cause
<1>2. /\ Light(l, schedule_recompose([l EXCEPT !.owed = @ \cup {"layout"}]))
      /\ Light(l, [l EXCEPT !.owed = @ \cup {"bystander"}])
      /\ Light(l, l)
  BY <1>1, OweLight, LightSteps
<1> QED BY <1>2 DEF window_moved

\* The stage's buffers: a fresh set shows what was hidden for want of one.
LEMMA StageSees ==
  ASSUME NEW l, Safe(l), Tidy(l), NEW sized \in BOOLEAN
  PROVE  LET m == on_stage_size_changed(l, sized)
         IN Tidy(m) /\ Lifts(l, m) /\ (Moves(l, m) \/ Turns(l, m))
<1> DEFINE b == [l EXCEPT !.surface = TRUE]
           r == rasterize_all_strokes(b, {Desktop})
           fresh == [r EXCEPT !.owed = @ \cup {"layout"}]
<1>1. l \in Layer
  BY DEF Safe, Sound
<1>2. /\ b \in Layer /\ Sheets(b) = Sheets(l) /\ Hand(b) = Hand(l) /\ Tap(b) = Tap(l)
      /\ b.active = l.active /\ b.paused = l.paused /\ b.barrel = l.barrel
      /\ b.surface /\ b.owed = l.owed
  BY <1>1 DEF Layer, Sheets, Hand, Tap
<1>3. on_stage_size_changed(l, sized)
        = DropStroke(IF sized THEN schedule_recompose(fresh) ELSE l)
  BY Zenon DEF on_stage_size_changed
<1> HIDE DEF b
<1>4. r \in Layer /\ Light(b, r)
  BY <1>2, RasterSees, LightSteps
<1> HIDE DEF r
<1>5. fresh \in Layer /\ Light(r, schedule_recompose(fresh))
  BY <1>4, OweLight DEF Cause
<1> HIDE DEF fresh
<1>6. Light(schedule_recompose(fresh), DropStroke(schedule_recompose(fresh)))
  BY <1>5, ScheduleType, LightSteps
<1>7. Light(b, DropStroke(schedule_recompose(fresh)))
  BY <1>4, <1>5, <1>6, LightMoves
<1>8. CASE ~sized
  BY <1>1, <1>3, <1>8, LightSteps, LightMoves
<1>9. CASE sized
  <2> DEFINE m == DropStroke(schedule_recompose(fresh))
  <2>1. /\ Sheets(m) = Sheets(l) /\ Face(m) = Face(b) /\ l.owed \subseteq m.owed
        /\ m.current \in {l.current, NoStroke} /\ m.current = NoStroke
        /\ Tidy(b) => Tidy(m)
        /\ ~m.stroke_active /\ m.barrel = l.barrel
    <3>1. Moves(b, m) /\ (Tidy(b) => Tidy(m)) /\ Face(m) = Face(b)
          /\ Sheets(m) = Sheets(b) /\ b.owed \subseteq m.owed
      BY <1>7, LightMoves DEF Light
    <3>2. Hand(m) = <<FALSE, NoStroke, Desktop>>
      BY <1>5, ScheduleType, DropSees
    <3> QED BY <1>2, <3>1, <3>2 DEF Hand, Face
  <2>2. on_stage_size_changed(l, sized) = m
    BY <1>3, <1>9
  <2> HIDE DEF m
  <2>3. Tidy(b)
    BY <1>2 DEF Tidy, Sheets, Hand, Tap, Visible
  <2>4. /\ m.strokes = l.strokes /\ m.next = l.next
        /\ (Shown(m) <=> Visible(l)) /\ (Lacks(l) => Lacks(m))
    BY <1>2, <2>1 DEF Sheets, Face, Shown, Visible, Lacks
  <2>5. ~l.surface => l.current = NoStroke
    BY DEF Tidy, Safe, InFlight
  <2>6. Lifts(l, m)
    BY <2>1, <2>4 DEF Lifts
  <2> QED BY <2>1, <2>2, <2>3, <2>4, <2>5, <2>6 DEF Moves, Turns, Shown
<1> QED BY <1>8, <1>9

-----------------------------------------------------------------------------
(* The pen on its sheet                                                    *)

\* A stroke with a new id is on one sheet only.
LEMMA NewStroke ==
  ASSUME NEW l \in Layer, Issued(l), Tidy(l), NEW p \in Target
  PROVE  LET ss == [l.strokes EXCEPT ![p] = @ \cup {l.next}]
         IN \A t, u \in Target : t # u => ss[t] \cap ss[u] = {}
<1>1. \A t \in Target : l.next \notin l.strokes[t]
  <2>1. ASSUME NEW t \in Target, l.next \in l.strokes[t] PROVE FALSE
    <3>1. l.next < l.next /\ l.next \in Nat
      BY <2>1, ConstantsAssumption DEF Issued, Layer
    <3> QED BY <3>1
  <2> QED BY <2>1
<1>2. l.strokes \in [Target -> SUBSET StrokeId]
  BY DEF Layer
<1> QED BY <1>1, <1>2 DEF Tidy

\* A point that opens a stroke, if none is in flight.
LEMMA AppendSees ==
  ASSUME NEW l \in Layer
  PROVE  LET a == append_ink_point(l)
         IN /\ l.current # NoStroke => a = l
            /\ l.current = NoStroke =>
                 /\ a.strokes = [l.strokes EXCEPT ![l.anchor] = @ \cup {l.next}]
                 /\ a.next = l.next + 1
                 /\ Hand(a) = <<l.stroke_active, l.next, l.anchor>>
                 /\ Tap(a) = Tap(l) /\ Face(a) = Face(l) /\ a.owed = l.owed
<1>1. l.current # NoStroke => append_ink_point(l) = l
  BY DEF append_ink_point
<1>2. ASSUME l.current = NoStroke
      PROVE  LET a == append_ink_point(l)
             IN /\ a.strokes = [l.strokes EXCEPT ![l.anchor] = @ \cup {l.next}]
                /\ a.next = l.next + 1
                /\ Hand(a) = <<l.stroke_active, l.next, l.anchor>>
                /\ Tap(a) = Tap(l) /\ Face(a) = Face(l) /\ a.owed = l.owed
  BY <1>2 DEF Layer, Hand, Tap, Face, append_ink_point
<1> QED BY <1>1, <1>2

\* What a press does: with the eraser it only anchors, with ink it opens a
\* stroke.
Begins(l, b, t, erase) ==
  /\ Tap(b) = Tap(l) /\ Face(b) = Face(l) /\ b.owed = l.owed
  /\ erase => Sheets(b) = Sheets(l) /\ Hand(b) = <<TRUE, NoStroke, t>>
  /\ ~erase => /\ b.strokes = [l.strokes EXCEPT ![t] = @ \cup {l.next}]
               /\ b.next = l.next + 1
               /\ Hand(b) = <<TRUE, l.next, t>>

\* begin_stroke does it.
LEMMA BeginSees ==
  ASSUME NEW l \in Layer, NEW t \in Target,
         NEW inside \in BOOLEAN, NEW erase \in BOOLEAN
  PROVE  Begins(l, begin_stroke(l, t, inside, erase), t, erase)
<1> DEFINE e == ensure_window_ink(l, t)
           fl == ~erase /\ inside /\ HasRegion(l, t)
           b == [e EXCEPT !.anchor = t, !.current = NoStroke,
                          !.stroke_active = TRUE, !.follow = fl]
           c == [b EXCEPT !.last_ink = t, !.last_ink_present = TRUE]
<1>1. e \in Layer /\ Seen(e) = Seen(l) /\ e.owed = l.owed
  <2>1. e \in Layer
    BY DEF ensure_window_ink, Layer
  <2>2. Seen(e) = Seen(l) /\ e.owed = l.owed
    BY DEF ensure_window_ink, Layer, Seen, Sheets, Hand, Tap, Face
  <2> QED BY <2>1, <2>2
<1>2. begin_stroke(l, t, inside, erase) = IF erase THEN b ELSE append_ink_point(c)
  BY DEF begin_stroke
<1>3. fl \in BOOLEAN
  OBVIOUS
<1> HIDE DEF e, fl
<1>4. b \in Layer
  BY <1>1, <1>3, ZenonT(60) DEF Layer, NoStroke
<1>5. /\ Sheets(b) = Sheets(l) /\ Tap(b) = Tap(l) /\ Face(b) = Face(l)
      /\ b.owed = l.owed /\ Hand(b) = <<TRUE, NoStroke, t>>
  <2>1. /\ Sheets(b) = Sheets(e) /\ Tap(b) = Tap(e) /\ Face(b) = Face(e)
        /\ b.owed = e.owed /\ Hand(b) = <<TRUE, NoStroke, t>>
    BY <1>1 DEF Layer, Sheets, Hand, Tap, Face
  <2> QED BY <1>1, <2>1 DEF Seen
<1> HIDE DEF b
<1>6. /\ c \in Layer /\ Sheets(c) = Sheets(b) /\ Tap(c) = Tap(b)
      /\ Face(c) = Face(b) /\ c.owed = b.owed /\ Hand(c) = Hand(b)
  <2>1. c \in Layer
    BY <1>4 DEF Layer
  <2>2. /\ Sheets(c) = Sheets(b) /\ Tap(c) = Tap(b)
        /\ Face(c) = Face(b) /\ c.owed = b.owed /\ Hand(c) = Hand(b)
    BY <1>4 DEF Layer, Sheets, Hand, Tap, Face
  <2> QED BY <2>1, <2>2
<1> HIDE DEF c
<1>7. /\ c.strokes = l.strokes /\ c.next = l.next
      /\ c.stroke_active /\ c.current = NoStroke /\ c.anchor = t
  BY <1>5, <1>6 DEF Sheets, Hand
<1>8. CASE erase
  BY <1>2, <1>5, <1>8 DEF Begins
<1>9. CASE ~erase
  <2>1. LET a == append_ink_point(c)
        IN /\ a.strokes = [l.strokes EXCEPT ![t] = @ \cup {l.next}]
           /\ a.next = l.next + 1
           /\ Hand(a) = <<c.stroke_active, l.next, t>>
           /\ Tap(a) = Tap(c) /\ Face(a) = Face(c) /\ a.owed = c.owed
    BY <1>6, <1>7, AppendSees
  <2>2. c.stroke_active = TRUE
    BY <1>6, <1>7 DEF Layer
  <2> QED BY <1>2, <1>5, <1>6, <1>9, <2>1, <2>2 DEF Begins
<1> QED BY <1>8, <1>9

\* The press and what becomes of the tap.
LEMMA BeginMoves ==
  ASSUME NEW l, Safe(l), Issued(l), Tidy(l), Shown(l), NEW t \in Target,
         NEW inside \in BOOLEAN, NEW erase \in BOOLEAN,
         erase \/ l.next <= MaxStroke, NEW m,
         LET b == begin_stroke(l, t, inside, erase)
         IN /\ Sheets(m) = Sheets(b) /\ Hand(m) = Hand(b) /\ Face(m) = Face(b)
            /\ m.owed = b.owed,
         Tap(m) \in {<<TRUE, t>>, <<FALSE, Desktop>>}
  PROVE  Tidy(m) /\ (Moves(l, m) \/ Draws(l, m, t))
<1> DEFINE b == begin_stroke(l, t, inside, erase)
<1>1. l \in Layer
  BY DEF Safe, Sound
<1>2. Begins(l, b, t, erase)
  BY <1>1, BeginSees
<1>3. Sheets(m) = Sheets(b) /\ Hand(m) = Hand(b) /\ Face(m) = Face(b) /\ m.owed = b.owed
  OBVIOUS
<1> HIDE DEF b
<1>4. /\ m.owed = l.owed /\ Face(m) = Face(l)
      /\ m.stroke_active /\ m.anchor = t
      /\ m.current = IF erase THEN NoStroke ELSE l.next
      /\ m.pending_tap => m.tap_anchor = t
  BY <1>2, <1>3 DEF Begins, Hand, Tap
<1>5. /\ Shown(m) /\ m.surface /\ (m.barrel # {} => Visible(m))
      /\ (Lacks(l) => Lacks(m))
  BY <1>4 DEF Face, Shown, Visible, Lacks
<1>6. CASE erase
  <2>1. m.strokes = l.strokes /\ m.next = l.next
    BY <1>2, <1>3, <1>6 DEF Begins, Sheets
  <2> QED BY <1>4, <1>5, <1>6, <2>1 DEF Tidy, Moves
<1>7. CASE ~erase
  <2>1. /\ m.strokes = [l.strokes EXCEPT ![t] = @ \cup {l.next}]
        /\ m.next = l.next + 1
    BY <1>2, <1>3, <1>7 DEF Begins, Sheets
  <2>2. l.next \in StrokeId /\ l.next \in Nat
    BY <1>1, <1>7, ConstantsAssumption DEF Layer, StrokeId
  <2>3. \A p, u \in Target : p # u => m.strokes[p] \cap m.strokes[u] = {}
    BY <1>1, <2>1, NewStroke
  <2>4. m.current = m.next - 1
    BY <1>4, <1>7, <2>1, <2>2
  <2>5. Tidy(m)
    BY <1>4, <1>5, <2>3, <2>4 DEF Tidy
  <2>6. Draws(l, m, t)
    BY <1>4, <1>5, <1>7, <2>1, <2>2 DEF Draws
  <2> QED BY <2>5, <2>6
<1> QED BY <1>6, <1>7

\* A segment of ink may open the stroke it belongs to.
LEMMA InkMoves ==
  ASSUME NEW l, Safe(l), Issued(l), Tidy(l), Shown(l), l.stroke_active, ~l.paused,
         l.current # NoStroke \/ l.next <= MaxStroke
  PROVE  LET m == ink_segment(l)
         IN /\ Tidy(m) /\ Tap(m) = Tap(l) /\ Face(m) = Face(l)
            /\ Moves(l, m) \/ Draws(l, m, l.anchor)
<1> DEFINE a == append_ink_point(l)
           d == [a.drawn EXCEPT ![a.anchor] =
                   @ \cup {[stroke |-> a.current,
                            frame |-> PaintFrame(a, a.anchor, a.follow)]}]
           o == a.owed \cup {"ink"}
           m == [a EXCEPT !.drawn = d, !.owed = o]
<1>1. l \in Layer /\ l.anchor \in Target
  BY DEF Safe, Sound, Layer
<1>2. a \in Layer
  BY AppendSafe DEF Safe, Sound
<1>3. ink_segment(l) = m
  BY Zenon DEF ink_segment
<1>4. /\ Tidy(a) /\ Tap(a) = Tap(l) /\ Face(a) = Face(l)
      /\ Moves(l, a) \/ Draws(l, a, l.anchor)
  <2>1. CASE l.current # NoStroke
    <3>1. a = l
      BY <1>1, <2>1, AppendSees
    <3>2. Light(l, l)
      BY <1>1, LightSteps
    <3> QED BY <3>1, <3>2, LightMoves
  <2>2. CASE l.current = NoStroke
    <3>1. /\ a.strokes = [l.strokes EXCEPT ![l.anchor] = @ \cup {l.next}]
          /\ a.next = l.next + 1
          /\ Hand(a) = <<l.stroke_active, l.next, l.anchor>>
          /\ Tap(a) = Tap(l) /\ Face(a) = Face(l) /\ a.owed = l.owed
      BY <1>1, <2>2, AppendSees
    <3> HIDE DEF a
    <3>2. l.next \in StrokeId /\ l.next \in Nat
      BY <1>1, <2>2, ConstantsAssumption DEF Layer, StrokeId
    <3>3. \A p, u \in Target : p # u => a.strokes[p] \cap a.strokes[u] = {}
      BY <1>1, <3>1, NewStroke
    <3>4. /\ a.current = l.next /\ a.anchor = l.anchor
          /\ a.stroke_active = l.stroke_active
          /\ a.pending_tap = l.pending_tap /\ a.tap_anchor = l.tap_anchor
          /\ a.surface = l.surface /\ a.barrel = l.barrel
          /\ (Visible(a) <=> Visible(l)) /\ (Shown(a) <=> Shown(l))
          /\ (Lacks(l) => Lacks(a))
      BY <3>1 DEF Hand, Tap, Face, Visible, Shown, Lacks
    <3>5. Tidy(a)
      BY <3>1, <3>2, <3>3, <3>4 DEF Tidy
    <3>6. Draws(l, a, l.anchor)
      BY <3>1, <3>2, <3>4 DEF Draws
    <3> QED BY <3>1, <3>5, <3>6
  <2> QED BY <2>1, <2>2
<1> HIDE DEF a, d
<1>5. Light(a, m) /\ Tap(m) = Tap(a) /\ Face(m) = Face(a)
  BY <1>2 DEF Layer, Light, Sheets, Hand, Tap, Face
<1> HIDE DEF m
<1>6. Moves(l, a) => Moves(l, m)
  BY <1>5, LightMoves DEF Moves
<1> QED BY <1>3, <1>4, <1>5, <1>6, LightMoves

\* A segment of the eraser ends the stroke in flight, and erases what it hits.
LEMMA EraseMoves ==
  ASSUME NEW l, Safe(l), Tidy(l), Shown(l), NEW hit \in SUBSET l.strokes[l.anchor]
  PROVE  LET m == erase_segment(l, hit)
         IN /\ Tidy(m) /\ Tap(m) = Tap(l) /\ Face(m) = Face(l)
            /\ Moves(l, m) \/ Erases(l, m, l.anchor, hit)
<1> DEFINE c == [l EXCEPT !.current = NoStroke]
           e == [c EXCEPT !.strokes[l.anchor] = @ \ hit]
           r == rasterize_all_strokes(e, {l.anchor})
<1>1. l \in Layer /\ l.anchor \in Target
  BY DEF Safe, Sound, Layer
<1>2. /\ c \in Layer /\ c.strokes = l.strokes /\ c.next = l.next
      /\ Hand(c) = <<l.stroke_active, NoStroke, l.anchor>>
      /\ Tap(c) = Tap(l) /\ Face(c) = Face(l) /\ c.owed = l.owed
  <2>1. c \in Layer
    BY <1>1 DEF Layer, NoStroke
  <2>2. /\ c.strokes = l.strokes /\ c.next = l.next
        /\ Hand(c) = <<l.stroke_active, NoStroke, l.anchor>>
        /\ Tap(c) = Tap(l) /\ Face(c) = Face(l) /\ c.owed = l.owed
    BY <1>1 DEF Layer, Hand, Tap, Face
  <2> QED BY <2>1, <2>2
<1>3. erase_segment(l, hit) = IF hit = {} THEN c ELSE r
  BY DEF erase_segment
<1> HIDE DEF c
<1>4. CASE hit = {}
  <2>1. /\ c.current = NoStroke /\ c.stroke_active = l.stroke_active
        /\ c.anchor = l.anchor
        /\ c.pending_tap = l.pending_tap /\ c.tap_anchor = l.tap_anchor
        /\ c.surface = l.surface /\ c.barrel = l.barrel
        /\ (Visible(c) <=> Visible(l)) /\ (Shown(c) <=> Shown(l))
        /\ (Lacks(l) => Lacks(c))
    BY <1>2 DEF Hand, Tap, Face, Visible, Shown, Lacks
  <2>2. Tidy(c) /\ Moves(l, c)
    BY <1>2, <2>1 DEF Tidy, Moves
  <2> QED BY <1>2, <1>3, <1>4, <2>2
<1>5. CASE hit # {}
  <2>1. /\ e \in Layer
        /\ e.strokes = [l.strokes EXCEPT ![l.anchor] = @ \ hit] /\ e.next = l.next
        /\ Hand(e) = Hand(c) /\ Tap(e) = Tap(c) /\ Face(e) = Face(c)
    <3>1. e \in Layer
      BY <1>1, <1>2, ZenonT(60) DEF Layer
    <3>2. /\ e.strokes = [l.strokes EXCEPT ![l.anchor] = @ \ hit] /\ e.next = l.next
          /\ Hand(e) = Hand(c) /\ Tap(e) = Tap(c) /\ Face(e) = Face(c)
      BY <1>1, <1>2 DEF Layer, Hand, Tap, Face
    <3> QED BY <3>1, <3>2
  <2> HIDE DEF e
  <2>2. Seen(r) = Seen(e) /\ r.owed = e.owed \cup {"ink"}
    BY <2>1, RasterSees
  <2> HIDE DEF r
  <2>3. /\ r.strokes = [l.strokes EXCEPT ![l.anchor] = @ \ hit] /\ r.next = l.next
        /\ r.current = NoStroke /\ r.stroke_active = l.stroke_active
        /\ r.anchor = l.anchor
        /\ Tap(r) = Tap(l) /\ Face(r) = Face(l)
    BY <1>2, <2>1, <2>2 DEF Seen, Sheets, Hand
  <2>4. Lacks(r)
    BY <2>2 DEF Lacks
  <2>5. /\ r.pending_tap = l.pending_tap /\ r.tap_anchor = l.tap_anchor
        /\ r.surface = l.surface /\ r.barrel = l.barrel
        /\ (Visible(r) <=> Visible(l)) /\ (Shown(r) <=> Shown(l))
    BY <2>3 DEF Tap, Face, Visible, Shown
  <2>6. \A t \in Target : r.strokes[t] \subseteq l.strokes[t]
    BY <1>1, <2>3 DEF Layer
  <2>7. \A t, u \in Target : t # u => r.strokes[t] \cap r.strokes[u] = {}
    BY <2>6 DEF Tidy
  <2>8. Tidy(r)
    BY <2>3, <2>5, <2>7 DEF Tidy
  <2>9. Erases(l, r, l.anchor, hit)
    BY <1>5, <2>3, <2>4, <2>5 DEF Erases
  <2> QED BY <1>3, <1>5, <2>3, <2>8, <2>9
<1> QED BY <1>4, <1>5

\* A segment of either kind, in flight.
LEMMA ContinueMoves ==
  ASSUME NEW l, Safe(l), Issued(l), Tidy(l), Shown(l), l.stroke_active, ~l.paused,
         NEW erase \in BOOLEAN, NEW hit \in SUBSET l.strokes[l.anchor],
         erase \/ l.current # NoStroke \/ l.next <= MaxStroke
  PROVE  LET m == continue_stroke(l, erase, hit)
         IN /\ m \in Layer /\ Tidy(m) /\ Tap(m) = Tap(l) /\ Face(m) = Face(l)
            /\ Moves(l, m) \/ Draws(l, m, l.anchor) \/ Erases(l, m, l.anchor, hit)
<1> DEFINE k == IF erase THEN erase_segment(l, hit) ELSE ink_segment(l)
<1>1. k \in Layer
  <2>1. CASE erase
    BY <2>1, EraseSegmentSafe DEF Safe, Sound
  <2>2. CASE ~erase
    BY <2>2, InkSegmentSafe DEF Safe, Sound
  <2> QED BY <2>1, <2>2
<1>2. /\ Tidy(k) /\ Tap(k) = Tap(l) /\ Face(k) = Face(l)
      /\ Moves(l, k) \/ Draws(l, k, l.anchor) \/ Erases(l, k, l.anchor, hit)
  <2>1. CASE erase
    BY <2>1, EraseMoves
  <2>2. CASE ~erase
    BY <2>2, InkMoves
  <2> QED BY <2>1, <2>2
<1>3. continue_stroke(l, erase, hit) = schedule_recompose(k)
  BY DEF continue_stroke
<1> HIDE DEF k
<1>4. /\ Light(k, schedule_recompose(k)) /\ Seen(schedule_recompose(k)) = Seen(k)
      /\ schedule_recompose(k) \in Layer
  BY <1>1, LightSteps, ScheduleSees, ScheduleType
<1>5. Moves(l, k) => Moves(l, schedule_recompose(k))
  BY <1>4, LightMoves DEF Moves
<1> QED BY <1>2, <1>3, <1>4, <1>5, LightMoves DEF Seen

-----------------------------------------------------------------------------
(* Clearing                                                                *)

\* A layer keeps its order when it loses strokes and keeps its pen, or has
\* none in flight.
LEMMA TidyFewer ==
  ASSUME NEW l, Tidy(l), NEW m, Face(m) = Face(l),
         \/ ~m.stroke_active /\ m.current = NoStroke
         \/ /\ Hand(m) = Hand(l) /\ m.next = l.next
            /\ Tap(m) = Tap(l) \/ ~m.pending_tap,
         \A t \in Target : m.strokes[t] \subseteq l.strokes[t]
  PROVE  Tidy(m)
<1>1. m.surface = l.surface /\ m.barrel = l.barrel /\ (Visible(m) <=> Visible(l))
  BY DEF Face, Visible
<1>2. \A t, u \in Target : t # u => m.strokes[t] \cap m.strokes[u] = {}
  BY DEF Tidy
<1>3. CASE ~m.stroke_active /\ m.current = NoStroke
  BY <1>1, <1>2, <1>3 DEF Tidy
<1>4. CASE /\ Hand(m) = Hand(l) /\ m.next = l.next
           /\ Tap(m) = Tap(l) \/ ~m.pending_tap
  <2>1. /\ m.stroke_active = l.stroke_active /\ m.current = l.current
        /\ m.anchor = l.anchor
        /\ m.pending_tap => l.pending_tap /\ m.tap_anchor = l.tap_anchor
    BY <1>4 DEF Hand, Tap
  <2> QED BY <1>1, <1>2, <1>4, <2>1 DEF Tidy
<1> QED BY <1>3, <1>4

\* Nothing is left, and a layer that shows has composed that.
LEMMA ClearSees ==
  ASSUME NEW l \in Layer
  PROVE  LET m == meta_annotation_layer_clear(l)
         IN /\ m \in Layer
            /\ m.strokes = [t \in Target |-> {}] /\ m.next = l.next
            /\ Face(m) = Face(l) /\ Hand(m) = <<FALSE, NoStroke, Desktop>>
            /\ Lacks(m) <=> ~Shown(l)
<1> DEFINE d == DropStroke(l)
           none == [t \in Target |-> {}]
           o == d.owed \cup {"ink"}
           c == [d EXCEPT !.strokes = none, !.drawn = none, !.owed = o,
                          !.last_ink = Desktop, !.last_ink_present = FALSE,
                          !.idle = FALSE]
<1>1. /\ d \in Layer /\ Sheets(d) = Sheets(l) /\ Face(d) = Face(l)
      /\ Hand(d) = <<FALSE, NoStroke, Desktop>>
  BY QuietSteps, DropSees
<1>2. meta_annotation_layer_clear(l) = recompose(c)
  BY Zenon DEF meta_annotation_layer_clear
<1> HIDE DEF d
<1>3. /\ none \in [Target -> SUBSET StrokeId] /\ none \in [Target -> SUBSET Image]
      /\ o \in SUBSET Cause /\ Desktop \in Target /\ "ink" \in o
  BY <1>1 DEF Layer, Cause, Target
<1> HIDE DEF none, o
<1>4. c \in Layer
  BY <1>1, <1>3, ZenonT(60) DEF Layer
<1>5. c.strokes = none /\ c.next = d.next /\ c.owed = o
  BY <1>1, ZenonT(60) DEF Layer
<1>6. Face(c) = Face(d) /\ Hand(c) = Hand(d)
  BY <1>1, ZenonT(60) DEF Layer, Face, Hand
<1> HIDE DEF c
<1>7. /\ recompose(c) \in Layer /\ Seen(recompose(c)) = Seen(c)
      /\ recompose(c).owed = IF Shown(c) THEN {} ELSE c.owed
  BY <1>4, RecomposeSees, ScheduleType
<1>8. Shown(c) <=> Shown(l)
  BY <1>1, <1>6, SameSeen
<1>9. Lacks(recompose(c)) <=> ~Shown(l)
  BY <1>3, <1>5, <1>7, <1>8 DEF Lacks
<1> QED BY <1>1, <1>2, <1>5, <1>6, <1>7, <1>9 DEF Seen, Sheets, none

\* One sheet is emptied.
LEMMA ClearAnchorSees ==
  ASSUME NEW l \in Layer, NEW t \in Target
  PROVE  LET m == clear_ink_for_anchor(l, t)
         IN /\ m \in Layer
            /\ m.strokes = [l.strokes EXCEPT ![t] = {}] /\ m.next = l.next
            /\ Face(m) = Face(l) /\ Lacks(m)
<1> DEFINE w == WipeTarget(l, t)
           c == IF l.anchor = t THEN DropStroke(w) ELSE w
           f == [c EXCEPT !.last_ink = Desktop, !.last_ink_present = FALSE]
           r == IF l.last_ink = t THEN f ELSE c
<1>1. /\ w \in Layer /\ Face(w) = Face(l) /\ Lacks(w)
      /\ w.strokes = [l.strokes EXCEPT ![t] = {}] /\ w.next = l.next
  <2>1. w \in Layer
    BY DEF WipeTarget, Layer, Cause
  <2>2. /\ Face(w) = Face(l) /\ w.owed = l.owed \cup {"ink"}
        /\ w.strokes = [l.strokes EXCEPT ![t] = {}] /\ w.next = l.next
    BY DEF WipeTarget, Layer, Face
  <2> QED BY <2>1, <2>2 DEF Lacks
<1>2. clear_ink_for_anchor(l, t) = schedule_recompose(r)
  BY Zenon DEF clear_ink_for_anchor
<1> HIDE DEF w
<1>3. c \in Layer /\ Face(c) = Face(w) /\ Sheets(c) = Sheets(w) /\ c.owed = w.owed
  BY <1>1, QuietSteps, DropSees
<1> HIDE DEF c
<1>4. r \in Layer /\ Face(r) = Face(c) /\ Sheets(r) = Sheets(c) /\ r.owed = c.owed
  <2>1. f \in Layer
    BY <1>3, ZenonT(60) DEF Layer, Target
  <2>2. Face(f) = Face(c) /\ Sheets(f) = Sheets(c) /\ f.owed = c.owed
    BY <1>3 DEF Layer, Face, Sheets
  <2> QED BY <1>3, <2>1, <2>2
<1> HIDE DEF r
<1>5. /\ schedule_recompose(r) \in Layer
      /\ Seen(schedule_recompose(r)) = Seen(r) /\ schedule_recompose(r).owed = r.owed
  BY <1>4, ScheduleType, ScheduleSees
<1> QED BY <1>1, <1>2, <1>3, <1>4, <1>5 DEF Seen, Sheets, Lacks

\* The release that ends a stroke, and what a gesture it completes clears: d
\* is the layer after the release's own segment.
LEMMA ReleaseMoves ==
  ASSUME NEW l, Safe(l), Tidy(l), Shown(l), NEW d \in Layer, Tidy(d),
         Tap(d) = Tap(l), Face(d) = Face(l), NEW S, NEW g \in {"none", "triple", "quad"},
         g = "none" \/ l.pending_tap,
         \/ Moves(l, d)
         \/ l.stroke_active /\ Draws(l, d, l.anchor)
         \/ l.stroke_active /\ Erases(l, d, l.anchor, S)
  PROVE  LET m == end_stroke(note_tap_release(d, g))
         IN /\ Tidy(m)
            /\ \/ Moves(l, m) \/ Draws(l, m, l.anchor) \/ Erases(l, m, l.anchor, S)
               \/ Wipes(l, m, l.tap_anchor) \/ Clears(l, m)
<1> DEFINE k == note_tap_release(d, g)
           c == cancel_tap_pending(d)
           m == end_stroke(k)
<1>1. /\ l.tap_anchor \in Target /\ l.anchor \in Target /\ d.tap_anchor = l.tap_anchor
      /\ l.strokes \in [Target -> SUBSET StrokeId]
  BY DEF Safe, Sound, Layer, Tap
<1>2. c \in Layer /\ Light(d, c) /\ Sheets(c) = Sheets(d) /\ Face(c) = Face(d)
  BY QuietSteps, LightSteps, CancelSees
<1>3. Shown(d) /\ TapDraws(l, d)
  <2>1. Shown(d)
    BY SameSeen
  <2>2. TapDraws(l, d)
    BY DEF Moves, Draws, Erases, TapDraws
  <2> QED BY <2>1, <2>2
<1>4. ASSUME k \in Layer
      PROVE  /\ Light(k, m) /\ ~m.stroke_active /\ m.current = NoStroke
             /\ Sheets(m) = Sheets(k) /\ Face(m) = Face(k) /\ m.owed = k.owed
  BY <1>4, EndSees
<1>5. CASE g = "none"
  <2>1. k = c
    BY <1>5 DEF note_tap_release
  <2> HIDE DEF k, c
  <2>2. Light(k, m)
    BY <1>2, <1>4, <2>1
  <2> HIDE DEF m
  <2>3. Light(d, m)
    BY <1>2, <2>1, <2>2, LightMoves
  <2>4. Tidy(m) /\ (Moves(l, d) => Moves(l, m))
    BY <2>3, LightMoves DEF Moves
  <2> QED BY <2>3, <2>4, LightMoves DEF m, k
<1>6. CASE g = "triple"
  <2>1. k = clear_ink_for_anchor(c, l.tap_anchor)
    BY <1>1, <1>6 DEF note_tap_release
  <2> HIDE DEF k, c
  <2>2. /\ k \in Layer /\ k.strokes = [c.strokes EXCEPT ![l.tap_anchor] = {}]
        /\ k.next = c.next /\ Face(k) = Face(c) /\ Lacks(k)
    BY <1>1, <1>2, <2>1, ClearAnchorSees
  <2>3. /\ ~m.stroke_active /\ m.current = NoStroke
        /\ Sheets(m) = Sheets(k) /\ Face(m) = Face(k) /\ m.owed = k.owed
    BY <1>4, <2>2
  <2> HIDE DEF m
  <2>4. /\ m.strokes = [d.strokes EXCEPT ![l.tap_anchor] = {}] /\ m.next = d.next
        /\ Face(m) = Face(d) /\ Lacks(m)
    BY <1>2, <2>2, <2>3 DEF Sheets, Lacks
  <2>5. Tidy(m)
    <3>1. \A t \in Target : m.strokes[t] \subseteq d.strokes[t]
      BY <1>1, <2>4 DEF Layer
    <3> QED BY <2>3, <2>4, <3>1, TidyFewer
  <2>6. l.stroke_active => l.anchor = l.tap_anchor
    BY <1>6 DEF Tidy
  <2>7. [d.strokes EXCEPT ![l.tap_anchor] = {}] = [l.strokes EXCEPT ![l.tap_anchor] = {}]
    BY <1>1, <2>6 DEF Moves, Draws, Erases
  <2>8. Shown(m)
    BY <1>3, <2>4, SameSeen
  <2>9. TapDraws(l, m)
    BY <1>3, <2>4 DEF TapDraws
  <2>10. Wipes(l, m, l.tap_anchor)
    BY <2>3, <2>4, <2>7, <2>8, <2>9 DEF Wipes
  <2> QED BY <2>5, <2>10 DEF m, k
<1>7. CASE g = "quad"
  <2>1. k = meta_annotation_layer_clear(c)
    BY <1>7 DEF note_tap_release
  <2> HIDE DEF k, c
  <2>2. /\ k \in Layer /\ k.strokes = [t \in Target |-> {}] /\ k.next = c.next
        /\ Face(k) = Face(c) /\ (Lacks(k) <=> ~Shown(c))
    BY <1>2, <2>1, ClearSees
  <2>3. /\ ~m.stroke_active /\ m.current = NoStroke
        /\ Sheets(m) = Sheets(k) /\ Face(m) = Face(k) /\ m.owed = k.owed
    BY <1>4, <2>2
  <2> HIDE DEF m
  <2>4. /\ m.strokes = [t \in Target |-> {}] /\ m.next = d.next
        /\ Face(m) = Face(d) /\ (Lacks(m) <=> Lacks(k))
    BY <1>2, <2>2, <2>3 DEF Sheets, Lacks
  <2>5. Tidy(m)
    <3>1. \A t \in Target : m.strokes[t] \subseteq d.strokes[t]
      BY <2>4
    <3> QED BY <2>3, <2>4, <3>1, TidyFewer
  <2>6. Shown(m) /\ Shown(c)
    BY <1>2, <1>3, <2>4, SameSeen
  <2>7. TapDraws(l, m)
    BY <1>3, <2>4 DEF TapDraws
  <2>8. Clears(l, m)
    BY <2>2, <2>3, <2>4, <2>6, <2>7 DEF Clears
  <2> QED BY <2>5, <2>8 DEF m, k
<1> QED BY <1>5, <1>6, <1>7

\* A set of strokes that is not empty has a newest one.
LEMMA NewestType ==
  ASSUME NEW S \in SUBSET StrokeId, S # {}
  PROVE  Newest(S) \in S /\ \A r \in S : r <= Newest(S)
<1> DEFINE T == {MaxStroke - s : s \in S}
<1>1. \A s \in S : s \in Nat /\ MaxStroke - s \in Nat
  BY ConstantsAssumption DEF StrokeId
<1>2. T \subseteq Nat /\ T # {}
  BY <1>1
<1>3. \E x \in T : \A y \in T : ~(<<y, x>> \in OpToRel(<, Nat))
  <2> HIDE DEF T
  <2> QED BY <1>2, NatLessThanWellFounded, WFMin
<1>4. PICK s \in S : \A r \in S : ~(<<MaxStroke - r, MaxStroke - s>> \in OpToRel(<, Nat))
  BY <1>3
<1>5. ASSUME NEW r \in S PROVE r <= s
  <2>1. /\ r \in Nat /\ s \in Nat /\ MaxStroke \in Nat
        /\ MaxStroke - r \in Nat /\ MaxStroke - s \in Nat
    BY <1>1, ConstantsAssumption
  <2>2. <<MaxStroke - r, MaxStroke - s>> \notin OpToRel(<, Nat)
    BY <1>4
  <2> DEFINE x == MaxStroke - r
             y == MaxStroke - s
  <2> HIDE DEF x, y
  <2>3. ~(x < y)
    BY <2>1, <2>2 DEF OpToRel, x, y
  <2> QED BY <2>1, <2>3 DEF x, y
<1>6. \E x \in S : \A r \in S : r <= x
  BY <1>5
<1> QED BY <1>6 DEF Newest

\* Undo takes the newest stroke of an array.  If the pen is on that array the
\* stroke in flight is the newest; if not it is on another.
LEMMA UndoMoves ==
  ASSUME NEW l, Safe(l), Issued(l), Tidy(l)
  PROVE  LET m == meta_annotation_layer_undo_last(l)
         IN Tidy(m) /\ Lifts(l, m) /\ (Undoes(l, m, l.last_ink) \/ Rests(l, m))
<1> DEFINE t == l.last_ink
           cut == IF l.stroke_active /\ l.anchor = t THEN SealStroke(l) ELSE l
           rest == l.strokes[t] \ {Newest(l.strokes[t])}
           popped == [cut EXCEPT !.strokes[t] = rest]
           undone == rasterize_all_strokes(popped, {t})
           forget(m) == [m EXCEPT !.last_ink = Desktop, !.last_ink_present = FALSE]
           done == IF rest = {} THEN forget(undone) ELSE undone
<1>1. /\ l \in Layer /\ t \in Target /\ rest \in SUBSET StrokeId
      /\ l.strokes[t] \in SUBSET StrokeId /\ l.current \in StrokeId \cup {NoStroke}
      /\ l.strokes \in [Target -> SUBSET StrokeId]
  BY DEF Safe, Sound, Layer
<1>2. meta_annotation_layer_undo_last(l) =
        IF ~l.last_ink_present THEN l
        ELSE IF l.strokes[t] = {} THEN schedule_recompose(forget(l))
        ELSE schedule_recompose(done)
  BY Zenon DEF meta_annotation_layer_undo_last
<1>3. ASSUME NEW m \in Layer
      PROVE  /\ forget(m) \in Layer /\ Seen(forget(m)) = Seen(m)
             /\ forget(m).owed = m.owed
  <2>1. forget(m) \in Layer
    BY ZenonT(60) DEF Layer, Target
  <2>2. Seen(forget(m)) = Seen(m) /\ forget(m).owed = m.owed
    BY DEF Layer, Seen, Sheets, Hand, Tap, Face
  <2> QED BY <2>1, <2>2
<1> HIDE DEF forget
<1>4. ASSUME NEW m, Seen(m) = Seen(l), m.owed = l.owed
      PROVE  Tidy(m) /\ Lifts(l, m) /\ Rests(l, m)
  BY <1>4, SameSeen DEF Rests, Seen, Sheets, Hand, Lacks
<1>5. CASE ~l.last_ink_present
  BY <1>2, <1>4, <1>5
<1>6. CASE l.last_ink_present /\ l.strokes[t] = {}
  BY <1>1, <1>2, <1>3, <1>4, <1>6, ScheduleSees
<1>7. CASE l.last_ink_present /\ l.strokes[t] # {}
  <2> DEFINE m == schedule_recompose(done)
             top == Newest(l.strokes[t])
  <2>1. top \in l.strokes[t] /\ \A r \in l.strokes[t] : r <= top
    BY <1>1, <1>7, NewestType
  <2> HIDE DEF top
  <2>2. /\ cut \in Layer /\ Sheets(cut) = Sheets(l) /\ Face(cut) = Face(l)
        /\ Tap(cut) = Tap(l)
        /\ (l.stroke_active /\ l.anchor = t) => Hand(cut) = <<FALSE, NoStroke, Desktop>>
        /\ ~(l.stroke_active /\ l.anchor = t) => Hand(cut) = Hand(l)
    BY <1>1, QuietSteps, DropSees
  <2> HIDE DEF cut
  <2>3. /\ popped \in Layer
        /\ popped.strokes = [l.strokes EXCEPT ![t] = rest] /\ popped.next = l.next
        /\ Hand(popped) = Hand(cut) /\ Tap(popped) = Tap(cut) /\ Face(popped) = Face(cut)
    <3> HIDE DEF rest
    <3>1. popped \in Layer
      BY <1>1, <2>2 DEF Layer
    <3>2. /\ popped.strokes = [cut.strokes EXCEPT ![t] = rest] /\ popped.next = cut.next
          /\ Hand(popped) = Hand(cut) /\ Tap(popped) = Tap(cut) /\ Face(popped) = Face(cut)
      BY <2>2 DEF Layer, Hand, Tap, Face
    <3> QED BY <2>2, <3>1, <3>2 DEF Sheets
  <2> HIDE DEF popped
  <2>4. /\ undone \in Layer /\ Seen(undone) = Seen(popped)
        /\ undone.owed = popped.owed \cup {"ink"}
    BY <2>3, RasterSees
  <2> HIDE DEF undone
  <2>5. done \in Layer /\ Seen(done) = Seen(undone) /\ done.owed = undone.owed
    BY <1>3, <2>4
  <2> HIDE DEF done
  <2>6. Seen(m) = Seen(popped) /\ Lacks(m)
    BY <2>4, <2>5, ScheduleSees DEF Lacks
  <2>7. meta_annotation_layer_undo_last(l) = m
    BY <1>2, <1>7
  <2> HIDE DEF m
  <2>8. /\ m.strokes = [l.strokes EXCEPT ![t] = rest] /\ m.next = l.next
        /\ Hand(m) = Hand(cut) /\ Tap(m) = Tap(l) /\ Face(m) = Face(l)
    BY <2>2, <2>3, <2>6 DEF Seen, Sheets
  <2>9. \A u \in Target : m.strokes[u] \subseteq l.strokes[u]
    BY <1>1, <2>8
  <2>10. Tidy(m)
    <3>1. CASE l.stroke_active /\ l.anchor = t
      BY <2>2, <2>8, <2>9, <3>1, TidyFewer DEF Hand
    <3>2. CASE ~(l.stroke_active /\ l.anchor = t)
      BY <2>2, <2>8, <2>9, <3>2, TidyFewer
    <3> QED BY <3>1, <3>2
  <2>11. m.current = IF l.current = top THEN NoStroke ELSE l.current
    <3>1. CASE l.stroke_active /\ l.anchor = t
      <4>1. m.current = NoStroke
        BY <2>2, <2>8, <3>1 DEF Hand
      <4>2. l.current # NoStroke => l.current = top
        <5>1. SUFFICES ASSUME l.current # NoStroke PROVE l.current = top
          OBVIOUS
        <5>2. l.current \in l.strokes[t] /\ l.current = l.next - 1
          BY <3>1, <5>1 DEF Safe, InFlight, Tidy
        <5>3. top < l.next /\ l.current <= top
          BY <1>1, <2>1, <5>2 DEF Issued
        <5>4. top \in Nat /\ l.next \in Nat
          BY <1>1, <2>1, ConstantsAssumption DEF StrokeId, Layer
        <5> QED BY <5>2, <5>3, <5>4
      <4> QED BY <4>1, <4>2
    <3>2. CASE ~(l.stroke_active /\ l.anchor = t)
      <4>1. m.current = l.current
        BY <2>2, <2>8, <3>2 DEF Hand
      <4>2. l.current = top => l.current = NoStroke
        BY <1>1, <2>1, <3>2 DEF Safe, InFlight, Tidy, Sound, Layer
      <4> QED BY <4>1, <4>2
    <3> QED BY <3>1, <3>2
  <2>12. Undoes(l, m, t)
    BY <1>7, <2>6, <2>8, <2>11, SameSeen DEF Undoes, rest, top
  <2>13. Lifts(l, m)
    BY <2>2, <2>8, <2>11 DEF Lifts, Hand, Face
  <2> QED BY <2>7, <2>10, <2>12, <2>13
<1> QED BY <1>5, <1>6, <1>7

-----------------------------------------------------------------------------
(* Setters                                                                 *)

\* A layer that may show now, and did not hide: what it lacked is composed
\* only if it was hidden.
LEMMA ShowSees ==
  ASSUME NEW l \in Layer, Kept(l), Tidy(l), NEW b \in Layer,
         Sheets(b) = Sheets(l), Hand(b) = Hand(l), Tap(b) = Tap(l),
         b.surface = l.surface, b.barrel = l.barrel, b.dirty = l.dirty,
         b.owed = l.owed, Visible(l) => Visible(b)
  PROVE  LET m == update_actor_visibility(b)
         IN Tidy(m) /\ Lifts(l, m) /\ (Turns(l, m) \/ Rests(l, m))
<1> DEFINE m == update_actor_visibility(b)
<1>1. Seen(m) = Seen(b) /\ m.owed = IF Shown(b) /\ b.dirty THEN {} ELSE b.owed
  BY VisibilitySees
<1> HIDE DEF m
<1>2. Tidy(b)
  BY DEF Tidy, Sheets, Hand, Tap
<1>3. /\ Tidy(m) /\ (Shown(m) <=> Shown(b))
      /\ m.strokes = l.strokes /\ m.next = l.next /\ m.current = l.current
  BY <1>1, <1>2, SameSeen DEF Seen, Sheets, Hand
<1>4. Shown(l) => Shown(b) /\ ~b.dirty
  BY DEF Shown, Kept
<1>5. ~(Shown(b) /\ b.dirty) => (Lacks(m) <=> Lacks(l))
  BY <1>1 DEF Lacks
<1>6. Lifts(l, m)
  BY <1>1 DEF Lifts, Seen, Sheets, Hand, Face
<1> QED BY <1>3, <1>4, <1>5, <1>6 DEF Turns, Rests, m

\* A layer that may not show any more: its pen is lifted.
LEMMA HideSees ==
  ASSUME NEW l \in Layer, Tidy(l), NEW b \in Layer,
         Sheets(b) = Sheets(l), Tap(b) = Tap(l),
         b.surface = l.surface, b.owed = l.owed, b.barrel = {}, ~Visible(b),
         b.current = NoStroke,
         b.stroke_active => l.stroke_active /\ b.anchor = l.anchor
  PROVE  LET m == update_actor_visibility(b)
         IN Tidy(m) /\ Lifts(l, m) /\ (Turns(l, m) \/ Moves(l, m))
<1> DEFINE m == update_actor_visibility(b)
<1>1. Seen(m) = Seen(b) /\ m.owed = b.owed
  BY VisibilitySees DEF Shown
<1> HIDE DEF m
<1>2. Tidy(b)
  BY DEF Tidy, Sheets, Tap
<1>3. /\ Tidy(m) /\ ~Shown(m) /\ m.current = NoStroke
      /\ m.strokes = l.strokes /\ m.next = l.next
  BY <1>1, <1>2, SameSeen DEF Seen, Sheets, Hand, Shown
<1>4. Lacks(m) <=> Lacks(l)
  BY <1>1 DEF Lacks
<1>5. Lifts(l, m)
  BY <1>1 DEF Lifts, Seen, Sheets, Hand, Face
<1> QED BY <1>3, <1>4, <1>5 DEF Turns, Moves, m

\* Activation shows; deactivation lifts the pen and hides.
LEMMA SetActiveMoves ==
  ASSUME NEW l, Safe(l), Kept(l), Tidy(l), NEW on \in BOOLEAN
  PROVE  LET m == meta_annotation_layer_set_active(l, on)
         IN Tidy(m) /\ Lifts(l, m) /\ (Turns(l, m) \/ Rests(l, m) \/ Moves(l, m))
<1> DEFINE b == [l EXCEPT !.active = TRUE]
           c == [l EXCEPT !.active = FALSE, !.barrel = {}, !.current = NoStroke,
                          !.last_ink = Desktop, !.last_ink_present = FALSE]
<1>1. l \in Layer
  BY DEF Safe, Sound
<1>2. meta_annotation_layer_set_active(l, on)
        = update_actor_visibility(IF on THEN b ELSE c)
  BY DEF meta_annotation_layer_set_active
<1>3. CASE on
  <2>1. b \in Layer
    BY <1>1 DEF Layer
  <2>2. /\ Sheets(b) = Sheets(l) /\ Hand(b) = Hand(l) /\ Tap(b) = Tap(l)
        /\ b.surface = l.surface /\ b.barrel = l.barrel /\ b.dirty = l.dirty
        /\ b.owed = l.owed /\ (Visible(l) => Visible(b))
    BY <1>1 DEF Layer, Sheets, Hand, Tap, Visible
  <2> HIDE DEF b
  <2> QED BY <1>1, <1>2, <1>3, <2>1, <2>2, ShowSees
<1>4. CASE ~on
  <2>1. c \in Layer
    BY <1>1, ZenonT(60) DEF Layer, Target, NoStroke
  <2>2. /\ Sheets(c) = Sheets(l) /\ Tap(c) = Tap(l)
        /\ c.surface = l.surface /\ c.owed = l.owed /\ c.barrel = {} /\ ~Visible(c)
        /\ c.current = NoStroke
        /\ c.stroke_active = l.stroke_active /\ c.anchor = l.anchor
    BY <1>1 DEF Layer, Sheets, Tap, Visible
  <2> HIDE DEF c
  <2> QED BY <1>1, <1>2, <1>4, <2>1, <2>2, HideSees
<1> QED BY <1>3, <1>4

\* A resume shows; a pause lifts the pen and hides.
LEMMA SetPausedMoves ==
  ASSUME NEW l, Safe(l), Kept(l), Tidy(l), NEW on \in BOOLEAN
  PROVE  LET m == meta_annotation_layer_set_paused(l, on)
         IN Tidy(m) /\ Lifts(l, m) /\ (Turns(l, m) \/ Rests(l, m) \/ Moves(l, m))
<1> DEFINE cut == IF l.stroke_active THEN DropStroke(l) ELSE l
           b == [l EXCEPT !.paused = on]
           c == [cut EXCEPT !.paused = TRUE, !.barrel = {}]
<1>1. l \in Layer
  BY DEF Safe, Sound
<1>2. meta_annotation_layer_set_paused(l, on)
        = update_actor_visibility(IF on /\ ~l.paused THEN c ELSE b)
  BY DEF meta_annotation_layer_set_paused
<1>3. CASE ~(on /\ ~l.paused)
  <2>1. b \in Layer
    BY <1>1 DEF Layer
  <2>2. /\ Sheets(b) = Sheets(l) /\ Hand(b) = Hand(l) /\ Tap(b) = Tap(l)
        /\ b.surface = l.surface /\ b.barrel = l.barrel /\ b.dirty = l.dirty
        /\ b.owed = l.owed /\ b.active = l.active /\ b.paused = on
    BY <1>1 DEF Layer, Sheets, Hand, Tap
  <2>3. Visible(l) => Visible(b)
    BY <1>3, <2>2 DEF Visible
  <2> HIDE DEF b
  <2> QED BY <1>1, <1>2, <1>3, <2>1, <2>2, <2>3, ShowSees
<1>4. CASE on /\ ~l.paused
  <2>1. /\ cut \in Layer /\ Sheets(cut) = Sheets(l) /\ Tap(cut) = Tap(l)
        /\ Face(cut) = Face(l) /\ cut.owed = l.owed
    BY <1>1, QuietSteps, DropSees
  <2>2. ~cut.stroke_active /\ cut.current = NoStroke
    <3>1. l.stroke_active => Hand(cut) = <<FALSE, NoStroke, Desktop>>
      BY <1>1, DropSees
    <3> QED BY <3>1 DEF Hand, Safe, InFlight
  <2> HIDE DEF cut
  <2>3. c \in Layer
    BY <2>1 DEF Layer
  <2>4. /\ Sheets(c) = Sheets(cut) /\ Tap(c) = Tap(cut)
        /\ c.surface = cut.surface /\ c.owed = cut.owed /\ c.barrel = {}
        /\ ~Visible(c) /\ c.current = cut.current
        /\ c.stroke_active = cut.stroke_active
    BY <2>1 DEF Layer, Sheets, Tap, Visible
  <2> HIDE DEF c
  <2>5. c.surface = l.surface
    BY <2>1, <2>4 DEF Face
  <2> QED BY <1>1, <1>2, <1>4, <2>1, <2>2, <2>3, <2>4, <2>5, HideSees
<1> QED BY <1>3, <1>4

-----------------------------------------------------------------------------
(* The end of a window                                                     *)

\* Its strokes go with it, and the pen if it was on them.
Closes(l, m, w) ==
  /\ m.strokes = [l.strokes EXCEPT ![w] = {}] /\ m.next = l.next
  /\ m.current = IF l.current \in l.strokes[w] THEN NoStroke ELSE l.current
  /\ (Lacks(l) => Lacks(m)) /\ (Shown(m) <=> Shown(l))

\* In the whiteboard's words.
LEMMA CloseStep ==
  ASSUME layer \in Layer, layer' \in Layer, NEW w \in Window,
         w \in managed, managed' = managed \ {w}, Closes(layer, layer', w)
  PROVE  Board!Next
<1>1. Board!CloseWindow(w)
  BY DEF Closes, Board!CloseWindow, Board!Touched, Lacks, Shown, Visible
<1> QED BY <1>1 DEF Board!Next

\* A window that has ink drops it.
LEMMA UnmanagedMoves ==
  ASSUME NEW l, Safe(l), Tidy(l), NEW w \in Window
  PROVE  LET m == on_window_unmanaged(l, w)
         IN Tidy(m) /\ Lifts(l, m) /\ Closes(l, m, w)
<1> DEFINE cut == IF l.anchor = w THEN DropStroke(l) ELSE l
           undo == IF l.last_ink = w
                     THEN [cut EXCEPT !.last_ink = Desktop,
                                      !.last_ink_present = FALSE]
                     ELSE cut
           tap == IF l.tap_anchor = w THEN cancel_tap_pending(undo) ELSE undo
           wiped == WipeTarget(tap, w)
           n == wiped.inked \ {w}
           g == [wiped.region EXCEPT ![w] = NoRegion]
           sc == [wiped.scroll EXCEPT ![w] = 0]
           o == wiped.owed \cup {"layout"}
           k == [wiped EXCEPT !.inked = n, !.region = g, !.scroll = sc, !.owed = o]
           m == schedule_recompose(k)
<1>0. /\ l \in Layer /\ w \in Target /\ w # Desktop
      /\ l.strokes \in [Target -> SUBSET StrokeId]
  BY ConstantsAssumption DEF Safe, Sound, Target, Layer
<1>1. on_window_unmanaged(l, w) = m
  BY ZenonT(60) DEF on_window_unmanaged
<1>2. /\ cut \in Layer /\ Sheets(cut) = Sheets(l) /\ Tap(cut) = Tap(l)
      /\ Face(cut) = Face(l) /\ cut.owed = l.owed
      /\ l.anchor = w => Hand(cut) = <<FALSE, NoStroke, Desktop>>
      /\ l.anchor # w => Hand(cut) = Hand(l)
  BY <1>0, QuietSteps, DropSees
<1> HIDE DEF cut
<1>3. undo \in Layer /\ Seen(undo) = Seen(cut) /\ undo.owed = cut.owed
  <2> DEFINE f == [cut EXCEPT !.last_ink = Desktop, !.last_ink_present = FALSE]
  <2>1. f \in Layer
    BY <1>2, ZenonT(60) DEF Layer, Target
  <2>2. Seen(f) = Seen(cut) /\ f.owed = cut.owed
    BY <1>2 DEF Layer, Seen, Sheets, Hand, Tap, Face
  <2>3. undo = IF l.last_ink = w THEN f ELSE cut
    OBVIOUS
  <2> HIDE DEF f, undo
  <2> QED BY <1>2, <2>1, <2>2, <2>3
<1> HIDE DEF undo
<1>4. /\ tap \in Layer /\ Sheets(tap) = Sheets(undo) /\ Hand(tap) = Hand(undo)
      /\ Face(tap) = Face(undo) /\ tap.owed = undo.owed
      /\ Tap(tap) \in {Tap(undo), <<FALSE, Desktop>>}
  BY <1>3, QuietSteps, CancelSees
<1> HIDE DEF tap
<1>5. /\ wiped \in Layer /\ wiped.strokes = [tap.strokes EXCEPT ![w] = {}]
      /\ wiped.next = tap.next /\ Hand(wiped) = Hand(tap) /\ Tap(wiped) = Tap(tap)
      /\ Face(wiped) = Face(tap)
  <2>1. wiped \in Layer
    BY <1>0, <1>4, ZenonT(60) DEF Layer, WipeTarget, Cause
  <2>2. /\ wiped.strokes = [tap.strokes EXCEPT ![w] = {}]
        /\ wiped.next = tap.next /\ Hand(wiped) = Hand(tap) /\ Tap(wiped) = Tap(tap)
        /\ Face(wiped) = Face(tap)
    BY <1>4 DEF Layer, WipeTarget, Hand, Tap, Face
  <2> QED BY <2>1, <2>2
<1> HIDE DEF wiped
<1>6. /\ n \in SUBSET Window /\ g \in [Window -> Region \cup {NoRegion}]
      /\ sc \in [Window -> Scroll] /\ o \in SUBSET Cause /\ "layout" \in o
  BY <1>5, ConstantsAssumption DEF Layer, Cause
<1> HIDE DEF n, g, sc, o
<1>7. k \in Layer /\ Seen(k) = Seen(wiped) /\ k.owed = o
  <2>1. k \in Layer
    BY <1>5, <1>6 DEF Layer
  <2>2. Seen(k) = Seen(wiped) /\ k.owed = o
    BY <1>5 DEF Layer, Seen, Sheets, Hand, Tap, Face
  <2> QED BY <2>1, <2>2
<1> HIDE DEF k
<1>8. Seen(m) = Seen(k) /\ Lacks(m)
  BY <1>6, <1>7, ScheduleSees DEF Lacks
<1> HIDE DEF m
<1>9. /\ m.strokes = [l.strokes EXCEPT ![w] = {}] /\ m.next = l.next
      /\ Hand(m) = Hand(cut) /\ Face(m) = Face(l)
      /\ Tap(m) \in {Tap(l), <<FALSE, Desktop>>}
  BY <1>2, <1>3, <1>4, <1>5, <1>7, <1>8 DEF Seen, Sheets
<1>10. \A t \in Target : m.strokes[t] \subseteq l.strokes[t]
  BY <1>0, <1>9
<1>11. Tap(m) = Tap(l) \/ ~m.pending_tap
  BY <1>9 DEF Tap
<1>12. CASE l.anchor = w
  <2>1. ~m.stroke_active /\ m.current = NoStroke
    BY <1>2, <1>9, <1>12 DEF Hand
  <2>2. Tidy(m)
    BY <1>9, <1>10, <2>1, TidyFewer
  <2>3. l.current # NoStroke => l.current \in l.strokes[w]
    BY <1>12 DEF Safe, InFlight
  <2>4. Lifts(l, m)
    BY <1>9, <2>1 DEF Lifts, Face
  <2> QED BY <1>1, <1>8, <1>9, <2>1, <2>2, <2>3, <2>4, SameSeen DEF Closes
<1>13. CASE l.anchor # w
  <2>1. Hand(m) = Hand(l)
    BY <1>2, <1>9, <1>13
  <2>2. Tidy(m)
    BY <1>9, <1>10, <1>11, <2>1, TidyFewer
  <2>3. l.current \in l.strokes[w] => l.current = NoStroke
    BY <1>0, <1>13 DEF Safe, Sound, Layer, InFlight, Tidy
  <2>4. m.current = l.current
    BY <2>1 DEF Hand
  <2>5. Lifts(l, m)
    BY <1>9, <2>1 DEF Lifts, Hand, Face
  <2> QED BY <1>1, <1>8, <1>9, <2>2, <2>3, <2>4, <2>5, SameSeen DEF Closes
<1> QED BY <1>12, <1>13

-----------------------------------------------------------------------------
(* Every dispatch is one move of the whiteboard or none                    *)

\* Tidy is about the struct alone.
LEMMA TidyPrime == Tidy(layer') => Tidy(layer)'
  BY DEF Tidy, Visible

\* What the invariant says of the struct, before a step and after.
LEMMA BoardFacts ==
  ASSUME BoardInv
  PROVE  /\ layer \in Layer /\ Safe(layer) /\ Tidy(layer) /\ Debt(layer)
         /\ Kept(layer) /\ Issued(layer) /\ Ink(layer)
         /\ managed \subseteq Window
         /\ [Next]_vars => layer' \in Layer
<1>1. [Next]_vars => Inv'
  BY NextInv DEF BoardInv, DebtInv
<1>2. Inv' => layer' \in Layer
  BY DEF Inv, Safe, Sound
<1> QED BY <1>1, <1>2 DEF BoardInv, DebtInv, InkInv, Inv, Safe, Sound, Debt, Ink

\* A segment that an event of a pen, a finger or a mouse continues a stroke by.
LEMMA SegmentFacts ==
  ASSUME BoardInv, Receives, layer.stroke_active, NEW tip, NEW hit \in Hits(tip),
         erase_is_active(layer, tip) \in BOOLEAN,
         erase_is_active(layer, tip) \/ layer.current # NoStroke \/ Room
  PROVE  LET m == continue_stroke(layer, erase_is_active(layer, tip), hit)
         IN /\ m \in Layer /\ Tidy(m) /\ Tap(m) = Tap(layer)
            /\ Face(m) = Face(layer)
            /\ \/ Moves(layer, m) \/ Draws(layer, m, layer.anchor)
               \/ Erases(layer, m, layer.anchor, hit)
<1>1. /\ layer \in Layer /\ Safe(layer) /\ Tidy(layer) /\ Issued(layer)
      /\ managed \subseteq Window
  BY BoardFacts
<1>2. hit \in SUBSET layer.strokes[layer.anchor]
  BY DEF Hits, Erasable
<1>3. ~layer.paused /\ Shown(layer) /\ (Room => layer.next <= MaxStroke)
  BY DEF Receives, Shown, Visible, Room
<1> QED BY <1>1, <1>2, <1>3, ContinueMoves

\* Events of the pens, fingers and mice that draw.
LEMMA PenEventBoard ==
  ASSUME BoardInv, PenEvent
  PROVE  Tidy(layer') /\ [Board!Next]_(Board!vars)
<1>1. /\ layer \in Layer /\ Safe(layer) /\ Tidy(layer) /\ Issued(layer)
      /\ managed \subseteq Window
  BY BoardFacts
<1>2. layer' \in Layer
  BY BoardFacts DEF Next
<1>0. \A tip \in EraserTip : erase_is_active(layer, tip) \in BOOLEAN
  BY <1>1, ConstantsAssumption DEF erase_is_active
<1>3. ASSUME NEW b \in Barrel, BarrelPress(b) \/ BarrelRelease(b)
      PROVE  Tidy(layer') /\ [Board!Next]_(Board!vars)
  <2>1. /\ Sheets(layer') = Sheets(layer) /\ Hand(layer') = Hand(layer)
        /\ Tap(layer') = Tap(layer) /\ layer'.owed = layer.owed
        /\ layer'.active = layer.active /\ layer'.paused = layer.paused
        /\ layer'.surface = layer.surface
    BY <1>1, <1>3 DEF BarrelPress, BarrelRelease, Layer, Sheets, Hand, Tap
  <2>2. Visible(layer) /\ layer.surface /\ managed' = managed
    BY <1>3 DEF BarrelPress, BarrelRelease, Receives
  <2>3. Tidy(layer')
    BY <1>1, <2>1, <2>2 DEF Tidy, Sheets, Hand, Tap, Visible
  <2>4. Rests(layer, layer')
    BY <2>1 DEF Rests, Sheets, Hand, Shown, Visible, Lacks
  <2> QED BY <1>1, <1>2, <2>2, <2>3, <2>4, RestStep
<1>4. ASSUME NEW t \in Target, NEW inside \in BOOLEAN, NEW tip \in EraserTip,
             Press(t, inside, tip) \/ MotionBegins(t, inside, tip)
      PROVE  Tidy(layer') /\ [Board!Next]_(Board!vars)
  <2> DEFINE e == erase_is_active(layer, tip)
             b == begin_stroke(layer, t, inside, e)
             p == [b EXCEPT !.pending_tap = TRUE, !.tap_anchor = t]
  <2>1. /\ ~layer.paused /\ (e \/ layer.next <= MaxStroke) /\ Shown(layer)
        /\ t \in managed \cup {Desktop} /\ managed' = managed
    BY <1>4 DEF Press, MotionBegins, Receives, Visible, Room, Shown, pick_anchor_window
  <2>2. layer' \in {p, cancel_tap_pending(b)}
    BY <1>4 DEF Press, MotionBegins
  <2>3. e \in BOOLEAN
    BY <1>0
  <2> HIDE DEF e
  <2>4. b \in Layer
    BY <1>1, <2>1, <2>3, BeginSafe, ZenonT(60) DEF Safe, Sound
  <2>5. /\ Sheets(layer') = Sheets(b) /\ Hand(layer') = Hand(b)
        /\ Face(layer') = Face(b) /\ layer'.owed = b.owed
        /\ Tap(layer') \in {<<TRUE, t>>, <<FALSE, Desktop>>}
    <3> HIDE DEF b
    <3>1. /\ Sheets(p) = Sheets(b) /\ Hand(p) = Hand(b)
          /\ Face(p) = Face(b) /\ p.owed = b.owed /\ Tap(p) = <<TRUE, t>>
      BY <2>4 DEF Layer, Sheets, Hand, Face, Tap
    <3> QED BY <2>2, <2>4, <3>1, CancelSees
  <2>6. Tidy(layer') /\ (Moves(layer, layer') \/ Draws(layer, layer', t))
    BY <1>1, <2>1, <2>3, <2>5, BeginMoves
  <2> QED BY <1>1, <1>2, <2>1, <2>6, MoveStep, DrawStep
<1>5. ASSUME NEW tip \in EraserTip, NEW hit \in Hits(tip), layer.stroke_active,
             Receives,
             erase_is_active(layer, tip) \/ layer.current # NoStroke \/ Room
      PROVE  LET m == continue_stroke(layer, erase_is_active(layer, tip), hit)
             IN /\ m \in Layer /\ Tidy(m) /\ Tap(m) = Tap(layer)
                /\ Face(m) = Face(layer)
                /\ \/ Moves(layer, m) \/ Draws(layer, m, layer.anchor)
                   \/ Erases(layer, m, layer.anchor, hit)
  BY <1>0, <1>5, SegmentFacts
<1>6. layer.anchor \in Target /\ layer.tap_anchor \in Target
      /\ (layer.current # NoStroke \/ layer.stroke_active
            => layer.anchor \in managed \cup {Desktop})
  BY DEF BoardInv, DebtInv, Inv, Safe, Sound, Layer
<1>7. ASSUME managed' = managed, NEW hit, layer.stroke_active,
             \/ Moves(layer, layer') \/ Draws(layer, layer', layer.anchor)
             \/ Erases(layer, layer', layer.anchor, hit)
      PROVE  Board!Next
  BY <1>1, <1>2, <1>6, <1>7, MoveStep, DrawStep, EraseStep
<1>8. ASSUME NEW tip \in EraserTip, NEW drift \in BOOLEAN, NEW down \in BOOLEAN,
             NEW hit \in SUBSET StrokeId, MotionContinues(tip, hit, drift, down)
      PROVE  Tidy(layer') /\ [Board!Next]_(Board!vars)
  <2> DEFINE d == continue_stroke(layer, erase_is_active(layer, tip), hit)
             c == IF drift THEN cancel_tap_pending(d) ELSE d
  <2>1. /\ hit \in Hits(tip) /\ layer.stroke_active /\ Receives
        /\ erase_is_active(layer, tip) \/ layer.current # NoStroke \/ Room
        /\ managed' = managed
    BY <1>8 DEF MotionContinues
  <2>2. /\ d \in Layer /\ Tidy(d)
        /\ \/ Moves(layer, d) \/ Draws(layer, d, layer.anchor)
           \/ Erases(layer, d, layer.anchor, hit)
    BY <1>5, <2>1
  <2>3. layer' = IF down THEN c ELSE end_stroke(c)
    BY <1>8 DEF MotionContinues
  <2> HIDE DEF d
  <2>4. c \in Layer /\ Light(d, c)
    BY <2>2, LightSteps, QuietSteps
  <2> HIDE DEF c
  <2>5. Light(d, layer')
    BY <2>3, <2>4, EndSees, LightMoves
  <2>6. Tidy(layer') /\ (Moves(layer, d) => Moves(layer, layer'))
    BY <2>2, <2>5, LightMoves DEF Moves
  <2>7. \/ Moves(layer, layer') \/ Draws(layer, layer', layer.anchor)
        \/ Erases(layer, layer', layer.anchor, hit)
    BY <2>2, <2>5, <2>6, LightMoves
  <2> QED BY <1>7, <2>1, <2>6, <2>7
<1>9. ASSUME NEW tip \in EraserTip, NEW hit \in SUBSET StrokeId,
             NEW g \in {"none", "triple", "quad"}, Release(tip, hit, g)
      PROVE  Tidy(layer') /\ [Board!Next]_(Board!vars)
  <2> DEFINE d == IF layer.stroke_active
                    THEN continue_stroke(layer, erase_is_active(layer, tip), hit)
                    ELSE layer
  <2>1. /\ hit \in Hits(tip) /\ Receives /\ managed' = managed
        /\ \/ erase_is_active(layer, tip) \/ ~layer.stroke_active
           \/ layer.current # NoStroke \/ Room
        /\ g = "none" \/ layer.pending_tap
        /\ layer' = end_stroke(note_tap_release(d, g))
    BY <1>9 DEF Release
  <2>2. /\ d \in Layer /\ Tidy(d) /\ Tap(d) = Tap(layer) /\ Face(d) = Face(layer)
        /\ \/ Moves(layer, d)
           \/ layer.stroke_active /\ Draws(layer, d, layer.anchor)
           \/ layer.stroke_active /\ Erases(layer, d, layer.anchor, hit)
    <3>1. CASE layer.stroke_active
      BY <1>5, <2>1, <3>1
    <3>2. CASE ~layer.stroke_active
      BY <1>1, <3>2, LightSteps, LightMoves
    <3> QED BY <3>1, <3>2
  <2>3. Shown(layer)
    BY <2>1 DEF Receives, Shown
  <2> HIDE DEF d
  <2>4. /\ Tidy(layer')
        /\ \/ Moves(layer, layer') \/ Draws(layer, layer', layer.anchor)
           \/ Erases(layer, layer', layer.anchor, hit)
           \/ Wipes(layer, layer', layer.tap_anchor) \/ Clears(layer, layer')
    BY <1>1, <2>1, <2>2, <2>3, ReleaseMoves
  <2>5. layer.anchor \in managed \cup {Desktop}
    BY DEF BoardInv, DebtInv, Inv, Safe, Sound
  <2> QED BY <1>1, <1>2, <1>6, <2>1, <2>4, <2>5, MoveStep, DrawStep, EraseStep,
             WipeStep, ClearStep
<1>10. CASE TouchCancel
  <2> DEFINE c == cancel_tap_pending(layer)
  <2>1. c \in Layer /\ Light(layer, c)
    BY <1>1, LightSteps, QuietSteps
  <2>2. layer' = end_stroke(c) /\ managed' = managed
    BY <1>10 DEF TouchCancel
  <2> HIDE DEF c
  <2>3. Light(layer, layer')
    BY <2>1, <2>2, EndSees, LightMoves
  <2> QED BY <1>1, <1>2, <2>2, <2>3, LightMoves, MoveStep
<1> QED BY <1>3, <1>4, <1>8, <1>9, <1>10 DEF PenEvent

\* Calls over D-Bus.
LEMMA CallBoard ==
  ASSUME BoardInv, Call
  PROVE  Tidy(layer') /\ Lifts(layer, layer') /\ [Board!Next]_(Board!vars)
<1>1. /\ layer \in Layer /\ Safe(layer) /\ Tidy(layer) /\ Issued(layer) /\ Kept(layer)
      /\ managed \subseteq Window
  BY BoardFacts
<1>2. layer' \in Layer
  BY BoardFacts DEF Next
<1>3. ASSUME managed' = managed, Light(layer, layer')
      PROVE  Tidy(layer') /\ Lifts(layer, layer') /\ [Board!Next]_(Board!vars)
  BY <1>1, <1>2, <1>3, LightMoves, MoveStep
<1>4. CASE Clear
  <2>1. /\ layer'.strokes = [t \in Target |-> {}] /\ layer'.next = layer.next
        /\ Face(layer') = Face(layer) /\ Hand(layer') = <<FALSE, NoStroke, Desktop>>
        /\ Lacks(layer') <=> ~Shown(layer)
        /\ managed' = managed
    BY <1>1, <1>4, ClearSees DEF Clear
  <2>2. ~layer'.stroke_active /\ layer'.current = NoStroke
    BY <2>1 DEF Hand
  <2>3. \A t \in Target : layer'.strokes[t] \subseteq layer.strokes[t]
    BY <2>1
  <2>4. Tidy(layer')
    BY <1>1, <2>1, <2>2, <2>3, TidyFewer
  <2>5. Clears(layer, layer')
    BY <2>1, <2>2, SameSeen DEF Clears, TapDraws
  <2>6. Lifts(layer, layer')
    BY <2>1, <2>2 DEF Lifts, Face
  <2> QED BY <1>1, <1>2, <2>1, <2>4, <2>5, <2>6, ClearStep
<1>5. CASE UndoLast
  <2>1. layer.last_ink \in Target /\ managed' = managed
    BY <1>1, <1>5 DEF Layer, UndoLast
  <2>2. /\ Tidy(layer') /\ Lifts(layer, layer')
        /\ Undoes(layer, layer', layer.last_ink) \/ Rests(layer, layer')
    BY <1>1, <1>5, UndoMoves DEF UndoLast
  <2> QED BY <1>1, <1>2, <2>1, <2>2, UndoStep, RestStep
<1>6. ASSUME NEW on \in BOOLEAN, SetActive(on) \/ SetPaused(on)
      PROVE  Tidy(layer') /\ Lifts(layer, layer') /\ [Board!Next]_(Board!vars)
  <2>1. /\ managed' = managed /\ Tidy(layer') /\ Lifts(layer, layer')
        /\ Turns(layer, layer') \/ Rests(layer, layer') \/ Moves(layer, layer')
    BY <1>1, <1>6, SetActiveMoves, SetPausedMoves DEF SetActive, SetPaused
  <2> QED BY <1>1, <1>2, <2>1, TurnStep, RestStep, MoveStep
<1>7. ASSUME NEW c \in Colour, SetColor(c)
      PROVE  Tidy(layer') /\ Lifts(layer, layer') /\ [Board!Next]_(Board!vars)
  <2>1. Light(layer, layer') /\ managed' = managed
    BY <1>1, <1>7 DEF SetColor, Layer, Light, Sheets, Hand, Tap, Face
  <2> QED BY <1>3, <2>1
<1>8. ASSUME NEW p \in Pid, NEW W \in SUBSET Window,
             NEW r \in Region \cup {NoRegion}, SetWindowEditorRegion(p, W, r)
      PROVE  Tidy(layer') /\ Lifts(layer, layer') /\ [Board!Next]_(Board!vars)
  BY <1>1, <1>3, <1>8, RegionLight DEF SetWindowEditorRegion
<1>9. ASSUME NEW p \in Pid, NEW s \in Scroll, SetWindowScroll(p, s)
      PROVE  Tidy(layer') /\ Lifts(layer, layer') /\ [Board!Next]_(Board!vars)
  BY <1>1, <1>3, <1>9, ScrollLight DEF SetWindowScroll
<1>10. ASSUME NEW C \in SUBSET Chrome, SetChromeRegions(C)
       PROVE  Tidy(layer') /\ Lifts(layer, layer') /\ [Board!Next]_(Board!vars)
  <2> DEFINE o == IF C = layer.chrome THEN layer.owed ELSE layer.owed \cup {"chrome"}
             m == [layer EXCEPT !.chrome = C, !.owed = o]
  <2>1. o \in SUBSET Cause /\ layer.owed \subseteq o
    BY <1>1 DEF Layer, Cause
  <2>2. layer' = schedule_recompose(m) /\ managed' = managed
    BY <1>10, Zenon DEF SetChromeRegions
  <2> HIDE DEF o
  <2>3. m \in Layer /\ Light(layer, m)
    BY <1>1, <2>1 DEF Layer, Light, Sheets, Hand, Tap, Face
  <2> HIDE DEF m
  <2>4. Light(layer, layer')
    BY <2>2, <2>3, LightSteps, LightMoves
  <2> QED BY <1>3, <2>2, <2>4
<1> QED BY <1>4, <1>5, <1>6, <1>7, <1>8, <1>9, <1>10 DEF Call

\* Signals of windows and of the stage.
LEMMA SignalBoard ==
  ASSUME BoardInv, Signal
  PROVE  Tidy(layer') /\ Lifts(layer, layer') /\ [Board!Next]_(Board!vars)
<1>1. /\ layer \in Layer /\ Safe(layer) /\ Tidy(layer) /\ managed \subseteq Window
  BY BoardFacts
<1>2. layer' \in Layer
  BY BoardFacts DEF Next
<1>3. ASSUME managed' = managed, Light(layer, layer')
      PROVE  Tidy(layer') /\ Lifts(layer, layer') /\ [Board!Next]_(Board!vars)
  BY <1>1, <1>2, <1>3, LightMoves, MoveStep
<1>4. ASSUME NEW w \in Window, MapWindow(w)
      PROVE  Tidy(layer') /\ Lifts(layer, layer') /\ [Board!Next]_(Board!vars)
  <2>1. Board!OpenWindow(w)
    BY <1>4 DEF MapWindow, Board!OpenWindow, Visible
  <2> QED BY <1>1, <1>4, <2>1, SameSeen DEF MapWindow, Board!Next
<1>5. ASSUME NEW w \in Window, UnmanageWindow(w)
      PROVE  Tidy(layer') /\ Lifts(layer, layer') /\ [Board!Next]_(Board!vars)
  <2>1. CASE w \in layer.inked
    <3>1. Tidy(layer') /\ Lifts(layer, layer') /\ Closes(layer, layer', w)
      BY <1>1, <1>5, <2>1, UnmanagedMoves DEF UnmanageWindow
    <3> QED BY <1>1, <1>2, <1>5, <3>1, CloseStep DEF UnmanageWindow
  <2>2. CASE w \notin layer.inked
    <3>1. layer' = layer /\ layer.strokes[w] = {}
          /\ layer.strokes \in [Target -> SUBSET StrokeId]
      BY <1>1, <1>5, <2>2 DEF UnmanageWindow, Safe, Sound, Layer
    <3>2. [layer.strokes EXCEPT ![w] = {}] = layer.strokes
      BY <3>1
    <3>3. Closes(layer, layer', w)
      BY <3>1, <3>2 DEF Closes
    <3> QED BY <1>1, <1>2, <1>5, <3>1, <3>3, CloseStep, SameSeen DEF UnmanageWindow
  <2> QED BY <2>1, <2>2
<1>6. ASSUME NEW w \in Window, WindowMoved(w)
      PROVE  Tidy(layer') /\ Lifts(layer, layer') /\ [Board!Next]_(Board!vars)
  BY <1>1, <1>3, <1>6, MovedLight DEF WindowMoved
<1>7. ASSUME NEW w \in Window, WindowResized(w)
      PROVE  Tidy(layer') /\ Lifts(layer, layer') /\ [Board!Next]_(Board!vars)
  <2> DEFINE r == IF w \in layer.inked
                    THEN rasterize_all_strokes(layer, {w}) ELSE layer
  <2>1. r \in Layer /\ Light(layer, r)
    BY <1>1, RasterSees, LightSteps
  <2>2. layer' = window_moved(r, w) /\ managed' = managed
    BY <1>7 DEF WindowResized
  <2> HIDE DEF r
  <2>3. Light(layer, layer')
    BY <2>1, <2>2, MovedLight, LightMoves
  <2> QED BY <1>3, <2>2, <2>3
<1>8. CASE Restacked
  <2>1. "layout" \in Cause
    BY DEF Cause
  <2>2. Light(layer, layer') /\ managed' = managed
    BY <1>1, <1>8, <2>1, OweLight DEF Restacked
  <2> QED BY <1>3, <2>2
<1>9. ASSUME NEW sized \in BOOLEAN, StageResized(sized)
      PROVE  Tidy(layer') /\ Lifts(layer, layer') /\ [Board!Next]_(Board!vars)
  <2>1. /\ Tidy(layer') /\ Lifts(layer, layer')
        /\ Moves(layer, layer') \/ Turns(layer, layer')
    BY <1>1, <1>9, StageSees DEF StageResized
  <2> QED BY <1>1, <1>2, <1>9, <2>1, MoveStep, TurnStep DEF StageResized
<1> QED BY <1>4, <1>5, <1>6, <1>7, <1>8, <1>9 DEF Signal

\* A recompose is seen if something was lacking.
LEMMA IdleBoard ==
  ASSUME BoardInv, RecomposeIdle
  PROVE  Tidy(layer') /\ Lifts(layer, layer') /\ [Board!Next]_(Board!vars)
<1> DEFINE m == [layer EXCEPT !.idle = FALSE]
<1>1. layer \in Layer /\ Tidy(layer)
  BY BoardFacts
<1>2. layer' \in Layer
  BY BoardFacts DEF Next
<1>3. m \in Layer /\ Seen(m) = Seen(layer) /\ m.owed = layer.owed
  BY <1>1, RecomposeSees DEF Layer
<1>4. layer' = recompose(m) /\ managed' = managed
  BY DEF RecomposeIdle
<1> HIDE DEF m
<1>5. /\ Seen(layer') = Seen(layer)
      /\ layer'.owed = IF Shown(m) THEN {} ELSE layer.owed
  BY <1>3, <1>4, RecomposeSees
<1>6. /\ (Shown(m) <=> Shown(layer)) /\ (Shown(layer') <=> Shown(layer))
      /\ Tidy(layer') /\ Lifts(layer, layer')
  BY <1>1, <1>3, <1>5, SameSeen DEF Seen
<1>7. Composes(layer, layer') \/ Rests(layer, layer')
  BY <1>5, <1>6 DEF Seen, Sheets, Hand, Composes, Rests, Lacks
<1> QED BY <1>1, <1>2, <1>4, <1>6, <1>7, ComposeStep, RestStep

\* The struct starts in order.
LEMMA InitBoard == Init => BoardInv /\ Board!Init /\ Lifts(NewLayer, layer)
<1> SUFFICES ASSUME Init PROVE BoardInv /\ Board!Init /\ Lifts(NewLayer, layer)
  OBVIOUS
<1>1. PICK sized \in BOOLEAN : layer = on_stage_size_changed(NewLayer, sized)
  BY DEF Init
<1>2. NewLayer \in Layer
  BY ConstantsAssumption
  DEF NewLayer, Layer, Target, StrokeId, NoStroke, Stroke, NullStroke, Frame,
      Pinned, Image, Cause
<1>3. Safe(NewLayer) /\ Tidy(NewLayer)
  BY <1>2 DEF Safe, Sound, InFlight, Tidy, NewLayer, NoStroke, Target
<1>4. /\ Tidy(layer) /\ Lifts(NewLayer, layer)
      /\ Moves(NewLayer, layer) \/ Turns(NewLayer, layer)
  BY <1>1, <1>3, StageSees
<1>5. /\ NewLayer.strokes = [t \in Target |-> {}] /\ NewLayer.next = 1
      /\ NewLayer.current = NoStroke /\ ~NewLayer.active
  BY DEF NewLayer
<1>6. layer.active = NewLayer.active
  <2> DEFINE b == [NewLayer EXCEPT !.surface = TRUE]
             r == rasterize_all_strokes(b, {Desktop})
             fresh == [r EXCEPT !.owed = @ \cup {"layout"}]
  <2>1. b \in Layer /\ b.active = NewLayer.active
    BY <1>2 DEF Layer
  <2>2. layer = DropStroke(IF sized THEN schedule_recompose(fresh) ELSE NewLayer)
    BY <1>1, Zenon DEF on_stage_size_changed
  <2> HIDE DEF b
  <2>3. r \in Layer /\ r.active = b.active
    BY <2>1, PaintFlags DEF Flags
  <2> HIDE DEF r
  <2>4. fresh \in Layer /\ fresh.active = r.active
    BY <2>3, OweFlags DEF Flags, Cause
  <2> HIDE DEF fresh
  <2>5. /\ schedule_recompose(fresh) \in Layer
        /\ Face(schedule_recompose(fresh)) = Face(fresh)
    BY <2>4, ScheduleType, ScheduleSees DEF Seen
  <2>6. Face(DropStroke(schedule_recompose(fresh))) = Face(fresh)
        /\ Face(DropStroke(NewLayer)) = Face(NewLayer)
    BY <1>2, <2>5, DropSees
  <2> QED BY <2>1, <2>2, <2>3, <2>4, <2>6 DEF Face
<1>7. ~Shown(layer) /\ ~Shown(NewLayer)
  BY <1>5, <1>6 DEF Shown, Visible
<1>8. /\ layer.strokes = [t \in Target |-> {}] /\ layer.next = 1
      /\ layer.current = NoStroke
  BY <1>4, <1>5, <1>7 DEF Moves, Turns
<1>9. (Visible(layer) /\ layer.surface) = FALSE
  BY <1>7 DEF Shown
<1>10. managed \in SUBSET Window
  BY DEF Init
<1>11. Board!Init
  <2>1. layer.strokes = Board!Empty
    BY <1>8 DEF Board!Empty, Board!Sheet, Target
  <2>2. 1 .. layer.next - 1 = {}
    BY <1>8
  <2>3. (layer.owed \ {"bystander"} # {}) \in BOOLEAN
    OBVIOUS
  <2> QED BY <1>8, <1>9, <1>10, <2>1, <2>2, <2>3 DEF Board!Init
<1> QED BY <1>4, <1>11, InitDebt, InitInk DEF BoardInv

\* Every step of the layer is a step of the whiteboard, or none.
LEMMA NextBoard ==
  BoardInv /\ [Next]_vars => BoardInv' /\ [Board!Next]_(Board!vars)
<1> SUFFICES ASSUME BoardInv, [Next]_vars
             PROVE  Tidy(layer') /\ [Board!Next]_(Board!vars)
  BY NextDebt, NextInk, TidyPrime DEF BoardInv
<1>1. CASE UNCHANGED vars
  <2>1. Tidy(layer')
    BY <1>1, BoardFacts DEF vars
  <2>2. UNCHANGED Board!vars
    BY <1>1 DEF vars, Board!vars, Visible
  <2> QED BY <2>1, <2>2
<1> QED BY <1>1, PenEventBoard, CallBoard, SignalBoard, IdleBoard DEF Next

\* Every dispatch of the compositor's main loop that touches the layer is one
\* move of the whiteboard or none: only a pen over a shown layer adds a stroke,
\* only erasing, undo, gestures, clearing and closing a window remove one, and
\* the stroke in hand goes with it.  That what is shown stale is composed in
\* the end is not part of this theorem.
THEOREM ImplementsBoardSafely == Spec => Board!Init /\ [][Board!Next]_(Board!vars)
<1> QED BY InitBoard, NextBoard, PTL DEF Spec
=============================================================================
