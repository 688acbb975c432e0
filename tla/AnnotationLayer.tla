-------------------------- MODULE AnnotationLayer --------------------------
(***************************************************************************)
(* The ink layer of the forked compositor: struct _MetaAnnotationLayer of  *)
(* src/mutter/src/compositor/meta-annotation-layer.c and every function    *)
(* that changes it, except the chrome-press fields (PenRouting) and the    *)
(* clock of the tap gestures (TapGestures).                                *)
(*                                                                         *)
(* All of it runs on the compositor's main thread: input events, D-Bus     *)
(* calls, window signals and the recompose idle are separate main-loop     *)
(* dispatches, so one action is one dispatch, and the interleaving of      *)
(* dispatches is what is explored.                                         *)
(*                                                                         *)
(* The C functions take the struct and update it in place, one calling the *)
(* next; here each is an operator from a layer value to a layer value, of  *)
(* the same name and composed in the same order.                           *)
(*                                                                         *)
(* Abstractions.  A position is only what the code computes from it: the   *)
(* window it picks (or none), whether it lies in the editor region, which  *)
(* strokes the eraser touches.  A stroke is an id, handed out in creation  *)
(* order; g_ptr_array_add appends and g_ptr_array_remove_index keeps the   *)
(* order, so the array of a target is its set of ids in increasing order   *)
(* and its last element is the greatest.  A surface is the set of stroke   *)
(* images painted on it, each with the coordinate frame it was painted in; *)
(* colours, widths and clips are left out of both.                         *)
(***************************************************************************)
EXTENDS Naturals

CONSTANTS
  Window,         \* MetaWindow objects that may ever exist
  Desktop,        \* the NULL anchor: ink over no window
  Pid,            \* process ids (the code ignores pid 0)
  PidOf,          \* meta_window_get_pid of each window
  Colour,         \* pen colours
  InitialColour,  \* the compiled-in colour
  Region,         \* geometries of an editor region
  NoRegion,       \* has_editor_region = FALSE
  Scroll,         \* scroll offsets; 0 is that of a fresh WindowInk
  Barrel,         \* barrel buttons of the pens
  EraserTip,      \* what event_is_eraser_tool may say: {FALSE} or BOOLEAN
  Chrome,         \* ids of chrome regions (dock buttons, dock body)
  MaxStroke       \* bound: strokes ever created

ASSUME ConstantsAssumption ==
  /\ Desktop \notin Window
  /\ PidOf \in [Window -> Pid]
  /\ InitialColour \in Colour
  /\ NoRegion \notin Region
  /\ 0 \in Scroll
  /\ EraserTip \in SUBSET BOOLEAN
  /\ MaxStroke \in Nat

VARIABLES
  layer,    \* the struct, with its WindowInk and Stroke objects
  managed   \* the windows meta_display_list_all_windows returns (external)

vars == <<layer, managed>>

Target   == Window \cup {Desktop}
StrokeId == 1 .. MaxStroke
NoStroke == 0                                     \* current_stroke == NULL

\* A coordinate frame: where content-space points of a target are painted.
Frame  == [region : Region \cup {NoRegion}, scroll : Scroll]
Pinned == [region |-> NoRegion, scroll |-> 0]     \* target-local points

\* A Stroke: whether its points are in editor content space, the frame its
\* first point was converted with, the array it was appended to.
Stroke == [follow_scroll : BOOLEAN, frame : Frame, home : Target]
NullStroke == [follow_scroll |-> FALSE, frame |-> Pinned, home |-> Desktop]

\* A stroke's image on a surface: in which frame.
Image == [stroke : StrokeId, frame : Frame]

\* Why the uploaded composite differs from what recompose would make of the
\* current state; emptied when recompose runs.  "bystander": a window that
\* carries no ink moved over or off ink.
Cause == {"ink", "layout", "chrome", "bystander"}

Layer ==
  [active : BOOLEAN, paused : BOOLEAN,
   surface : BOOLEAN,                      \* the stage-sized buffers exist
   idle    : BOOLEAN,                      \* recompose_idle_id != 0
   dirty   : BOOLEAN,                      \* recompose_dirty
   rgba    : Colour,
   barrel  : SUBSET Barrel,                \* pen_barrel_buttons
   anchor  : Target,                       \* stroke_anchor
   stroke_active : BOOLEAN,
   current : StrokeId \cup {NoStroke},     \* current_stroke
   follow  : BOOLEAN,                      \* stroke_follow_scroll
   last_ink : Target, last_ink_present : BOOLEAN,
   pending_tap : BOOLEAN, tap_anchor : Target,
   inked   : SUBSET Window,                \* keys of per_window
   strokes : [Target -> SUBSET StrokeId],
   drawn   : [Target -> SUBSET Image],     \* pixels of each target's surface
   region  : [Window -> Region \cup {NoRegion}],
   scroll  : [Window -> Scroll],
   chrome  : SUBSET Chrome,                \* chrome_regions
   heap    : [StrokeId -> Stroke],
   next    : 1 .. MaxStroke + 1,           \* id of the next Stroke
   owed    : SUBSET Cause]                 \* history, see Cause

-----------------------------------------------------------------------------
(* Recompose: coalesced on an idle source, or owed while the actor hides   *)

Visible(l) == l.active /\ ~l.paused

\* Mutant: a change made while the actor hides is not remembered.
schedule_recompose_Forgets(l) ==
  IF l.surface /\ Visible(l) THEN [l EXCEPT !.idle = TRUE] ELSE l

schedule_recompose(l) ==
  IF ~l.surface THEN l
  ELSE IF Visible(l) THEN [l EXCEPT !.idle = TRUE]
  ELSE [l EXCEPT !.dirty = TRUE]

recompose(l) ==
  IF ~l.surface THEN l
  ELSE IF Visible(l) THEN [l EXCEPT !.dirty = FALSE, !.owed = {}]
  ELSE [l EXCEPT !.dirty = TRUE]

\* Mutant: the actor is shown and the composition left to the idle.
update_actor_visibility_ShowsStale(l) ==
  IF Visible(l) /\ l.dirty THEN [l EXCEPT !.idle = TRUE] ELSE l

\* Mutant: showing the actor drops the idle even when nothing is composed.
update_actor_visibility_DropsIdle(l) ==
  IF ~Visible(l) THEN l
  ELSE LET m == [l EXCEPT !.idle = FALSE] IN IF l.dirty THEN recompose(m) ELSE m

update_actor_visibility(l) ==
  IF Visible(l) /\ l.dirty THEN recompose([l EXCEPT !.idle = FALSE]) ELSE l

-----------------------------------------------------------------------------
(* Surfaces                                                                *)

HasRegion(l, t) == t \in Window /\ l.region[t] # NoRegion

FrameOf(l, t) ==
  IF t \in Window THEN [region |-> l.region[t], scroll |-> l.scroll[t]]
  ELSE Pinned

\* The frame a stroke of target t is painted in now.
PaintFrame(l, t, follow) == IF follow THEN FrameOf(l, t) ELSE Pinned

\* What a target's stored strokes look like: a content-space stroke is left
\* out while its target has no editor region.
Images(l, t) ==
  {[stroke |-> s, frame |-> PaintFrame(l, t, l.heap[s].follow_scroll)] :
     s \in {s \in l.strokes[t] : l.heap[s].follow_scroll => HasRegion(l, t)}}

\* Clear the surfaces of the targets T and paint their stored strokes.
rasterize_all_strokes(l, T) ==
  [l EXCEPT
     !.drawn = [t \in Target |-> IF t \in T THEN Images(l, t) ELSE @[t]],
     !.owed = IF T = {} THEN @ ELSE @ \cup {"ink"}]

\* strokes_clear and surface_clear of a target.
WipeTarget(l, t) ==
  [l EXCEPT !.strokes[t] = {}, !.drawn[t] = {}, !.owed = @ \cup {"ink"}]

-----------------------------------------------------------------------------
(* The stroke in flight                                                    *)

DropStroke(l) ==
  [l EXCEPT !.stroke_active = FALSE, !.current = NoStroke, !.anchor = Desktop]

SealStroke(l) == [DropStroke(l) EXCEPT !.follow = FALSE]

erase_is_active(l, eraserTip) == l.barrel # {} \/ eraserTip

ensure_window_ink(l, t) ==
  IF t \in Window THEN [l EXCEPT !.inked = @ \cup {t}] ELSE l

\* Mutant: every point opens a Stroke.
append_ink_point_EveryPoint(l) ==
  [l EXCEPT
     !.heap[l.next] =
        [follow_scroll |-> l.follow,
         frame |-> PaintFrame(l, l.anchor, l.follow), home |-> l.anchor],
     !.strokes[l.anchor] = @ \cup {l.next},
     !.current = l.next,
     !.next = @ + 1]

\* Open a new Stroke on the current target if none is in flight.
append_ink_point(l) ==
  IF l.current # NoStroke THEN l
  ELSE [l EXCEPT
          !.heap[l.next] =
             [follow_scroll |-> l.follow,
              frame |-> PaintFrame(l, l.anchor, l.follow), home |-> l.anchor],
          !.strokes[l.anchor] = @ \cup {l.next},
          !.current = l.next,
          !.next = @ + 1]

\* Press at a point over t, inside its editor region or not.  The first
\* point is stored but not painted.
begin_stroke(l, t, inside, erase) ==
  LET b == [ensure_window_ink(l, t) EXCEPT
              !.anchor = t, !.current = NoStroke, !.stroke_active = TRUE,
              !.follow = ~erase /\ inside /\ HasRegion(l, t)]
  IN IF erase THEN b
     ELSE append_ink_point([b EXCEPT !.last_ink = t, !.last_ink_present = TRUE])

\* The strokes an eraser segment may hit: content-space ones only while the
\* target has a region for the segment to lie in.
Erasable(l) ==
  {s \in l.strokes[l.anchor] : l.heap[s].follow_scroll => HasRegion(l, l.anchor)}

erase_segment(l, hit) ==
  LET sealed == [l EXCEPT !.current = NoStroke]
  IN IF hit = {} THEN sealed
     ELSE rasterize_all_strokes([sealed EXCEPT !.strokes[l.anchor] = @ \ hit],
                                {l.anchor})

\* Paint the segment at the pen's position.
ink_segment(l) ==
  LET a == append_ink_point(l)
  IN [a EXCEPT
        !.drawn[a.anchor] =
           @ \cup {[stroke |-> a.current,
                    frame |-> PaintFrame(a, a.anchor, a.follow)]},
        !.owed = @ \cup {"ink"}]

continue_stroke(l, erase, hit) ==
  schedule_recompose(IF erase THEN erase_segment(l, hit) ELSE ink_segment(l))

end_stroke(l) == schedule_recompose(SealStroke(l))

-----------------------------------------------------------------------------
(* Clearing                                                                *)

meta_annotation_layer_clear(l) ==
  recompose(
    [DropStroke(l) EXCEPT
       !.strokes = [t \in Target |-> {}],
       !.drawn = [t \in Target |-> {}],
       !.owed = @ \cup {"ink"},
       !.last_ink = Desktop, !.last_ink_present = FALSE,
       !.idle = FALSE])

clear_ink_for_anchor(l, t) ==
  LET wiped  == WipeTarget(l, t)
      sealed == IF l.anchor = t THEN DropStroke(wiped) ELSE wiped
  IN schedule_recompose(
       IF l.last_ink = t
         THEN [sealed EXCEPT !.last_ink = Desktop, !.last_ink_present = FALSE]
         ELSE sealed)

\* pending_tap_anchor is read only while pending_tap, so it goes with it.
cancel_tap_pending(l) ==
  [l EXCEPT !.pending_tap = FALSE, !.tap_anchor = Desktop]

\* A release that completes a tap may complete a gesture: three taps on the
\* press's anchor, or four anywhere.
note_tap_release(l, gesture) ==
  LET taken == cancel_tap_pending(l)
  IN CASE gesture = "none"   -> taken
       [] gesture = "triple" -> clear_ink_for_anchor(taken, l.tap_anchor)
       [] gesture = "quad"   -> meta_annotation_layer_clear(taken)

Newest(S) == CHOOSE s \in S : \A r \in S : r <= s

\* Mutant: undo of the stroke in flight leaves current_stroke set.
undo_last_Unsevered(l) ==
  LET t == l.last_ink
      rest == l.strokes[t] \ {Newest(l.strokes[t])}
  IN IF ~l.last_ink_present \/ l.strokes[t] = {} THEN l
     ELSE schedule_recompose(
            rasterize_all_strokes([l EXCEPT !.strokes[t] = rest], {t}))

\* Mutant: the first stroke of the array goes instead of the last.
undo_last_Oldest(l) ==
  LET t    == l.last_ink
      cut  == IF l.stroke_active /\ l.anchor = t THEN SealStroke(l) ELSE l
      rest == {s \in l.strokes[t] : \E r \in l.strokes[t] : r < s}
  IN IF ~l.last_ink_present \/ l.strokes[t] = {} THEN l
     ELSE schedule_recompose(
            rasterize_all_strokes([cut EXCEPT !.strokes[t] = rest], {t}))

meta_annotation_layer_undo_last(l) ==
  LET t    == l.last_ink
      cut  == IF l.stroke_active /\ l.anchor = t THEN SealStroke(l) ELSE l
      rest == l.strokes[t] \ {Newest(l.strokes[t])}
      undone == rasterize_all_strokes([cut EXCEPT !.strokes[t] = rest], {t})
      forget(m) == [m EXCEPT !.last_ink = Desktop, !.last_ink_present = FALSE]
  IN IF ~l.last_ink_present THEN l
     ELSE IF l.strokes[t] = {} THEN schedule_recompose(forget(l))
     ELSE schedule_recompose(IF rest = {} THEN forget(undone) ELSE undone)

-----------------------------------------------------------------------------
(* Setters                                                                 *)

meta_annotation_layer_set_active(l, on) ==
  update_actor_visibility(
    IF on THEN [l EXCEPT !.active = TRUE]
    ELSE [l EXCEPT !.active = FALSE, !.barrel = {}, !.current = NoStroke,
                   !.last_ink = Desktop, !.last_ink_present = FALSE])

\* Mutant: pausing leaves the stroke in flight.
set_paused_KeepsStroke(l, on) ==
  update_actor_visibility(
    IF on /\ ~l.paused THEN [l EXCEPT !.paused = TRUE, !.barrel = {}]
    ELSE [l EXCEPT !.paused = on])

\* Mutant: pausing leaves the barrel buttons as they were.
set_paused_KeepsBarrel(l, on) ==
  LET cut == IF l.stroke_active THEN DropStroke(l) ELSE l
  IN update_actor_visibility(
       [(IF on /\ ~l.paused THEN cut ELSE l) EXCEPT !.paused = on])

meta_annotation_layer_set_paused(l, on) ==
  LET cut == IF l.stroke_active THEN DropStroke(l) ELSE l
  IN update_actor_visibility(
       IF on /\ ~l.paused THEN [cut EXCEPT !.paused = TRUE, !.barrel = {}]
       ELSE [l EXCEPT !.paused = on])

WindowsOf(p) == {w \in managed : PidOf[w] = p}

\* Mutant: of the windows of a process only one is repainted.
set_window_editor_region_OneWindow(l, W, r) ==
  schedule_recompose(rasterize_all_strokes(
    [(IF l.stroke_active /\ l.anchor \in W THEN SealStroke(l) ELSE l) EXCEPT
       !.inked = @ \cup W,
       !.region = [w \in Window |-> IF w \in W THEN r ELSE @[w]]],
    {w \in W : w = CHOOSE v \in W : TRUE}))

\* Publish or clear the editor region of the windows W of a process: each is
\* repainted if it had or has a region, and its stroke in flight is sealed.
meta_annotation_layer_set_window_editor_region(l, W, r) ==
  LET changed == [l EXCEPT
                    !.inked = @ \cup W,
                    !.region = [w \in Window |-> IF w \in W THEN r ELSE @[w]]]
      cut == IF l.stroke_active /\ l.anchor \in W THEN SealStroke(changed)
             ELSE changed
      moved == {w \in W : l.region[w] # NoRegion \/ r # NoRegion}
  IN schedule_recompose(rasterize_all_strokes(cut, moved))

\* Mutant: the offset is taken for a delta.
set_window_scroll_Accumulates(l, W, s) ==
  [l EXCEPT !.scroll =
     [w \in Window |-> IF w \in W \cap l.inked THEN @[w] + s ELSE @[w]]]

\* Mutant: ink is scrolled only when the next event repaints it.
set_window_scroll_Unpainted(l, W, s) ==
  LET moved == {w \in W \cap l.inked : l.scroll[w] # s}
  IN schedule_recompose(
       [l EXCEPT !.scroll = [w \in Window |-> IF w \in moved THEN s ELSE @[w]]])

\* Mutant: a stroke in flight goes on across a scroll.
set_window_scroll_Unsealed(l, W, s) ==
  LET moved == {w \in W \cap l.inked : l.scroll[w] # s}
  IN schedule_recompose(rasterize_all_strokes(
       [l EXCEPT !.scroll = [w \in Window |-> IF w \in moved THEN s ELSE @[w]]],
       moved))

\* Scroll the windows W of a process that carry ink and are not there yet.
meta_annotation_layer_set_window_scroll(l, W, s) ==
  LET moved == {w \in W \cap l.inked : l.scroll[w] # s}
      changed == [l EXCEPT
                    !.scroll = [w \in Window |-> IF w \in moved THEN s ELSE @[w]]]
      cut == IF l.stroke_active /\ l.anchor \in moved /\ l.follow
             THEN SealStroke(changed) ELSE changed
  IN schedule_recompose(rasterize_all_strokes(cut, moved))

-----------------------------------------------------------------------------
(* Window and stage signals                                                *)

\* Mutant: only the stroke in flight is dropped with its window.
on_window_unmanaged_KeepsLastInk(l, w) ==
  schedule_recompose(
    [WipeTarget(IF l.anchor = w THEN DropStroke(l) ELSE l, w) EXCEPT
       !.inked = @ \ {w}, !.region[w] = NoRegion, !.scroll[w] = 0])

\* on_window_unmanaged: every pointer to w is dropped before its WindowInk
\* is freed.
on_window_unmanaged(l, w) ==
  LET cut  == IF l.anchor = w THEN DropStroke(l) ELSE l
      undo == IF l.last_ink = w
                THEN [cut EXCEPT !.last_ink = Desktop, !.last_ink_present = FALSE]
                ELSE cut
      tap  == IF l.tap_anchor = w THEN cancel_tap_pending(undo) ELSE undo
  IN schedule_recompose(
       [WipeTarget(tap, w) EXCEPT
          !.inked = @ \ {w}, !.region[w] = NoRegion, !.scroll[w] = 0,
          !.owed = @ \cup {"layout"}])

\* on_stage_size_changed; "sized" is FALSE for the sizes recreate_buffers
\* refuses.
on_stage_size_changed(l, sized) ==
  LET fresh == [rasterize_all_strokes([l EXCEPT !.surface = TRUE], {Desktop})
                  EXCEPT !.owed = @ \cup {"layout"}]
  IN DropStroke(IF sized THEN schedule_recompose(fresh) ELSE l)

\* position-changed, notify::minimized or workspace-changed of a window.  The
\* handlers are connected by ensure_window_ink, so a window without ink has
\* none, and its move is a bystander's: it matters if there is ink to cover.
window_moved(l, w) ==
  IF w \in l.inked
    THEN schedule_recompose([l EXCEPT !.owed = @ \cup {"layout"}])
  ELSE IF \E t \in Target : l.drawn[t] # {}
    THEN [l EXCEPT !.owed = @ \cup {"bystander"}]
  ELSE l

-----------------------------------------------------------------------------
(* Dispatches of the main loop                                             *)

NewLayer ==
  [active |-> FALSE, paused |-> FALSE, surface |-> FALSE, idle |-> FALSE,
   dirty |-> FALSE, rgba |-> InitialColour, barrel |-> {}, anchor |-> Desktop,
   stroke_active |-> FALSE, current |-> NoStroke, follow |-> FALSE,
   last_ink |-> Desktop, last_ink_present |-> FALSE,
   pending_tap |-> FALSE, tap_anchor |-> Desktop, inked |-> {},
   strokes |-> [t \in Target |-> {}], drawn |-> [t \in Target |-> {}],
   region |-> [w \in Window |-> NoRegion], scroll |-> [w \in Window |-> 0],
   chrome |-> {}, heap |-> [s \in StrokeId |-> NullStroke], next |-> 1,
   owed |-> {}]

\* meta_annotation_layer_new ends by sizing its buffers to the stage.
Init ==
  /\ \E sized \in BOOLEAN : layer = on_stage_size_changed(NewLayer, sized)
  /\ managed \in SUBSET Window

\* meta_annotation_layer_handle_event takes no event otherwise.
Receives == Visible(layer) /\ layer.surface

\* Bound: an event that would create a Stroke beyond MaxStroke is not taken.
Room == layer.next <= MaxStroke

\* Geometry and stacking decide: the topmost eligible window, or none.
pick_anchor_window == managed \cup {Desktop}

BarrelPress(b) ==
  /\ Receives
  /\ layer' = [layer EXCEPT !.barrel = @ \cup {b}]
  /\ UNCHANGED managed

BarrelRelease(b) ==
  /\ Receives
  /\ layer' = [layer EXCEPT !.barrel = @ \ {b}]
  /\ UNCHANGED managed

\* Tip press or touch begin over t.
Press(t, inside, eraserTip) ==
  LET erase == erase_is_active(layer, eraserTip)
  IN /\ Receives
     /\ t \in pick_anchor_window
     /\ erase \/ Room
     /\ layer' = [begin_stroke(layer, t, inside, erase) EXCEPT
                    !.pending_tap = TRUE, !.tap_anchor = t]
     /\ UNCHANGED managed

\* Motion with a button or pressure and no stroke in flight.
MotionBegins(t, inside, eraserTip) ==
  LET erase == erase_is_active(layer, eraserTip)
  IN /\ Receives
     /\ ~layer.stroke_active
     /\ t \in pick_anchor_window
     /\ erase \/ Room
     /\ layer' = cancel_tap_pending(begin_stroke(layer, t, inside, erase))
     /\ UNCHANGED managed

\* The strokes an event's segment may erase.
Hits(eraserTip) ==
  IF layer.stroke_active /\ erase_is_active(layer, eraserTip)
    THEN SUBSET Erasable(layer) ELSE {{}}

\* Motion (or touch update) with a stroke in flight: it may have drifted past
\* the tap radius, and without button or pressure it ends the stroke.
MotionContinues(eraserTip, hit, drift, down) ==
  LET erase   == erase_is_active(layer, eraserTip)
      drawn   == continue_stroke(layer, erase, hit)
      checked == IF drift THEN cancel_tap_pending(drawn) ELSE drawn
  IN /\ Receives
     /\ layer.stroke_active
     /\ erase \/ layer.current # NoStroke \/ Room
     /\ hit \in Hits(eraserTip)
     /\ layer' = IF down THEN checked ELSE end_stroke(checked)
     /\ UNCHANGED managed

\* Tip release or touch end.
Release(eraserTip, hit, gesture) ==
  LET erase == erase_is_active(layer, eraserTip)
      drawn == IF layer.stroke_active
                 THEN continue_stroke(layer, erase, hit) ELSE layer
  IN /\ Receives
     /\ erase \/ ~layer.stroke_active \/ layer.current # NoStroke \/ Room
     /\ hit \in Hits(eraserTip)
     /\ gesture = "none" \/ layer.pending_tap
     /\ layer' = end_stroke(note_tap_release(drawn, gesture))
     /\ UNCHANGED managed

TouchCancel ==
  /\ Receives
  /\ layer' = end_stroke(cancel_tap_pending(layer))
  /\ UNCHANGED managed

RecomposeIdle ==
  /\ layer.idle
  /\ layer' = recompose([layer EXCEPT !.idle = FALSE])
  /\ UNCHANGED managed

Clear ==
  layer' = meta_annotation_layer_clear(layer) /\ UNCHANGED managed

UndoLast ==
  layer' = meta_annotation_layer_undo_last(layer) /\ UNCHANGED managed

SetActive(on) ==
  layer' = meta_annotation_layer_set_active(layer, on) /\ UNCHANGED managed

SetPaused(on) ==
  layer' = meta_annotation_layer_set_paused(layer, on) /\ UNCHANGED managed

SetColor(c) == layer' = [layer EXCEPT !.rgba = c] /\ UNCHANGED managed

\* Windows that have no ink yet and no frame either are passed over (W).
SetWindowEditorRegion(p, W, r) ==
  /\ WindowsOf(p) # {}
  /\ WindowsOf(p) \cap layer.inked \subseteq W
  /\ W \subseteq WindowsOf(p)
  /\ layer' = meta_annotation_layer_set_window_editor_region(layer, W, r)
  /\ UNCHANGED managed

SetWindowScroll(p, s) ==
  /\ WindowsOf(p) # {}
  /\ layer' = meta_annotation_layer_set_window_scroll(layer, WindowsOf(p), s)
  /\ UNCHANGED managed

\* SetChromeRegions, or ClearChromeRegions when C is empty.
SetChromeRegions(C) ==
  /\ layer' = schedule_recompose([layer EXCEPT
                 !.chrome = C,
                 !.owed = IF C = layer.chrome THEN @ ELSE @ \cup {"chrome"}])
  /\ UNCHANGED managed

MapWindow(w) ==
  /\ w \notin managed
  /\ managed' = managed \cup {w}
  /\ UNCHANGED layer

UnmanageWindow(w) ==
  /\ w \in managed
  /\ managed' = managed \ {w}
  /\ layer' = IF w \in layer.inked THEN on_window_unmanaged(layer, w) ELSE layer

WindowMoved(w) ==
  /\ w \in managed
  /\ layer' = window_moved(layer, w)
  /\ UNCHANGED managed

\* size-changed: the surface of a window with ink is painted afresh.
WindowResized(w) ==
  /\ w \in managed
  /\ layer' = window_moved(IF w \in layer.inked
                             THEN rasterize_all_strokes(layer, {w}) ELSE layer, w)
  /\ UNCHANGED managed

\* restacked or active-workspace-changed.
Restacked ==
  /\ layer' = schedule_recompose([layer EXCEPT !.owed = @ \cup {"layout"}])
  /\ UNCHANGED managed

StageResized(sized) ==
  layer' = on_stage_size_changed(layer, sized) /\ UNCHANGED managed

PenEvent ==
  \/ \E b \in Barrel : BarrelPress(b) \/ BarrelRelease(b)
  \/ \E t \in Target, inside \in BOOLEAN, tip \in EraserTip :
       Press(t, inside, tip) \/ MotionBegins(t, inside, tip)
  \/ \E tip \in EraserTip, drift, down \in BOOLEAN, hit \in SUBSET StrokeId :
       MotionContinues(tip, hit, drift, down)
  \/ \E tip \in EraserTip, hit \in SUBSET StrokeId,
        g \in {"none", "triple", "quad"} : Release(tip, hit, g)
  \/ TouchCancel

Call ==
  \/ Clear \/ UndoLast
  \/ \E on \in BOOLEAN : SetActive(on) \/ SetPaused(on)
  \/ \E c \in Colour : SetColor(c)
  \/ \E p \in Pid, W \in SUBSET Window, r \in Region \cup {NoRegion} :
       SetWindowEditorRegion(p, W, r)
  \/ \E p \in Pid, s \in Scroll : SetWindowScroll(p, s)
  \/ \E C \in SUBSET Chrome : SetChromeRegions(C)

Signal ==
  \/ \E w \in Window : MapWindow(w) \/ UnmanageWindow(w)
  \/ \E w \in Window : WindowMoved(w) \/ WindowResized(w)
  \/ Restacked
  \/ \E sized \in BOOLEAN : StageResized(sized)

Next == PenEvent \/ Call \/ Signal \/ RecomposeIdle

\* An idle source is dispatched once no source of higher priority is ready;
\* nothing else is certain to happen.
Spec == Init /\ [][Next]_vars /\ WF_vars(RecomposeIdle)

-----------------------------------------------------------------------------
(* Properties                                                              *)

\* The types of the struct's fields, and of the set of managed windows.
TypeOK == layer \in Layer /\ managed \in SUBSET Window

\* current_stroke (comment at lines 162-168): when set, a stroke is in flight
\* and it points at an element of the array of the current target, whatever
\* undo, clear, tap gestures, window close or stage resize did in between.
CurrentStrokeLive ==
  layer.current # NoStroke =>
    layer.stroke_active /\ layer.current \in layer.strokes[layer.anchor]

\* No window pointer outlives its window: every window the layer points at
\* has a WindowInk, every WindowInk belongs to a managed window, and nothing
\* is stored for a window without one.
NoDanglingWindow ==
  /\ {layer.anchor, layer.last_ink, layer.tap_anchor} \subseteq
       layer.inked \cup {Desktop}
  /\ layer.inked \subseteq managed
  /\ \A w \in Window \ layer.inked :
       layer.strokes[w] = {} /\ layer.drawn[w] = {} /\ layer.region[w] = NoRegion

\* Every image on a surface is of a stroke that surface's array still holds,
\* and lies where that stroke would be painted now: undo, erase, clear, region
\* and scroll updates leave no image of a deleted stroke and none at a stale
\* scroll or region.
NoGhostInk ==
  \A t \in Target : layer.drawn[t] \subseteq Images(layer, t)

\* "Never mutated mid-stroke" (lines 170-177): while a stroke is in flight the
\* frame its points are converted with is the one its first point had.
FollowFrameStable ==
  layer.current # NoStroke =>
    LET s == layer.heap[layer.current]
    IN /\ s.follow_scroll = layer.follow
       /\ s.frame = PaintFrame(layer, layer.anchor, layer.follow)

\* Whatever made the composite stale, a recompose is on its way: an idle is
\* queued, or recompose_dirty makes the next show compose.
RecomposeOwed ==
  layer.surface /\ layer.owed \ {"bystander"} # {} => layer.idle \/ layer.dirty

\* A shown actor never waits for a recompose that only a show would make.
ShownNotDirty == Visible(layer) => ~layer.dirty

\* "So the first frame post-unpause is always correct" (lines 1463-1465): the
\* resume composes whatever the last composite lacks.
FirstFrameCorrect ==
  [][layer.paused /\ Visible(layer') /\ layer'.surface
       => layer'.owed \subseteq {"bystander"}]_vars

\* A pause ends the stroke in flight and nothing starts one until the resume,
\* so no motion after the overview continues a stroke from before it.
PauseSealsStroke == layer.paused => ~layer.stroke_active /\ layer.current = NoStroke

\* Composites catch up: after a change the composite is made again, or the
\* actor hides (its next show composes first, see ShownNotDirty).
EventuallyComposed ==
  layer.surface /\ Visible(layer) /\ layer.owed \ {"bystander"} # {}
    ~> layer.owed \ {"bystander"} = {} \/ ~Visible(layer)

\* "Anchor of the most-recently-begun ink stroke" (lines 186-191): what undo
\* will pop from is where the newest stroke was begun.
LastInkIsNewest ==
  layer.last_ink_present => layer.heap[layer.next - 1].home = layer.last_ink
=============================================================================
