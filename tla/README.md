# A TLA+ model of Screen Annotations

The repository is a fork of Mutter 50.1 and GNOME Shell with "Screen
Annotations": a pen or a finger draws ink over the desktop, the ink follows the
window it was drawn on, and a dock in the shell arms colours, undoes and
clears. Nearly all of the tree is upstream code. The program's own core is the
ink layer in the compositor (`mutter/src/compositor/meta-annotation-layer.c`),
the path of events to it, its D-Bus service, and two shell extensions.

This directory models that core, checks it with TLC and proves its main
invariants with TLAPS. `PROJECT.json` lists every run, mutant, mapped
definition, finding, hazard and theorem; this file explains them.

## The system

| component | code | state | operations |
|---|---|---|---|
| ink layer | `meta-annotation-layer.c` | active, paused, stroke in flight, undo target, barrel buttons; a `WindowInk` per window (strokes, surface, editor region, scroll); the desktop's strokes and surface; composite, idle id, dirty bit | pen and touch events, recompose, D-Bus setters, undo, clear, window and stage signals |
| event routing | `compositor.c` (`meta_compositor_route_annotation_event`), `core/events.c` | `chrome_press_id` | gate on grab and active, hit-test the dock, swallow, hand on |
| tap gestures | `meta-annotation-layer.c` (`note_tap_*`, `tap_history_*`) | pending tap, four-entry history | press, release, cancel, prune, fire |
| D-Bus service | `core/meta-annotation-dbus.c` | connection, name ownership | one method per setter; signal `RegionActivated` |
| pointer isolation | `core/meta-annotation-input.c`, seat, sprite, tablet tool | a flag across threads, last tablet position and time | set, note, freeze the core pointer |
| dock extension | `annotations-shell-extension/extension.js` | activation retries, `_setPaused` epoch and retry, published flag | enable, disable, overview, position, activate a region |
| Kate tracker | `annotations-shell-extension/kateTracker.js` | per-window editor, last region and scroll published | discovery, publication, destroy |
| stroke model | `lib/strokes.js` | strokes, stroke in progress, undo snapshots | draw, erase, undo, translate |
| overlay extension | `extension.js`, `lib/overlaySession.js`, `lib/devices.js` | actors, captured pen, dock position | press, motion, release, toggle |
| content motion | `native/anno-motion.c`, `lib/motionSync.js`, `lib/motionClient.js` | last frame, request in flight | match, translate |

How they interact. Events reach `meta_display_handle_event`; with no stage grab
they go to the router, which keeps those of a press on the dock and hands the
rest to the layer. The dock extension runs in the same process but speaks to
the layer over D-Bus, asynchronously: it publishes the dock's rectangles, and
acts on the `RegionActivated` that comes back. The Kate tracker sends editor
regions and scroll offsets keyed by PID. The layer paints surfaces at once and
leaves the composite to an idle source.

All of the layer runs on the compositor's main thread. What makes it hard is
not parallelism but order: a stroke lasts over many dispatches, and between two
of them a window may close, a region move, an undo arrive, the overview open, a
grab take the release away. Each keeps pointers into what another frees.

What makes each part correct:

* layer: no pointer outlives its object; pixels agree with stored strokes;
  stored points of a stroke are in one frame; every change reaches the
  composite; undo pops the newest stroke;
* routing: what the layer believes of the pen is what the pen does; a dock
  press neither inks nor fires the wrong button;
* taps: a gesture fires exactly for the taps it is defined by;
* isolation: the pointer is never frozen by a session that is over;
* dock extension: paused, active and regions in the compositor converge to what
  the shell last wanted;
* Kate tracker: what the compositor holds for a window is what the editor
  shows, and teardown of one window does not disturb another;
* stroke model: undo restores the picture before the last edit.

## Modules

| module | models | checked by |
|---|---|---|
| `AnnotationLayer` | the whole of the layer except chrome press and tap clock | `MCAnnotationLayer`, four .cfg files |
| `Whiteboard`, `AnnotationBoard` | what the layer promises; the refinement map | `MCAnnotationLayer.cfg` |
| `AnnotationLayerProofs` | theorems about the layer: types and pointers, surfaces and recompose | |
| `AnnotationBoardProofs` | EXTENDS it: the layer implements the whiteboard | |
| `PenRouting` | EXTENDS `AnnotationLayer`: one pen, grabs, the router | `MCPenRouting` |
| `TouchRouting` | EXTENDS `PenRouting`: fingers beside the pen | `MCTouchRouting`, two .cfg files |
| `RoutingProofs` | router implements layer; theorems about pen and fingers | |
| `TapGestures` | pending tap and history with time | itself, two .cfg files |
| `TapProofs` | theorems about gestures | |
| `DockExtension` | the dock extension, the bus and Mutter's flags | itself, three .cfg files |
| `DockProofs` | theorems about calls, replies and flags | |
| `KateTracker` | trackers, Kate's accessibles, the calls and the compositor's side | `MCKateTracker` |
| `KateProofs` | theorems about regions, scrolls and ink over text | |
| `StrokeModel` | the store of the overlay extension, as operators | by way of the next |
| `OverlaySession` | EXTENDS `StrokeModel`: the session, the pen, the self-test | itself |
| `OverlayProofs` | theorems about session and store | |
| `InputIsolation` | the flag and the tablet sample over two threads, buttons to the seat | itself |
| `InputIsolationProofs` | theorems about both threads and the seat | |

### AnnotationLayer

`layer` is the struct with its `WindowInk` and `Stroke` objects as one record;
`managed` is the set of windows that exist. The C functions update the struct
in place and call each other. Each is an operator from a record to a record of
the same name, composed in the same order, and an action is one main-loop
dispatch that applies one of them.

| code | model |
|---|---|
| `stroke_anchor`, NULL for the desktop | `layer.anchor`, `Desktop` |
| `current_stroke` (a pointer) | `layer.current`, an id or `NoStroke` |
| a `GPtrArray` of strokes | the set of their ids: ids grow, append and ordered removal keep the array sorted by id |
| the surface's pixels | `layer.drawn[t]`: which strokes are painted, each in which frame |
| editor region and scroll offset | a `Frame`; a stroke records the frame of its first point |
| coordinates of an event | what the code computes from them: the target picked, inside the editor region or not, strokes the eraser hits, drifted past the tap radius or not |
| `recompose_idle_id`, `recompose_dirty` | `idle`, `dirty` |

`layer.owed` is a history field: why the composite is out of date. Every change
to what recompose reads adds a cause and recompose empties it, so a forgotten
`schedule_recompose` shows as a cause with neither an idle nor the dirty bit.

Left out: colours of strokes and pixels (`rgba` itself is kept), widths,
pressure and tilt, clips, textures, allocation failure, and
`meta_annotation_layer_destroy`, which runs as the compositor ends. A session
without a stage, or without a display, is not modelled.

### PenRouting

`AnnotationLayer` takes any event at any time. Here the events are those of one
pen: `tip` and `held` say what it does, and each step is given to the layer,
swallowed by a dock press, or lost to a grab or to an inactive layer.
`contact`, `slipped`, `tipLost` and `barrelLost` are history: where the contact
began, whether a barrel release ended its dock press, and which releases the
layer was not given. Contact is the tip's pressure: the tip button and pressure
above 0 are taken to come and go together. The layer asks for either
(meta-annotation-layer.c:2604-2613), so a stroke also begins on a motion that
has pressure and no button. Properties that the code cannot keep when a release is
lost are stated for the rest of the time, with these flags.

### Whiteboard

`Whiteboard` is what a user counts on: sheets with strokes, one pen, a picture.
It knows no surfaces, anchors, taps, undo targets or idles. Strokes are added by
a pen over a shown board and no other way, and removed by erasing, undo,
gestures, clearing and closing only; what is removed leaves the pen's hand and
never comes back; and a shown picture catches up. `AnnotationBoard` gives the
map: `open` is `managed`, `ink` the stored strokes, `used` the ids handed out,
`pen` is `current_stroke`, `shown` means that the actor is visible and has a
surface, and the picture is `stale` while the composite owes a change of ink.
(What a bystander window covers is not the board's concern.)

### TouchRouting

The router and the layer tell no device from another: touch sequences and the
pen share `stroke_active`, `current_stroke` and `chrome_press_id`. `fingers`
records who touches and where the touch began. A touch begins, moves, ends or is
cancelled as the pen's contact does, by the operators of `PenRouting`; `tipLost`
here covers the lifts of fingers too.

### TapGestures

Ages stand for time stamps. They are in units of 100 ms and stop at `Horizon`,
past every threshold; the thresholds are those of the code (300, 750 and 100
ms). `log` is history: the last four taps and whether a gesture used them, the
history forgot them or their window closed. `Release` of `AnnotationLayer`
leaves open which gesture a tap completes; this module decides it, and a triple
tap clears the anchor of the pending tap in both. A window that closes and
returns is the same value, which is an address used again.

### DockExtension

The extension is one object whose methods and callbacks all run on the shell's
main loop; what interleaves is the messages. A handler is an operator on the
pair of the object's fields (`ext`) and the calls it has sent, composed as the
methods call each other; an action is one callback. `calls` leads to Mutter and
`inbox` back: replies that have a callback, and `RegionActivated`. `Serve` is
routing by the bus and handling by Mutter in one step, so replies come in the
order of the calls; the daemon's own error overtaking a slower reply of Mutter
and call timeouts are left out. `comp` has the flags of the layer that the calls
set, as the operators of `AnnotationLayer` do.

`ext.monitor` says whether the shell has a primary monitor. Without one
`_positionDock` returns before it publishes (extension.js:406-408), so layout,
the retries and the end of the overview publish nothing; a reply to `SetActive`
publishes all the same. The shell sets the monitor anew and then tells
(`monitors-changed`), which is one step. The retries of `enable`'s idle, every
100 ms and 40 at most, may come at any step and any number of times.

`bus` is `"unowned"` until Mutter gets its name, then `"served"`; `"taken"` when
another process replaces Mutter, which then unregisters its object; `"deaf"`
when the name has come back and the object has not. Another owner may answer a
call with success, and the extension cannot tell.

`ClearChromeRegions` is `SetChromeRegions` of nowhere. Timers fire at any time
after they are set, so no property depends on 300 ms. `UndoLast` has no button
on the dock at present and is not sent. `missed` and `crossed` are history:
which calls got lost with nothing to set them right since, and whether the
pending retry is one of an earlier session.

### KateTracker

A handler is an operator on the pair of one tracker and the calls it has sent;
an action is one callback on the shell's main loop. Accessibles are named by
their window, since what can go wrong is that a tracker holds those of another:
Kate's windows share one application in the accessibility tree, and every call
names the process. Offsets are whole lines, which leaves out line heights and
their calibration. A tracker measures by the scrollbar, or without one by the
first character while that has an extent (`TopOffset`), each from a baseline it
captures once. Timers fire at any step.

`astray` is history: of which windows the last region or offset did not get
there or was overwritten for a sibling. `origin` is the line at offset 0 of the
ink, fixed when `Draw` first inks a window.

### StrokeModel and OverlaySession

Each method of the store is an operator from a store to a store. An event of the
session is what its handlers compute from it: kind, pen or not, on the canvas,
near the dock or on it, over the Clear button, an erasing button or not, moved 8
px since the deferred press, the window and strokes under it. The pen's tip and
barrel are in the model, so releases come after presses. `past` keeps, for each
undo state, the picture before its edit. `swallowed` records that the dock took
the release of a deferred press, `arrived` that the pen came into range and
nothing was released since. The
self-test starts a matcher whose answer, any time later, moves every stroke.

`isDiscretePressEventType` counts event type 16 as a press, and 16 is
`CLUTTER_PROXIMITY_IN` (clutter-enums.h:553). Coming into range therefore goes
to `_onPress`, and the branch for PROXIMITY_IN never runs. A motion presses by
itself (`_penMotionShouldImplicitPress`) if the event has a pressure axis or
tells its device type. `ClutterEvent` of this tree has neither
`has_axis_value` nor `get_device_type` (clutter-event.h), so here it never does,
which is `DeviceTypes = FALSE`. With `DeviceTypes` a motion presses or not,
whatever the tip does: the tool and a clock decide.

### InputIsolation

The main thread sets and clears an atomic flag; the input thread asks for each
motion whether the cursor must stay and notes the motions of pens. Each access
to the flag and each hold of the mutex is a step of its own. A device is what
the classification functions ask of it, and all devices are enumerated. The same
flag is read again on the main thread when a button of a tablet's tool is handed
to the Wayland seat, which counts buttons in 32 bits. `sample.late`, `sawOff` and
`torn` are history: a note that overtook the clearing of the sample, a motion
that saw the flag off, and a press and release met by different flags.

## Runs

| run | bounds | states | result |
|---|---|---|---|
| `layer` | 1 window, 2 strokes, eraser tip, 1 region, 2 offsets, no dock | 202,646 | pass |
| `windows` | 2 windows of one process, 1 stroke, 1 barrel button | 315,542 | pass |
| `pen` | desktop only, 1 stroke, 1 barrel button, 2 dock buttons | 1,066,540 | pass |
| `touch` | 2 fingers and the pen, desktop only, 1 stroke, 1 dock button | 462,224 | pass |
| `taps` | 1 window and the desktop, times to 800 ms | 511,213 | pass |
| `sessions` | 3 intents a session, 1 activation retry, 5 messages, no rival | 819,550 | pass |
| `dock` | 2 colours, 1 layout, 2 intents a session, 2 messages, rivals, a monitor that goes | 7,535,852 | pass |
| `kate` | 2 windows of one process, 1 of them restless, 2 offsets, 1 retry, 1 message | 416,411 | pass |
| `overlay` | 1 window, 2 strokes, 2 undo states, 1 matcher, 1 translation | 51,995 | pass |
| `isolation` | every device, 2 buttons, 2 activations, 1 queued button | 5,038,714 | pass |
| `last_ink`, `dock_touch` | 1 window, 2 strokes, 1 barrel button; as `touch` | | violation |

Bounds. `MaxStroke` is the only bound on behaviours of `AnnotationLayer`: an
event that would create one more stroke is not taken (`Room`), every other
event still is. Two strokes are needed for an undo or an erase that leaves one
behind, and one window beside the desktop for every confusion between a window
anchor and NULL. A second window matters for the PID-keyed calls and for ink
that another window covers, and there one stroke is enough. A second offset is
what makes a scroll visible; a second region would only repeat the first, since
NoRegion is the other value. `layer` erases with the eraser's tip, `windows` and
`pen` with the barrel button. The order of routed events does not depend on
where ink lands, so `pen` and `touch` have no window; the two dock buttons of
`pen` tell a press on one and a release on another apart, and one stroke
suffices to route.
Two fingers beside the pen are three contacts: one to draw, one on the dock, one
to lift in between. In `taps` the history holds at most four taps, and the log
four.

In `DockExtension` the bounds hold back the user and the shell only (`Room`):
replies, timers and the name watch are never blocked. Five messages let a
disable and an enable follow each other at once, as the shell does when it
reorders its extensions, with a reply of the first session still to come; three
intents are an enable and an overview that shows and hides. One retry of the
forty is enough for one too many. `dock` trades messages for layouts, colours,
rivals and the monitor; it has no activation retry, which `sessions` has.

In `kate` one window (`Restless`) scrolls, moves its editor, minimizes and
returns; the other opens, is inked and closes, which is enough to disturb it,
and every call reaches both. `MaxSent` bounds the calls that wait when something
more happens; one handler may still send several. `MaxUnnamed` lets the second
window open only once Mutter has its name, so that calls are lost of one window.
Two strokes and any number of clears let the cap of two undo states (50 in the
code) push one out. In `isolation`
the count is taken modulo 4 in place of 2^32: with two buttons it wraps as soon
as it goes below zero or counts a button twice. Two activations are one session
that is over and one that is not.

Symmetry is used in `touch` only, over fingers, with invariants. Deadlock is
checked in every run and does not occur.

What each property says is in the comment above it. In short:

* `CurrentStrokeLive`, `NoDanglingWindow`, `NoDanglingTap`: no reference
  outlives a stroke or a window.
* `NoGhostInk`: every painted image belongs to a stored stroke and lies where it
  would be painted now.
* `FollowFrameStable`: scroll and region updates never change the frame under a
  stroke in flight.
* `RecomposeOwed`, `ShownNotDirty`, `EventuallyComposed`: no change is lost to
  the composite.
* `ImplementsWhiteboard`: every dispatch is one move of the whiteboard or none.
* `PauseSealsStroke`, `StrokeTracksTip`, `EraseTracksBarrel`: what the layer
  believes of the pen.
* `DockContactNoInk`, `ActivatedWhereItBegan`: dock presses.
* `InkHasContact`, `DockPressHasContact`: however fingers and pen interleave, a
  stroke in flight and a press on the dock each belong to a contact that is
  still there, unless a lift was lost.
* `PausedAsIntended`, `ActiveAsEnabled`, `RegionsAsShown`, `ColourAsArmed`: when
  messages have settled, Mutter agrees with the shell, unless a call was lost
  and nothing has set it right since, or, for regions, there is no primary
  monitor.
* `EventuallyActive`: an enabled extension activates Mutter however late.
* `GestureEarned`, `FastTapsFire`: a gesture fires only for its taps, and always
  for a fast burst.
* `RegionAsTracked`, `InkStaysOnText`, `EventuallyFollows`: what Mutter holds
  for a window is what its tracker sent; ink stays on its line; a document at
  rest is followed even if the editor never says that it scrolled.
* `IdleModelEmpty`, `UndoStackTrue`, `InkNeedsPress`: no stroke is left in hand,
  undo states are the pictures of their time, ink begins under a pressed pen,
  after a release that the dock swallowed, or while the arrival that counted as a
  press lasts.
* `PenKeepsOffCursor`, `HeldBySession`, `SeatButtonsTrue`: routing and isolation
  agree, a mouse is held by the present session only, and the seat's buttons are
  those that are down.

Each property has a mutant: a definition changed the way a plausible bug would
change it, under which TLC finds the property violated. The mutants stand
before the definitions they mutate.

### Disagreements found

Two are runs of `PROJECT.json`.

* `LastInkIsNewest`. Press with the barrel held, release the barrel, draw on:
  `continue_stroke` opens a Stroke but only `begin_stroke` calls
  `set_last_ink_anchor`. Undo then pops another stroke, or none.
* `DockDragNeverInks`. The lift of any contact clears `chrome_press_id`. With a
  stroke in flight a finger presses the dock and the first contact lifts: its
  release is swallowed, so `stroke_active` stays, and it ends the suppression,
  so the drag of the finger off the dock extends the stroke.

Four more have a configuration that shows them, with the same module:

* `TripleTapFires` (`TapGestures`, `MCTripleTap.cfg`). `tap_history_prune` drops
  taps older than the quad-tap window, 100 ms, before the triple tap, meant to
  allow 750 ms, is looked for. (The comment gives that quad window as 1000 ms,
  the document as 750.)
* `RetryOfThisIntent` (`DockExtension`, `MCStaleRetry.cfg`). `enable` starts the
  epoch at 0 again on the same object, so the late failure of an earlier
  session's `SetPaused(true)` passes the epoch test and sets up a retry that
  hides the ink 300 ms later.
* `FirstFrameCorrect` (`MCAnnotationLayer`, `MCFirstFrame.cfg`). A pause and a
  resume before a pending idle has run: `recompose_dirty` is not set, so the
  first frame after the resume is the one from before the change.
* `HoverInksNothing` (`OverlaySession`, `MCHover.cfg`). Type 16 is taken for a
  press of the tip and is the pen's coming into range. The first one after
  showing the overlay or leaving range arms the deferred press, and 8 px of
  hovering then ink; later ones ink at once. The comments say that hover does
  not start a stroke cold (overlaySession.js:228) and that the event is then
  skipped (1528).

Others were met and are not runs; those the properties above would run into are
excused there by name.

* Layer and routing: a window without ink that moves over another's ink
  schedules no recompose (its handlers come with its ink); pressure without a
  button begins a stroke, though ANNOTATION_MUTTER_CHANGES.md:41 promises no ink
  until a button is down; the release of a
  barrel button ends a dock press too; `SetColor` in mid-stroke; regions stay
  published when the dock hides before their call is answered.
* Dock extension: a pause is given up after two attempts; a name that comes back
  without its object is never noticed.
* Kate tracker: the poll compares with its own last tick, not with what was
  published, so an event between two ticks can hide a change (`PollFooled`);
  baselines are captured anew after a re-enable or by a scrollbar found late,
  which shifts ink that is there; a scroll of a window without ink is dropped;
  `destroy` clears the region of siblings; a lost region is not sent again; the
  first tracker of a process takes every bounds event.
* Overlay: undo after erasing restores nothing, as the eraser acts before the
  state is taken; undo across a translation puts strokes back
  where they were; hover inks after a deferred press is released over the dock; a
  deferred press of the barrel inks instead of erasing;
  a self-test in mid-stroke drops the stroke, and of two self-tests only the
  second can be cancelled.
* Isolation: a note that overtakes the clearing of the sample holds a mouse in
  the next session; a press and a release met by different flags leave the seat
  counting a button that is up.

### Fairness

`EventuallyComposed` needs weak fairness of `RecomposeIdle`. The idle
is a GLib idle source of default idle priority on the main loop; once queued it
stays ready until dispatched or removed, and is dispatched when no source of
higher priority is ready. That it is not starved for ever is the assumption. No
fairness is assumed of the pen, the callers or the windows. The property
accepts a hidden actor as an end: a user may pause and resume for ever, and
`ShownNotDirty` covers the show that follows.

The whiteboard's fairness, that a shown picture catches up, is implemented by the
same assumption.

`EventuallyActive` needs weak fairness of `Serve`, `Deliver` and `NameAppeared`:
the bus delivers what is sent, Mutter's main loop dispatches it, and a name
watch calls back. Timers are not assumed to fire; the property shows that they
are not needed. It speaks of behaviours in which the extension stays enabled and
Mutter keeps its name from some point on.

`EventuallyFollows` needs weak fairness of `Serve` and strong fairness of the
poll of each window. The poll is a repeating GLib timeout that stays set until
the tracker goes; in the model the bound on messages makes it wait now and
then, so weak fairness would not make it tick. No event of the editor is
assumed to come, which is the reason for the poll.

No fairness is assumed in `PenRouting`, `TouchRouting`, `TapGestures`,
`OverlaySession` and `InputIsolation`, where only safety is claimed.

## Theorems

All are proved by `tlapm` for every value of the constants, from the named
assumptions of the modules and nothing else:

* `ConstantsAssumption`, `PenAssumption`: the desktop is not a window, no region
  is not a region, the markers of a contact are not buttons of the dock, the
  pen's tip is not an eraser;
* `TapAssumption`: windows of time are natural numbers below the age at which
  the model stops counting;
* `StrokeModelAssumption`, `OverlayAssumption`: null is no stroke and no window,
  the cap on undo states is positive, events tell their device or not;
* `IsolationAssumption`, `NoMotionAssumption`: finitely many buttons, fewer than
  the modulus of their count less one (32 bits in the code);
* `DockAssumption`: the first colour is a colour, a button arms a colour or
  clears, "nowhere" is not a place, the bounds are natural numbers, there may be
  rivals or not and the monitor may go or not;
* `KateAssumption`: null is no window, no extents and no number, 0 is among the
  offsets, which are natural numbers, an editor has some extents, there is at
  least one attempt to discover.

None forbids a state of the program. No theorem depends on the values the runs
give to bounds: strokes, windows, fingers, buttons, scrolls, sessions, messages
in flight and undo states are any number. Hardly any of the properties is inductive; what each needs:

**Pointers** (`AnnotationLayerProofs`: `TypeCorrect`, `CurrentStrokeIsLive`,
`NoWindowDangles`, `PauseSeals`). `CurrentStrokeLive` needs types and the fact
that nothing is stored for a window without ink; `NoDanglingWindow` needs to
know that the anchor stays inked over every operator, also in the middle of a
dispatch. The inductive invariant `Inv` is `Safe(layer)` with `inked`, `managed`
and `Window` nested. `Safe` splits in two, `Sound`, which every operator keeps,
and `InFlight`, which clearing breaks until it drops the stroke a line later.
Since the model is operators composed as the C functions are, so is the proof:
one lemma for each operator, then each action by the lemmas of the operators it
is made of (`PenEventInv`, `CallInv`, `SignalInv`, `NextInv`). What
follows is laid out the same way.

**Surfaces and recompose** (`AnnotationLayerProofs`: `RecomposeIsOwed`,
`ShownIsNotDirty`, `NoInkIsGhost`, `FollowFrameIsStable`). `DebtInv` adds `Debt`:
no dirty bit without buffers or beside a shown actor (`Kept`), and an idle or
the dirty bit for whatever the composite lacks (`Paid`). `Kept` holds between any
two statements, `Paid` only when a dispatch ends. `InkInv` adds `Ink`: stored
ids have been handed out, so that a new stroke overwrites none; every image is
one that painting its target again would make; and the stroke in flight has the
frame its surface is painted with, so that sealing is all a scroll must do.

**The whiteboard** (`AnnotationBoardProofs`: `ImplementsBoardSafely`). Every
dispatch is a move of `Whiteboard` under the map of `AnnotationBoard`, or none.
`BoardInv` is the two invariants with `Tidy`: the stroke in flight is the newest
id, no stroke is on two sheets, a pending tap is where the stroke is, and the
layer hears a barrel button only while it shows. One lemma takes each kind of
change of the layer (draws, erases, wipes, undoes, ...) to the whiteboard's
action, one for each operator says which kind it is. The fairness part of
`ImplementsWhiteboard` is left to TLC.

**Routing** (`RoutingProofs`). `PenImplementsLayer` and `TouchImplementsLayer`:
every step of the router is a step of the layer or leaves it alone, so all of
the above holds behind it. `PenInv` adds to `BoardInv` the three properties about
the pen's tip, barrel and dock press, which are inductive only together: what
ends a stroke while the layer hears nothing is `Tidy`. With fingers, one
`stroke_active` and one `chrome_press_id` serve them all. `TouchInv` adds that a
stroke and a press at the same time have two contacts (`TwoContacts`): else the
lift that ends the press would leave the stroke to nobody. From these follow
`PenTypeCorrect`, `PenUpDrawsNothing`, `PenErasesByButton`,
`DockContactDrawsNothing`, `DockFiresInPlace`, `NoContactNoInk` and
`DockPressIsHeld`.

**Gestures** (`TapProofs`: `TapTypeCorrect`, `NoTapOutlivesWindow`,
`GesturesAreEarned`, `FastTapsAreSeen`). `TapInv` ties the history to the log:
ages fall along both, the history is the newest part of the log and unspent
(`Newest`), and a fresh tap of the log that the history lacks is older than the
pruning window (`LostIsOld`). `FastTapsAreSeen` needs a hypothesis,
`QuadWindow <= TripleWindow`, true of the code (100 ms and 750 ms): otherwise
the history may hold three taps too slow for a triple one.

**Isolation** (`InputIsolationProofs`: `IsolationTypeCorrect`,
`SeatKnowsButtons`, `OverlayKeepsCursor`, `MouseHeldBySession`). `IsolationInv`
says for each point of either thread what it has learnt: `Clearing` and `Notes`
that a sample on its way is of this session or marked late, `Frozen` that a
motion asks the second question only if it saw the flag off or is a tablet's,
and `Seats` that along the queue each button alternates between press and
release from what the main thread was last told to what the device is now, which
is what keeps a count from wrapping.

**Overlay** (`OverlayProofs`: `OverlayTypeCorrect`, `NothingLeftInHand`,
`UndoIsTrue`, `InkBeginsPressed`). Every callback leaves the store in one of a
few ways (`Outcome`), and each pushes at most one undo state. `OverlayInv` has
`IdleModelEmpty`, the match of undo states with pictures of edits (`Matched`),
types that grow with the number of translations, and `Deferral`, which ties a
press that is armed to what was taken for it: a pen that is pressed, a release
that the dock swallowed, or a pen that came into range and has neither been
released nor left. `InkBeginsPressed` holds with `DeviceTypes` and without; with
it, a motion may press by itself once ink is unlocked.

**Dock extension** (`DockProofs`: `DockTypeCorrect`, `PausedStaysIntended`,
`ActiveStaysEnabled`, `RegionsStayShown`, `ColourStaysArmed`). The properties
speak of states where nothing is under way; `DockInv` says of every other state
how it gets there. A call counts only if it is the last of its name in the queue
(`LastIn`), and with no such call on its way the flag itself counts, unless the
last one got lost (`InForce`). On top of that:

* a `SetPaused` whose failure would be retried is of an earlier epoch or of this
  intent (`Superseded`), or is marked as an old session's: this is the epoch at
  work, and `crossed` is where it fails (see `RetryOfThisIntent`);
* regions and colours may be wrong as long as a reply to `SetActive(true)` is to
  come (`Republish`), since its callback sends them again; a `SetActive(true)`
  on its way promises that reply (`Activating`);
* without a primary monitor whatever was published stays (`Suits`), and nothing
  is positioned (`Placed`) until it returns;
* regions that got lost before Mutter had its name were never there
  (`RegionsLost`), so that one more activation repairs them.

A lemma for each handler says what it sends and what it leaves in force, one for
each action applies it. `missed` keeps calls lost to another owner of the name
out of the claim, as in the runs; TLC finds `DockInv` true at the constants of
`MCDockSessions.cfg` and `MCDockExtension.cfg` too.

**Kate tracker** (`KateProofs`: `KateInvariance`, `KateTypeCorrect`,
`RegionsAreTracked`, `InkIsOnText`). Both safety properties speak of a tracker
whose calls have all arrived. `KateInv` says of every other state, for each
window and kind of call, that the last such call on the way carries what the
tracker remembers to have sent, and that with none on the way the compositor
holds it (`Agreed`), except where a call got lost or a sibling's came later
(`astray`). A tracker that has just forgotten, in `_tryDiscover`, says nothing.
For this to survive `destroy` the invariant also needs that the map has a window
at most once and only while it is managed (`Mapped`), that a window without a
tracker is as a new tracker would find it, and that a closed window has no
region left. `InkStaysOnText` further needs `Anchored`: the baseline of a
tracker over ink is the line the ink began on, and its scrollbar is of its own
window, since a window alone in its process has no sibling to take one from.
Types need that a tracker whose timer runs has attempts left. TLC finds
`KateInv` true at the constants of `MCKateTracker.cfg` too.

Only model-checked:

* liveness (`EventuallyComposed`, `EventuallyActive`, `EventuallyFollows`, and
  the fairness in `ImplementsWhiteboard`), which is out of the prover's reach;
* the two runs in which a property is violated (`DockDragNeverInks`,
  `LastInkIsNewest`).

## Not modelled

Vendored Mutter and GNOME Shell, about 546,000 of the 551,000 lines in the tree,
appear only as the environment; the definitions here stand for most of the rest
that has state, 4,960 lines of it. Of the project's own code these parts are
left out:

* overlay extension: the repair of stage coordinates (numeric heuristics), the
  look and dragging of the dock, actor trees, preferences; `serialize` and
  `deserialize` of the store, which nothing calls;
* Kate tracker: line heights and their calibration;
* content motion: block matching in `anno-motion.c`, which is numeric and keeps
  no state, and a timer of `motionSync.js` with an empty body;
* isolation: two readers of the flag that only hide a cursor sprite;
* installation scripts, patches and the archive.

The dock extension is not composed with `PenRouting`. During the overview a
stage grab keeps events from the router, and `RegionActivated` here already
comes whenever Mutter has regions.

## Plan

Done: the modules above, and a theorem for every invariant and every safety part
of a refinement that a passing run checks. Modelling left: the composition of
`DockExtension` with `PenRouting`, and colours of strokes.
