--------------------------- MODULE InputIsolation ---------------------------
(***************************************************************************)
(* Keeping the pen off the core pointer while the annotation layer is      *)
(* active (src/mutter/src/core/meta-annotation-input.c).                   *)
(*                                                                         *)
(* The main thread sets and clears an atomic flag.  The input thread asks  *)
(* for each motion whether the cursor must stay, and notes the motions of  *)
(* pens: libinput may show one pen as a tablet and as a mouse, and a mouse *)
(* is held for 1200 ms after a pen.  Each access to the flag and each hold *)
(* of the mutex is a step of its own.  Events wait in a queue, and the     *)
(* main thread reads the flag again when it hands one to the Wayland seat; *)
(* here these are the buttons of a tablet's tool, which the seat counts.   *)
(***************************************************************************)
EXTENDS Integers, Sequences, FiniteSets

CONSTANTS
  Button,        \* buttons of the pen; its tip is one
  CountModulus,  \* 2^32: button_count is a guint32
  NoMotion,
  MaxSession,    \* bound: activations of the layer
  MaxQueue       \* bound: events under way to the main thread

ASSUME IsolationAssumption ==
  /\ IsFiniteSet(Button)
  /\ CountModulus \in Nat /\ CountModulus > Cardinality(Button) + 1
  /\ MaxSession \in Nat /\ MaxQueue \in Nat

\* What the code asks of a device and its tool: "tablet" is any of the tablet,
\* pen, eraser and cursor types; hint is a size or a name like a stylus's.
Device ==
  [type : {"tablet", "pointer", "touchpad"},
   tool : BOOLEAN,        \* TABLET_TOOL capability, or a drawing tool
   touchpad : BOOLEAN,    \* TOUCHPAD capability
   hint : BOOLEAN]

Motion == [device : Device, pressure : BOOLEAN]

ASSUME NoMotionAssumption == NoMotion \notin Motion

VARIABLES
  isolated,   \* annotation_non_mouse_isolated
  main,       \* where the main thread is in set_non_mouse_pointer_isolated
  sample,     \* the note of the last pen motion, under the mutex
  input,      \* where the input thread is with its motion
  queue,      \* button events from the input thread to the main thread
  down,       \* the buttons pressed (external)
  tool,       \* the Wayland tablet tool: pressed_buttons, button_count
  session,    \* history: activations so far
  reached,    \* history: buttons whose press was dispatched, with the flag then
  torn        \* history: a press and its release met different flags

isolationVars ==
  <<isolated, main, sample, input, queue, down, tool, session, reached, torn>>

Sample ==
  [valid  : BOOLEAN,           \* annotation_tablet_xy_valid
   recent : BOOLEAN,           \* noted in the last 1200 ms
   session : 0 .. MaxSession,  \* history: when the flag was read for it
   late   : BOOLEAN]           \* history: cleared between the read and the note

Input ==
  [pc : {"idle", "note", "write", "skip", "hold", "again"},
   motion : Motion \cup {NoMotion},
   frozen : BOOLEAN,           \* freeze_cursor: the cursor has not followed
   sawOff : BOOLEAN,           \* history: has read a flag that was off
   session : 0 .. MaxSession,  \* history: when it read the flag for the note
   late : BOOLEAN]             \* history: the sample was cleared since

-----------------------------------------------------------------------------
(* Classification                                                          *)

meta_annotation_input_touchpad_is_pen_digitizer_shim(d) ==
  d.type = "touchpad" /\ (d.tool \/ d.hint)

pointer_device_matches_annotation_pointer(d, pressure) ==
  d.tool \/ (~d.touchpad /\ (d.hint \/ pressure))

\* Motion and buttons; a scroll of a pointer is not for the overlay.
meta_annotation_event_targets_overlay(d, pressure) ==
  \/ d.type = "tablet"
  \/ d.type = "pointer" /\ pointer_device_matches_annotation_pointer(d, pressure)
  \/ meta_annotation_input_touchpad_is_pen_digitizer_shim(d)

\* The motions noted: of a tablet, a digitizer, a pointer with a stylus.
Noted(d) ==
  \/ d.type = "tablet"
  \/ d.type = "pointer" /\ d.tool
  \/ meta_annotation_input_touchpad_is_pen_digitizer_shim(d)

meta_annotation_input_skip_master_pointer_update(d, pressure) ==
  \/ meta_annotation_input_touchpad_is_pen_digitizer_shim(d)
  \/ d.type = "pointer" /\ ~d.touchpad /\ sample.valid /\ sample.recent
  \/ d.type = "pointer" /\ pointer_device_matches_annotation_pointer(d, pressure)

\* Mutant: tablets are not frozen, since they have a position of their own.
skip_coalesced_NoTablet(d, pressure) ==
  \/ meta_annotation_input_touchpad_is_pen_digitizer_shim(d)
  \/ d.type = "pointer" /\ ~d.touchpad /\ pressure

\* What skip_pointer_motion_coalesced adds when it asks again.
skip_pointer_motion_coalesced(d, pressure) ==
  \/ meta_annotation_input_touchpad_is_pen_digitizer_shim(d)
  \/ d.type = "tablet"
  \/ d.type = "pointer" /\ ~d.touchpad /\ pressure

-----------------------------------------------------------------------------
(* The main thread                                                         *)

\* set_active.
SetIsolated(active) ==
  /\ main = "idle"
  /\ isolated' = active
  /\ main' = IF active THEN "idle" ELSE "clear"
  /\ session' = IF active /\ ~isolated THEN session + 1 ELSE session
  /\ session' <= MaxSession
  /\ UNCHANGED <<sample, input, queue, down, tool, reached, torn>>

\* Mutant: the sample outlives the session.
ClearSample_Kept ==
  /\ main = "clear"
  /\ main' = "idle"
  /\ UNCHANGED <<isolated, sample, input, queue, down, tool, session, reached, torn>>

ClearSample ==
  /\ main = "clear"
  /\ main' = "idle"
  /\ sample' = [sample EXCEPT !.valid = FALSE]
  /\ input' = [input EXCEPT !.late = TRUE]
  /\ UNCHANGED <<isolated, queue, down, tool, session, reached, torn>>

\* Mutant: button_count is signed.
account_button_Signed(t, e) ==
  IF e.press THEN [pressed |-> t.pressed \cup {e.button}, count |-> t.count + 1]
  ELSE [pressed |-> t.pressed \ {e.button}, count |-> t.count - 1]

\* Mutant: a release is not counted.
account_button_PressOnly(t, e) ==
  IF e.press THEN [pressed |-> t.pressed \cup {e.button}, count |-> (t.count + 1) % CountModulus]
  ELSE [t EXCEPT !.pressed = @ \ {e.button}]

meta_wayland_tablet_tool_account_button(t, e) ==
  IF e.press THEN [pressed |-> t.pressed \cup {e.button}, count |-> (t.count + 1) % CountModulus]
  ELSE [pressed |-> t.pressed \ {e.button}, count |-> (t.count - 1) % CountModulus]

\* A button of a tablet comes to the seat unless the layer takes it.
DispatchButton ==
  /\ main = "idle" /\ queue # <<>>
  /\ LET e == Head(queue) IN
     /\ tool' = IF isolated THEN tool ELSE meta_wayland_tablet_tool_account_button(tool, e)
     /\ reached' = IF e.press THEN reached \cup {<<e.button, isolated>>}
                   ELSE {r \in reached : r[1] # e.button}
     /\ torn' = (torn \/ (~e.press /\ <<e.button, ~isolated>> \in reached))
  /\ queue' = Tail(queue)
  /\ UNCHANGED <<isolated, main, sample, input, down, session>>

-----------------------------------------------------------------------------
(* The input thread                                                        *)

BeginMotion(m) ==
  /\ input.pc = "idle"
  /\ input' = [pc |-> IF Noted(m.device) THEN "note" ELSE "skip", motion |-> m,
               frozen |-> FALSE, sawOff |-> FALSE, session |-> 0, late |-> FALSE]
  /\ UNCHANGED <<isolated, main, sample, queue, down, tool, session, reached, torn>>

\* note_tablet_family_motion reads the flag before it takes the mutex.
NoteRead ==
  /\ input.pc = "note"
  /\ input' = [input EXCEPT !.pc = IF isolated THEN "write" ELSE "skip",
                            !.sawOff = ~isolated, !.session = session, !.late = FALSE]
  /\ UNCHANGED <<isolated, main, sample, queue, down, tool, session, reached, torn>>

NoteWrite ==
  /\ input.pc = "write"
  /\ sample' = [valid |-> TRUE, recent |-> TRUE, session |-> input.session,
                late |-> input.late]
  /\ input' = [input EXCEPT !.pc = "skip"]
  /\ UNCHANGED <<isolated, main, queue, down, tool, session, reached, torn>>

SkipRead ==
  /\ input.pc = "skip"
  /\ input' = [input EXCEPT !.pc = IF isolated THEN "hold" ELSE "again",
                            !.sawOff = @ \/ ~isolated]
  /\ UNCHANGED <<isolated, main, sample, queue, down, tool, session, reached, torn>>

Done(frozen, seesOff) ==
  [input EXCEPT !.pc = "idle", !.motion = NoMotion, !.frozen = frozen,
                !.sawOff = @ \/ seesOff, !.session = 0, !.late = FALSE]

\* The mutex is held while the sample is read.
Hold ==
  /\ input.pc = "hold"
  /\ LET m == input.motion
         skip == meta_annotation_input_skip_master_pointer_update(m.device, m.pressure)
     IN input' = IF skip THEN Done(TRUE, FALSE) ELSE [input EXCEPT !.pc = "again"]
  /\ UNCHANGED <<isolated, main, sample, queue, down, tool, session, reached, torn>>

\* The flag is read once more.
Again ==
  /\ input.pc = "again"
  /\ LET m == input.motion
         skip == isolated /\ skip_pointer_motion_coalesced(m.device, m.pressure)
     IN input' = Done(skip, ~isolated)
  /\ UNCHANGED <<isolated, main, sample, queue, down, tool, session, reached, torn>>

\* 1200 ms pass without a pen.
SampleAges ==
  /\ sample.recent
  /\ sample' = [sample EXCEPT !.recent = FALSE]
  /\ UNCHANGED <<isolated, main, input, queue, down, tool, session, reached, torn>>

PenButton(b) ==
  /\ input.pc = "idle" /\ Len(queue) < MaxQueue
  /\ down' = IF b \in down THEN down \ {b} ELSE down \cup {b}
  /\ queue' = Append(queue, [button |-> b, press |-> b \notin down])
  /\ UNCHANGED <<isolated, main, sample, input, tool, session, reached, torn>>

IsolationInit ==
  /\ isolated = FALSE /\ main = "idle"
  /\ sample = [valid |-> FALSE, recent |-> FALSE, session |-> 0, late |-> FALSE]
  /\ input = [pc |-> "idle", motion |-> NoMotion, frozen |-> FALSE, sawOff |-> FALSE,
              session |-> 0, late |-> FALSE]
  /\ queue = <<>> /\ down = {} /\ tool = [pressed |-> {}, count |-> 0]
  /\ session = 0 /\ reached = {} /\ torn = FALSE

IsolationNext ==
  \/ \E active \in BOOLEAN : SetIsolated(active)
  \/ ClearSample \/ DispatchButton
  \/ \E m \in Motion : BeginMotion(m)
  \/ NoteRead \/ NoteWrite \/ SkipRead \/ Hold \/ Again
  \/ SampleAges
  \/ \E b \in Button : PenButton(b)

IsolationSpec == IsolationInit /\ [][IsolationNext]_isolationVars

-----------------------------------------------------------------------------
(* Properties                                                              *)

\* Types, and the seat never counts more buttons than there are.
IsolationTypeOK ==
  /\ isolated \in BOOLEAN /\ main \in {"idle", "clear"}
  /\ sample \in Sample /\ input \in Input
  /\ queue \in Seq([button : Button, press : BOOLEAN]) /\ Len(queue) <= MaxQueue
  /\ down \subseteq Button
  /\ tool \in [pressed : SUBSET Button, count : 0 .. CountModulus - 1]
  /\ session \in 0 .. MaxSession
  /\ reached \subseteq Button \X BOOLEAN /\ torn \in BOOLEAN

Finished == input.pc # "idle" /\ input'.pc = "idle"
ForOverlay(m) == meta_annotation_event_targets_overlay(m.device, m.pressure)

\* Routing and isolation agree: a motion that is routed to the overlay moves
\* the cursor only if the layer was seen inactive while it was handled.
PenKeepsOffCursor ==
  [][Finished /\ ForOverlay(input.motion) => input'.frozen \/ input'.sawOff]_isolationVars

\* What is not for the overlay is held only after a pen of this very session,
\* unless that pen's note overtook the clearing of the sample (the flag is read
\* before the mutex is taken).
HeldBySession ==
  [][Finished /\ ~ForOverlay(input.motion) /\ input'.frozen
       => sample.session = session \/ sample.late]_isolationVars

\* The seat knows exactly the buttons that are down, as long as no press and its
\* release were met by different states of the layer.
SeatButtonsTrue ==
  ~torn => /\ tool.pressed = {r[1] : r \in {q \in reached : ~q[2]}}
           /\ tool.count = Cardinality(tool.pressed)
=============================================================================
