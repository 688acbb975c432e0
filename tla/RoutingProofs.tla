---------------------------- MODULE RoutingProofs ----------------------------
(***************************************************************************)
(* PenRouting and TouchRouting implement AnnotationLayer: whatever the     *)
(* router loses or swallows, what is left is a behaviour of the ink layer  *)
(* alone, so every invariant proved of the layer holds behind the router   *)
(* too, for the pen and for any number of fingers beside it.               *)
(*                                                                         *)
(* On top of the layer's invariant, one of the router: what the layer has  *)
(* in hand, and the router in flight, is what the pen is doing, as far as  *)
(* no grab took a lift of the pen away.  With fingers, the struct knows    *)
(* one stroke and the router one press for all of them; the invariant says *)
(* which of the contacts each can be charged to.  A stroke and a press at  *)
(* the same time take two contacts, so that the lift that ends the one     *)
(* leaves the other somebody to end it.                                    *)
(***************************************************************************)
EXTENDS TouchRouting, AnnotationBoardProofs

\* A contact that begins: the layer takes a press, or nothing.
LEMMA TipDownStep ==
  ASSUME NEW t \in Target, NEW inside \in BOOLEAN,
         NEW c \in Chrome \cup {NoChrome}, TipDown(t, inside, c)
  PROVE  [Next]_vars
<1>1. CASE UNCHANGED <<layer, managed>>
  BY <1>1 DEF vars
<1>2. CASE Press(t, inside, FALSE)
  <2>1. PenEvent
    BY <1>2, PenAssumption DEF PenEvent
  <2> QED BY <2>1 DEF Next
<1> QED BY <1>1, <1>2 DEF TipDown, Handled

\* Motion: the layer begins a stroke or continues it.
LEMMA MotionStep ==
  ASSUME NEW t \in Target, NEW inside \in BOOLEAN, NEW drift \in BOOLEAN,
         NEW hit \in SUBSET StrokeId, tip \in BOOLEAN,
         Motion(t, inside, hit, drift)
  PROVE  [Next]_vars
<1>1. CASE MotionBegins(t, inside, FALSE)
  <2>1. PenEvent
    BY <1>1, PenAssumption DEF PenEvent
  <2> QED BY <2>1 DEF Next
<1>2. CASE MotionContinues(FALSE, hit, drift, tip)
  <2>1. PenEvent
    BY <1>2, PenAssumption DEF PenEvent
  <2> QED BY <2>1 DEF Next
<1> QED BY <1>1, <1>2 DEF Motion

\* A contact that ends: a release, or nothing.
LEMMA TipUpStep ==
  ASSUME NEW hit \in SUBSET StrokeId, NEW g \in {"none", "triple", "quad"},
         NEW c \in Chrome \cup {NoChrome}, TipUp(hit, g, c)
  PROVE  [Next]_vars
<1>1. CASE UNCHANGED <<layer, managed>>
  BY <1>1 DEF vars
<1>2. CASE Release(FALSE, hit, g)
  <2>1. PenEvent
    BY <1>2, PenAssumption DEF PenEvent
  <2> QED BY <2>1 DEF Next
<1> QED BY <1>1, <1>2 DEF TipUp, Handled, EndDockPress

\* Barrel buttons.
LEMMA BarrelStep ==
  ASSUME NEW b \in Barrel, NEW c \in Chrome \cup {NoChrome},
         BarrelDown(b) \/ BarrelUp(b, c)
  PROVE  [Next]_vars
<1>1. CASE UNCHANGED <<layer, managed>>
  BY <1>1 DEF vars
<1>2. CASE BarrelPress(b) \/ BarrelRelease(b)
  <2>1. PenEvent
    BY <1>2 DEF PenEvent
  <2> QED BY <2>1 DEF Next
<1> QED BY <1>1, <1>2 DEF BarrelDown, BarrelUp, Handled, EndDockPress

\* Every step of the router is a step of the layer or leaves it alone.
LEMMA PenStep ==
  ASSUME tip \in BOOLEAN, [PenNext]_penVars
  PROVE  [Next]_vars
<1>1. CASE \E t \in Target, inside \in BOOLEAN, c \in Chrome \cup {NoChrome} :
             TipDown(t, inside, c)
  BY <1>1, TipDownStep
<1>2. CASE \E t \in Target, inside, drift \in BOOLEAN, hit \in SUBSET StrokeId :
             Motion(t, inside, hit, drift)
  BY <1>2, MotionStep
<1>3. CASE \E hit \in SUBSET StrokeId, g \in {"none", "triple", "quad"},
             c \in Chrome \cup {NoChrome} : TipUp(hit, g, c)
  BY <1>3, TipUpStep
<1>4. CASE (\E b \in Barrel : BarrelDown(b))
           \/ (\E b \in Barrel, c \in Chrome \cup {NoChrome} : BarrelUp(b, c))
  BY <1>4, BarrelStep
<1>5. CASE \E on \in BOOLEAN : Grab(on)
  BY <1>5 DEF Grab, vars
<1>6. CASE ClearChromeRegions
  <2>1. Call
    BY <1>6 DEF ClearChromeRegions, Call
  <2> QED BY <2>1 DEF Next
<1>7. CASE Elsewhere
  BY <1>7 DEF Elsewhere, Next
<1>8. CASE UNCHANGED penVars
  BY <1>8 DEF penVars, vars
<1> QED BY <1>1, <1>2, <1>3, <1>4, <1>5, <1>6, <1>7, <1>8 DEF PenNext, PenDispatch

-----------------------------------------------------------------------------
(* What the pen's events do to the pen that the layer knows                 *)

\* A press leaves the barrel buttons as they are.
LEMMA PressFace ==
  ASSUME BoardInv, NEW t \in Target, NEW inside \in BOOLEAN,
         Press(t, inside, FALSE) \/ MotionBegins(t, inside, FALSE)
  PROVE  layer'.barrel = layer.barrel
<1> DEFINE e == erase_is_active(layer, FALSE)
           b == begin_stroke(layer, t, inside, e)
           p == [b EXCEPT !.pending_tap = TRUE, !.tap_anchor = t]
<1>1. layer \in Layer /\ Safe(layer)
  BY BoardFacts
<1>2. layer' \in {p, cancel_tap_pending(b)}
  BY DEF Press, MotionBegins
<1>3. e \in BOOLEAN /\ ~layer.paused /\ (e \/ layer.next <= MaxStroke)
      /\ t \in managed \cup {Desktop}
  BY DEF erase_is_active, Press, MotionBegins, Receives, Visible, Room,
         pick_anchor_window
<1> HIDE DEF e
<1>4. Face(b) = Face(layer)
  <2>1. Begins(layer, b, t, e)
    BY <1>1, <1>3, BeginSees, ZenonT(60)
  <2> QED BY <2>1 DEF Begins
<1>5. b \in Layer
  BY <1>1, <1>3, BeginSafe, ZenonT(60) DEF Safe, Sound
<1> HIDE DEF b
<1>6. Face(p) = Face(b) /\ Face(cancel_tap_pending(b)) = Face(b)
  BY <1>5, CancelSees DEF Layer, Face
<1> QED BY <1>2, <1>4, <1>6 DEF Face

\* So does a motion, and one without pressure ends the stroke.
LEMMA ContinueFace ==
  ASSUME BoardInv, NEW hit, NEW drift \in BOOLEAN,
         MotionContinues(FALSE, hit, drift, tip)
  PROVE  layer'.barrel = layer.barrel /\ (~tip => ~layer'.stroke_active)
<1> DEFINE d == continue_stroke(layer, erase_is_active(layer, FALSE), hit)
           c == IF drift THEN cancel_tap_pending(d) ELSE d
<1>1. d \in Layer /\ Face(d) = Face(layer)
  BY SegmentFacts DEF MotionContinues, erase_is_active
<1>2. layer' = IF tip THEN c ELSE end_stroke(c)
  BY DEF MotionContinues
<1> HIDE DEF d
<1>3. c \in Layer /\ Face(c) = Face(d)
  BY <1>1, QuietSteps, CancelSees
<1> HIDE DEF c
<1>4. Face(end_stroke(c)) = Face(c) /\ ~end_stroke(c).stroke_active
  BY <1>3, EndSees
<1> QED BY <1>1, <1>2, <1>3, <1>4 DEF Face

\* A release ends the stroke, whatever gesture it completes.
LEMMA ReleaseFace ==
  ASSUME BoardInv, NEW hit, NEW g \in {"none", "triple", "quad"},
         Release(FALSE, hit, g)
  PROVE  layer'.barrel = layer.barrel /\ ~layer'.stroke_active
<1> DEFINE d == IF layer.stroke_active
                  THEN continue_stroke(layer, erase_is_active(layer, FALSE), hit)
                  ELSE layer
           c == cancel_tap_pending(d)
           k == note_tap_release(d, g)
<1>1. d \in Layer /\ Face(d) = Face(layer)
  <2>1. CASE layer.stroke_active
    BY <2>1, SegmentFacts DEF Release, erase_is_active
  <2>2. CASE ~layer.stroke_active
    BY <2>2, BoardFacts
  <2> QED BY <2>1, <2>2
<1>2. layer' = end_stroke(k)
  BY DEF Release
<1> HIDE DEF d
<1>3. c \in Layer /\ Face(c) = Face(d) /\ d.tap_anchor \in Target
  BY <1>1, QuietSteps, CancelSees DEF Layer
<1>4. k = CASE g = "none"   -> c
            [] g = "triple" -> clear_ink_for_anchor(c, d.tap_anchor)
            [] g = "quad"   -> meta_annotation_layer_clear(c)
  BY DEF note_tap_release
<1> HIDE DEF c, k
<1>5. k \in Layer /\ Face(k) = Face(c)
  BY <1>3, <1>4, ClearSees, ClearAnchorSees
<1>6. Face(end_stroke(k)) = Face(k) /\ ~end_stroke(k).stroke_active
  BY <1>5, EndSees
<1> QED BY <1>1, <1>2, <1>3, <1>5, <1>6 DEF Face

-----------------------------------------------------------------------------
(* The router's own variables                                              *)

\* Types of the router and the pen.
RouterType ==
  /\ {chromePress, activated} \subseteq Chrome \cup {NoChrome}
  /\ {grab, tip, slipped, tipLost} \subseteq BOOLEAN
  /\ held \subseteq Barrel /\ barrelLost \subseteq Barrel
  /\ contact \in Chrome \cup {"none", "unseen", "canvas"}

\* A press on the dock in flight is that of the present contact, which draws
\* nothing; and until a release such a contact has one.
DockPressTracked ==
  /\ chromePress # NoChrome /\ ~tipLost =>
       ~layer.stroke_active /\ contact = chromePress
  /\ contact \in Chrome /\ ~slipped => chromePress # NoChrome

\* The inductive invariant: that of the layer, the router's types, and how the
\* pen, the router's press and the layer's stroke go together.
PenInv ==
  BoardInv /\ RouterType /\ StrokeTracksTip /\ EraseTracksBarrel /\ DockPressTracked

\* While the layer takes no event, no stroke is in flight if it is active, and
\* no barrel button is down.
LEMMA DeafFacts ==
  ASSUME BoardInv, ~Receives
  PROVE  layer.barrel = {} /\ (layer.active => ~layer.stroke_active)
<1>1. Tidy(layer) /\ Safe(layer)
  BY BoardFacts
<1> QED BY <1>1 DEF Tidy, Safe, Sound, InFlight, Receives, Visible

\* The router's and the pen's variables keep their types.
LEMMA RouterTypeKept ==
  ASSUME BoardInv, RouterType, [PenNext]_penVars
  PROVE  RouterType'
<1>1. ASSUME NEW t \in Target, NEW inside \in BOOLEAN,
             NEW c \in Chrome \cup {NoChrome}, TipDown(t, inside, c)
      PROVE  RouterType'
  BY <1>1 DEF TipDown, RouterType
<1>2. ASSUME NEW t \in Target, NEW inside \in BOOLEAN, NEW drift \in BOOLEAN,
             NEW hit \in SUBSET StrokeId, Motion(t, inside, hit, drift)
      PROVE  RouterType'
  BY <1>2 DEF Motion, RouterType, pen, history
<1>3. ASSUME NEW hit \in SUBSET StrokeId, NEW g \in {"none", "triple", "quad"},
             NEW c \in Chrome \cup {NoChrome}, TipUp(hit, g, c)
      PROVE  RouterType'
  BY <1>3 DEF TipUp, EndDockPress, RouterType
<1>4. ASSUME NEW b \in Barrel, BarrelDown(b)
      PROVE  RouterType'
  BY <1>4 DEF BarrelDown, RouterType, history
<1>5. ASSUME NEW b \in Barrel, NEW c \in Chrome \cup {NoChrome}, BarrelUp(b, c)
      PROVE  RouterType'
  BY <1>5 DEF BarrelUp, EndDockPress, RouterType
<1>6. ASSUME NEW on \in BOOLEAN, Grab(on)
      PROVE  RouterType'
  BY <1>6 DEF Grab, RouterType, pen, history
<1>7. CASE ClearChromeRegions
  BY <1>7 DEF ClearChromeRegions, RouterType, pen
<1>8. CASE Elsewhere
  BY <1>8 DEF Elsewhere, RouterType, pen, history
<1>9. CASE UNCHANGED penVars
  BY <1>9 DEF penVars, RouterType
<1> QED BY <1>1, <1>2, <1>3, <1>4, <1>5, <1>6, <1>7, <1>8, <1>9 DEF PenNext, PenDispatch

\* A contact that began on the dock moves no ink until a release.
InkStays ==
  contact' = contact /\ contact \in Chrome /\ ~slipped =>
    layer'.next = layer.next /\ layer'.current \in {layer.current, NoStroke}

\* A button fires for the contact that began on it.
FiresInPlace == activated' # NoChrome /\ ~tipLost => contact = activated'

\* What is shown of every step.
RouterStep ==
  /\ StrokeTracksTip' /\ EraseTracksBarrel' /\ DockPressTracked'
  /\ InkStays /\ FiresInPlace

\* A contact that begins.
LEMMA TipDownKeeps ==
  ASSUME PenInv, NEW t \in Target, NEW inside \in BOOLEAN,
         NEW c \in Chrome \cup {NoChrome}, TipDown(t, inside, c)
  PROVE  RouterStep
<1>1. layer'.barrel = layer.barrel
  BY PressFace DEF TipDown, Handled, PenInv
<1>2. /\ StrokeTracksTip' /\ EraseTracksBarrel' /\ FiresInPlace
  BY <1>1 DEF TipDown, PenInv, StrokeTracksTip, EraseTracksBarrel,
              FiresInPlace
<1>3. DockPressTracked'
  <2>1. ~tipLost => ~layer.stroke_active /\ chromePress = NoChrome
    BY DEF TipDown, PenInv, StrokeTracksTip
  <2>2. tipLost' = tipLost /\ tipLost \in BOOLEAN
    BY DEF TipDown, PenInv, RouterType
  <2>3. CASE c # NoChrome /\ chromePress' = c /\ contact' = c /\ layer' = layer
    BY <2>1, <2>2, <2>3 DEF DockPressTracked
  <2>4. CASE chromePress' = chromePress /\ contact' \in {"unseen", "canvas"}
    <3>1. contact' \notin Chrome
      BY <2>4, PenAssumption
    <3> QED BY <2>1, <2>2, <2>4, <3>1 DEF DockPressTracked
  <2> QED BY <2>3, <2>4 DEF TipDown
<1>4. InkStays
  <2>1. CASE UNCHANGED layer
    BY <2>1 DEF InkStays
  <2>2. CASE contact' = "canvas"
    BY <2>2, PenAssumption DEF InkStays
  <2> QED BY <2>1, <2>2 DEF TipDown
<1> QED BY <1>2, <1>3, <1>4 DEF RouterStep

\* Motion, unless a press on the dock is in flight.
LEMMA MotionKeeps ==
  ASSUME PenInv, NEW t \in Target, NEW inside \in BOOLEAN, NEW drift \in BOOLEAN,
         NEW hit \in SUBSET StrokeId, Motion(t, inside, hit, drift)
  PROVE  RouterStep
<1>1. layer'.barrel = layer.barrel /\ (~tip => ~layer'.stroke_active)
  BY PressFace, ContinueFace DEF Motion, PenInv
<1>2. /\ chromePress = NoChrome /\ chromePress' = chromePress
      /\ activated' = NoChrome /\ grab' = grab /\ tip' = tip /\ held' = held
      /\ contact' = contact /\ slipped' = slipped /\ tipLost' = tipLost
      /\ barrelLost' = barrelLost
  BY DEF Motion, Swallows, pen, history
<1> QED BY <1>1, <1>2 DEF PenInv, RouterStep, StrokeTracksTip,
           EraseTracksBarrel, DockPressTracked, InkStays, FiresInPlace

\* A contact that ends.
LEMMA TipUpKeeps ==
  ASSUME PenInv, NEW hit \in SUBSET StrokeId, NEW g \in {"none", "triple", "quad"},
         NEW c \in Chrome \cup {NoChrome}, TipUp(hit, g, c)
  PROVE  RouterStep
<1>1. /\ tip' = FALSE /\ grab' = grab /\ held' = held /\ slipped' = FALSE
      /\ barrelLost' = barrelLost /\ contact' = "none"
      /\ contact' \notin Chrome
  BY PenAssumption DEF TipUp
<1>2. CASE /\ tipLost' = TRUE /\ activated' = NoChrome
           /\ UNCHANGED <<layer, managed, chromePress>>
  BY <1>1, <1>2 DEF PenInv, RouterStep, StrokeTracksTip,
     EraseTracksBarrel, DockPressTracked, InkStays, FiresInPlace
<1>3. CASE Swallows /\ EndDockPress(c) /\ UNCHANGED tipLost
  BY <1>1, <1>3 DEF EndDockPress, Swallows, PenInv, RouterStep,
     StrokeTracksTip, EraseTracksBarrel, DockPressTracked, InkStays, FiresInPlace
<1>4. CASE /\ Routed /\ ~Swallows /\ Handled(Release(FALSE, hit, g))
           /\ tipLost' = FALSE /\ activated' = NoChrome /\ UNCHANGED chromePress
  <2>1. layer'.barrel = layer.barrel /\ ~layer'.stroke_active
    BY <1>4, ReleaseFace, DeafFacts DEF Handled, Routed, PenInv
  <2>2. chromePress' = NoChrome
    BY <1>4 DEF Swallows
  <2>3. ~InkStays => contact' = contact /\ contact \in Chrome
    BY DEF InkStays
  <2> QED BY <1>1, <1>4, <2>1, <2>2, <2>3 DEF PenInv, RouterStep,
     StrokeTracksTip, EraseTracksBarrel, DockPressTracked, FiresInPlace
<1> QED BY <1>2, <1>3, <1>4 DEF TipUp

\* A barrel button that goes down.
LEMMA BarrelDownKeeps ==
  ASSUME PenInv, NEW b \in Barrel, BarrelDown(b)
  PROVE  RouterStep
<1>1. /\ layer'.barrel \subseteq layer.barrel \cup {b}
      /\ layer'.stroke_active = layer.stroke_active
      /\ layer'.next = layer.next /\ layer'.current = layer.current
  <2>1. layer \in Layer
    BY BoardFacts DEF PenInv
  <2> QED BY <2>1 DEF BarrelDown, Handled, BarrelPress, Layer
<1>2. /\ chromePress' = chromePress /\ activated' = NoChrome /\ grab' = grab
      /\ tip' = tip /\ held' = held \cup {b} /\ contact' = contact
      /\ slipped' = slipped /\ tipLost' = tipLost /\ barrelLost' = barrelLost
  BY DEF BarrelDown, history
<1> QED BY <1>1, <1>2 DEF PenInv, RouterStep, StrokeTracksTip,
           EraseTracksBarrel, DockPressTracked, InkStays, FiresInPlace

\* A barrel button that goes up: the router may keep its release.
LEMMA BarrelUpKeeps ==
  ASSUME PenInv, NEW b \in Barrel, NEW c \in Chrome \cup {NoChrome}, BarrelUp(b, c)
  PROVE  RouterStep
<1>1. /\ held' = held \ {b} /\ grab' = grab /\ tip' = tip
      /\ contact' = contact /\ tipLost' = tipLost
  BY DEF BarrelUp
<1>2. CASE /\ ~Routed /\ barrelLost' = barrelLost \cup {b} /\ activated' = NoChrome
           /\ UNCHANGED <<layer, managed, chromePress, slipped>>
  BY <1>1, <1>2 DEF PenInv, RouterStep, StrokeTracksTip,
     EraseTracksBarrel, DockPressTracked, InkStays, FiresInPlace
<1>3. CASE /\ Swallows /\ EndDockPress(c) /\ barrelLost' = barrelLost \cup {b}
           /\ slipped' = TRUE
  BY <1>1, <1>3 DEF EndDockPress, Swallows, PenInv, RouterStep,
     StrokeTracksTip, EraseTracksBarrel, DockPressTracked, InkStays, FiresInPlace
<1>4. CASE /\ Handled(BarrelRelease(b)) /\ barrelLost' = barrelLost \ {b}
           /\ activated' = NoChrome /\ UNCHANGED <<chromePress, slipped>>
  <2>1. /\ layer'.barrel \subseteq layer.barrel \ {b}
        /\ layer'.stroke_active = layer.stroke_active
        /\ layer'.next = layer.next /\ layer'.current = layer.current
    <3>1. layer \in Layer
      BY BoardFacts DEF PenInv
    <3>2. CASE BarrelRelease(b)
      BY <3>1, <3>2 DEF BarrelRelease, Layer
    <3>3. CASE ~Receives /\ layer' = layer
      BY <3>3, DeafFacts DEF PenInv
    <3> QED BY <1>4, <3>2, <3>3 DEF Handled
  <2> QED BY <1>1, <1>4, <2>1 DEF PenInv, RouterStep, StrokeTracksTip,
     EraseTracksBarrel, DockPressTracked, InkStays, FiresInPlace
<1> QED BY <1>2, <1>3, <1>4 DEF BarrelUp

\* Calls, signals and the idle can only take from the pen.
LEMMA ElsewhereKeeps ==
  ASSUME PenInv, Elsewhere
  PROVE  RouterStep
<1>1. Lifts(layer, layer')
  BY CallBoard, SignalBoard, IdleBoard DEF Elsewhere, PenInv
<1>2. /\ chromePress' = chromePress /\ activated' = NoChrome /\ grab' = grab
      /\ tip' = tip /\ held' = held /\ contact' = contact
      /\ slipped' = slipped /\ tipLost' = tipLost /\ barrelLost' = barrelLost
  BY DEF Elsewhere, pen, history
<1> QED BY <1>1, <1>2 DEF Lifts, PenInv, RouterStep, StrokeTracksTip,
           EraseTracksBarrel, DockPressTracked, InkStays, FiresInPlace

\* The dock goes away with the press on it.
LEMMA ClearChromeKeeps ==
  ASSUME PenInv, ClearChromeRegions
  PROVE  RouterStep
<1>1. Lifts(layer, layer')
  <2>1. Call
    BY DEF ClearChromeRegions, Call
  <2> QED BY <2>1, CallBoard DEF PenInv
<1>2. /\ chromePress' = NoChrome /\ activated' = NoChrome /\ grab' = grab
      /\ tip' = tip /\ held' = held
      /\ slipped' = slipped /\ tipLost' = tipLost /\ barrelLost' = barrelLost
  BY DEF ClearChromeRegions, pen
<1>3. contact' \in {contact, "canvas"} /\ contact' \notin Chrome
  BY PenAssumption DEF ClearChromeRegions
<1> QED BY <1>1, <1>2, <1>3 DEF Lifts, PenInv, RouterStep,
           StrokeTracksTip, EraseTracksBarrel, DockPressTracked, InkStays, FiresInPlace

\* A grab, and a step that leaves all as it is.
LEMMA GrabKeeps ==
  ASSUME PenInv, NEW on \in BOOLEAN, Grab(on)
  PROVE  RouterStep
  BY DEF Grab, pen, history, PenInv, RouterStep, StrokeTracksTip,
         EraseTracksBarrel, DockPressTracked, InkStays, FiresInPlace

\* Every step keeps the invariant, and does no more than RouterStep says.
LEMMA PenNextInv ==
  PenInv /\ [PenNext]_penVars => PenInv' /\ (RouterStep \/ UNCHANGED penVars)
<1> SUFFICES ASSUME PenInv, [PenNext]_penVars
             PROVE  PenInv' /\ (RouterStep \/ UNCHANGED penVars)
  OBVIOUS
<1>1. BoardInv'
  BY PenStep, NextBoard DEF PenInv, RouterType
<1>2. RouterType'
  BY RouterTypeKept DEF PenInv
<1>3. CASE UNCHANGED penVars
  BY <1>1, <1>2, <1>3 DEF penVars, PenInv, StrokeTracksTip,
     EraseTracksBarrel, DockPressTracked
<1>4. CASE PenNext
  <2>1. RouterStep
    <3>1. CASE PenDispatch
      BY <3>1, TipDownKeeps, MotionKeeps, TipUpKeeps, BarrelDownKeeps, BarrelUpKeeps,
         GrabKeeps, ElsewhereKeeps DEF PenDispatch
    <3> QED BY <1>4, <3>1, ClearChromeKeeps DEF PenNext
  <2> QED BY <1>1, <1>2, <2>1 DEF PenInv, RouterStep
<1> QED BY <1>3, <1>4

\* Nothing is in flight at the start.
LEMMA PenInitInv == PenInit => PenInv
<1> SUFFICES ASSUME PenInit PROVE PenInv
  OBVIOUS
<1>1. BoardInv /\ ~layer.stroke_active /\ layer.barrel = {}
  BY InitBoard DEF PenInit, Lifts, NewLayer
<1> QED BY <1>1, PenAssumption DEF PenInit, PenInv, RouterType, StrokeTracksTip,
           EraseTracksBarrel, DockPressTracked

-----------------------------------------------------------------------------
(* Theorems: the pen                                                       *)

\* The invariant of the router, the pen and the layer behind it.
THEOREM PenInvariance == PenSpec => []PenInv
<1> QED BY PenInitInv, PenNextInv, PTL DEF PenSpec

\* Behind the router the layer behaves as AnnotationLayer says: the router
\* only takes events away, it makes none.
THEOREM PenImplementsLayer == PenSpec => Init /\ [][Next]_vars
<1>1. PenInit => Init
  BY DEF PenInit
<1>2. PenInv /\ [PenNext]_penVars => [Next]_vars
  BY PenStep DEF PenInv, RouterType
<1> QED BY <1>1, <1>2, PenInvariance, PTL DEF PenSpec

\* Types of the layer, the router and the pen.
THEOREM PenTypeCorrect == PenSpec => []PenTypeOK
<1>1. PenInv => PenTypeOK
  BY BoardFacts DEF PenInv, RouterType, PenTypeOK, TypeOK
<1> QED BY <1>1, PenInvariance, PTL

\* "No ink until button down": a pen that is up has no stroke in flight and no
\* press on the dock, however its events were lost, swallowed or paused over,
\* unless a grab or a deactivation kept the lift of its tip.
THEOREM PenUpDrawsNothing == PenSpec => []StrokeTracksTip
<1>1. PenInv => StrokeTracksTip
  BY DEF PenInv
<1> QED BY <1>1, PenInvariance, PTL

\* The layer erases only for a barrel button that is down, or whose release a
\* grab or a press on the dock kept from it.
THEOREM PenErasesByButton == PenSpec => []EraseTracksBarrel
<1>1. PenInv => EraseTracksBarrel
  BY DEF PenInv
<1> QED BY <1>1, PenInvariance, PTL

\* A contact that began on the dock adds no ink and extends none.
THEOREM DockContactDrawsNothing == PenSpec => DockContactNoInk
<1>1. RouterStep =>
        [contact' = contact /\ contact \in Chrome /\ ~slipped
           => /\ layer'.next = layer.next
              /\ layer'.current \in {layer.current, NoStroke}]_penVars
  BY DEF RouterStep, InkStays
<1> QED BY <1>1, PenInvariance, PenNextInv, PTL DEF PenSpec, DockContactNoInk

\* A dock button fires only for the contact that began on it.
THEOREM DockFiresInPlace == PenSpec => ActivatedWhereItBegan
<1>1. RouterStep =>
        [activated' # NoChrome /\ ~tipLost => contact = activated']_penVars
  BY DEF RouterStep, FiresInPlace
<1> QED BY <1>1, PenInvariance, PenNextInv, PTL DEF PenSpec, ActivatedWhereItBegan

-----------------------------------------------------------------------------
(* Fingers beside the pen                                                  *)

\* Some finger touches.
FingerDown == \E f \in Finger : fingers[f] # "none"

\* Two contacts at least.
TwoContacts ==
  \/ tip /\ FingerDown
  \/ \E f, g \in Finger : f # g /\ fingers[f] # "none" /\ fingers[g] # "none"

FingersType ==
  fingers \in [Finger -> Chrome \cup {"none", "unseen", "canvas"}]

\* The stroke and the press have a contact, and each its own.
Contacts ==
  /\ InkHasContact /\ DockPressHasContact
  /\ layer.stroke_active /\ chromePress # NoChrome => tipLost \/ TwoContacts

TouchInv == BoardInv /\ RouterType /\ FingersType /\ Contacts

-----------------------------------------------------------------------------
(* Every step is a step of the layer, or none                              *)

\* The events of fingers are those of the pen to the layer.
LEMMA FingerStep ==
  ASSUME NEW f \in Finger,
         \/ \E t \in Target, inside \in BOOLEAN, c \in Chrome \cup {NoChrome} :
              TouchBegin(f, t, inside, c)
         \/ \E hit \in SUBSET StrokeId, drift \in BOOLEAN : TouchUpdate(f, hit, drift)
         \/ \E hit \in SUBSET StrokeId, g \in {"none", "triple", "quad"},
               c \in Chrome \cup {NoChrome} : TouchEnd(f, hit, g, c)
         \/ TouchCancelled(f)
  PROVE  [Next]_vars
<1>1. ASSUME NEW t \in Target, NEW inside \in BOOLEAN,
             NEW c \in Chrome \cup {NoChrome}, TouchBegin(f, t, inside, c)
      PROVE  [Next]_vars
  <2>1. CASE UNCHANGED <<layer, managed>>
    BY <2>1 DEF vars
  <2>2. CASE Press(t, inside, FALSE)
    <3>1. PenEvent
      BY <2>2, PenAssumption DEF PenEvent
    <3> QED BY <3>1 DEF Next
  <2> QED BY <1>1, <2>1, <2>2 DEF TouchBegin, Handled
<1>2. ASSUME NEW hit \in SUBSET StrokeId, NEW drift \in BOOLEAN,
             TouchUpdate(f, hit, drift)
      PROVE  [Next]_vars
  <2>1. PenEvent
    BY <1>2, PenAssumption DEF TouchUpdate, PenEvent
  <2> QED BY <2>1 DEF Next
<1>3. ASSUME NEW hit \in SUBSET StrokeId, NEW g \in {"none", "triple", "quad"},
             NEW c \in Chrome \cup {NoChrome}, TouchEnd(f, hit, g, c)
      PROVE  [Next]_vars
  <2>1. CASE UNCHANGED <<layer, managed>>
    BY <2>1 DEF vars
  <2>2. CASE Release(FALSE, hit, g)
    <3>1. PenEvent
      BY <2>2, PenAssumption DEF PenEvent
    <3> QED BY <3>1 DEF Next
  <2> QED BY <1>3, <2>1, <2>2 DEF TouchEnd, Lift, Handled, EndDockPress
<1>4. CASE TouchCancelled(f)
  <2>1. CASE UNCHANGED <<layer, managed>>
    BY <2>1 DEF vars
  <2>2. CASE TouchCancel
    BY <2>2 DEF PenEvent, Next
  <2> QED BY <1>4, <2>1, <2>2 DEF TouchCancelled, Lift, Handled, EndDockPress
<1> QED BY <1>1, <1>2, <1>3, <1>4

\* So are those of the pen and of the dock.
LEMMA TouchStep ==
  ASSUME tip \in BOOLEAN, [TouchNext]_touchVars
  PROVE  [Next]_vars
<1>1. CASE PenDispatch \/ DockGone
  <2>1. PenNext
    BY <1>1 DEF DockGone, PenNext
  <2> QED BY <2>1, PenStep
<1>2. CASE UNCHANGED touchVars
  BY <1>2 DEF touchVars, penVars, vars
<1> QED BY <1>1, <1>2, FingerStep DEF TouchNext

-----------------------------------------------------------------------------
(* What the layer has in hand after an event                               *)

\* A lift that the router hands on leaves no stroke, heard or not.
LEMMA LiftEnds ==
  ASSUME BoardInv, Routed, NEW hit, NEW g \in {"none", "triple", "quad"},
         Handled(Release(FALSE, hit, g)) \/ Handled(TouchCancel)
  PROVE  ~layer'.stroke_active
<1>1. CASE Release(FALSE, hit, g)
  BY <1>1, ReleaseFace
<1>2. CASE TouchCancel
  <2>1. layer \in Layer /\ cancel_tap_pending(layer) \in Layer
    BY BoardFacts, QuietSteps
  <2> QED BY <1>2, <2>1, EndSees DEF TouchCancel
<1>3. CASE ~Receives /\ layer' = layer
  BY <1>3, DeafFacts DEF Routed
<1> QED BY <1>1, <1>2, <1>3 DEF Handled

\* Barrel buttons leave the stroke in flight.
LEMMA BarrelLeaves ==
  ASSUME BoardInv, NEW b,
         Handled(BarrelPress(b)) \/ Handled(BarrelRelease(b)) \/ UNCHANGED layer
  PROVE  layer'.stroke_active = layer.stroke_active
<1>1. layer \in Layer
  BY BoardFacts
<1> QED BY <1>1 DEF Handled, BarrelPress, BarrelRelease, Layer

-----------------------------------------------------------------------------
(* Every step keeps the invariant                                          *)

\* The router's and the pen's types, and the fingers'.
LEMMA TouchTypeKept ==
  ASSUME TouchInv, [TouchNext]_touchVars
  PROVE  RouterType' /\ FingersType'
<1>1. BoardInv /\ RouterType /\ FingersType
  BY DEF TouchInv
<1>2. CASE PenDispatch /\ UNCHANGED fingers
  BY <1>1, <1>2, RouterTypeKept DEF PenNext, FingersType
<1>3. CASE DockGone
  BY <1>1, <1>3, RouterTypeKept DEF DockGone, PenNext, FingersType
<1>4. ASSUME NEW f \in Finger, NEW t \in Target, NEW inside \in BOOLEAN,
             NEW c \in Chrome \cup {NoChrome}, TouchBegin(f, t, inside, c)
      PROVE  RouterType' /\ FingersType'
  BY <1>1, <1>4 DEF TouchBegin, RouterType, FingersType, penBegan
<1>5. ASSUME NEW f \in Finger, NEW hit, NEW drift, TouchUpdate(f, hit, drift)
      PROVE  RouterType' /\ FingersType'
  BY <1>1, <1>5 DEF TouchUpdate, RouterType, FingersType, penBegan
<1>6. ASSUME NEW f \in Finger, NEW hit, NEW g, NEW c \in Chrome \cup {NoChrome},
             TouchEnd(f, hit, g, c)
      PROVE  RouterType' /\ FingersType'
  BY <1>1, <1>6 DEF TouchEnd, Lift, EndDockPress, RouterType, FingersType, penBegan
<1>7. ASSUME NEW f \in Finger, TouchCancelled(f)
      PROVE  RouterType' /\ FingersType'
  BY <1>1, <1>7 DEF TouchCancelled, Lift, EndDockPress, RouterType, FingersType,
                    penBegan
<1>8. CASE UNCHANGED touchVars
  BY <1>1, <1>8 DEF touchVars, penVars, RouterType, FingersType
<1> QED BY <1>2, <1>3, <1>4, <1>5, <1>6, <1>7, <1>8 DEF TouchNext

\* A step that starts no stroke, no press and no contact, and ends none but
\* for a stroke or a press.
LEMMA ContactsLess ==
  ASSUME Contacts, tipLost' = tipLost, tip' = tip, UNCHANGED fingers,
         layer'.stroke_active => layer.stroke_active,
         (chromePress' = chromePress /\ contact' = contact) \/ chromePress' = NoChrome
  PROVE  Contacts'
  BY DEF Contacts, InkHasContact, DockPressHasContact, Touching, TwoContacts, FingerDown

\* The pen.
LEMMA PenKeepsContacts ==
  ASSUME TouchInv, PenDispatch, UNCHANGED fingers
  PROVE  Contacts'
<1>1. BoardInv /\ RouterType /\ Contacts
  BY DEF TouchInv
<1>2. ASSUME NEW t \in Target, NEW inside \in BOOLEAN,
             NEW c \in Chrome \cup {NoChrome}, TipDown(t, inside, c)
      PROVE  Contacts'
  <2>1. ~tip /\ tip' = TRUE /\ tipLost' = tipLost
    BY <1>2 DEF TipDown
  <2>2. layer.stroke_active \/ chromePress # NoChrome => tipLost \/ FingerDown
    <3>1. chromePress # "none"
      BY <1>1, PenAssumption DEF RouterType
    <3> QED BY <1>1, <2>1, <3>1 DEF Contacts, InkHasContact, DockPressHasContact,
                                    Touching, FingerDown
  <2>3. FingerDown => FingerDown' /\ TwoContacts'
    BY <2>1 DEF FingerDown, TwoContacts
  <2>4. CASE c # NoChrome /\ chromePress' = c /\ contact' = c /\ layer' = layer
    BY <2>1, <2>2, <2>3, <2>4
       DEF Contacts, InkHasContact, DockPressHasContact, Touching
  <2>5. CASE chromePress' = chromePress /\ chromePress # NoChrome /\ layer' = layer
    BY <1>1, <2>1, <2>2, <2>3, <2>5
       DEF Contacts, InkHasContact, DockPressHasContact, Touching
  <2>6. CASE chromePress' = chromePress /\ chromePress = NoChrome
    BY <2>1, <2>6 DEF Contacts, InkHasContact, DockPressHasContact, Touching
  <2> QED BY <1>2, <2>4, <2>5, <2>6 DEF TipDown, Swallows
<1>3. ASSUME NEW t \in Target, NEW inside \in BOOLEAN, NEW drift \in BOOLEAN,
             NEW hit \in SUBSET StrokeId, Motion(t, inside, hit, drift)
      PROVE  Contacts'
  <2>1. ~tip => ~layer'.stroke_active
    BY <1>1, <1>3, ContinueFace DEF Motion
  <2>2. /\ chromePress = NoChrome /\ chromePress' = chromePress /\ tip' = tip
        /\ tipLost' = tipLost
    BY <1>3 DEF Motion, Swallows, pen, history
  <2> QED BY <2>1, <2>2 DEF Contacts, InkHasContact, DockPressHasContact, Touching
<1>4. ASSUME NEW hit \in SUBSET StrokeId, NEW g \in {"none", "triple", "quad"},
             NEW c \in Chrome \cup {NoChrome}, TipUp(hit, g, c)
      PROVE  Contacts'
  <2>1. CASE tipLost' = TRUE
    BY <2>1 DEF Contacts, InkHasContact, DockPressHasContact
  <2>2. CASE Swallows /\ EndDockPress(c) /\ UNCHANGED tipLost
    <3>1. chromePress' = NoChrome /\ layer' = layer
          /\ (layer.stroke_active => tipLost \/ FingerDown)
      BY <1>1, <2>2 DEF EndDockPress, Swallows, Contacts, TwoContacts, FingerDown
    <3> QED BY <2>2, <3>1 DEF Contacts, InkHasContact, DockPressHasContact,
                              Touching, FingerDown
  <2>3. CASE Routed /\ ~Swallows /\ Handled(Release(FALSE, hit, g))
             /\ UNCHANGED chromePress
    <3>1. ~layer'.stroke_active /\ chromePress' = NoChrome
      BY <1>1, <2>3, LiftEnds DEF Swallows
    <3> QED BY <3>1 DEF Contacts, InkHasContact, DockPressHasContact
  <2> QED BY <1>4, <2>1, <2>2, <2>3 DEF TipUp
<1>5. ASSUME NEW b \in Barrel, BarrelDown(b)
      PROVE  Contacts'
  <2>1. layer'.stroke_active = layer.stroke_active
    BY <1>1, <1>5, BarrelLeaves DEF BarrelDown
  <2> QED BY <1>1, <1>5, <2>1, ContactsLess DEF BarrelDown, history
<1>6. ASSUME NEW b \in Barrel, NEW c \in Chrome \cup {NoChrome}, BarrelUp(b, c)
      PROVE  Contacts'
  <2>1. layer'.stroke_active = layer.stroke_active
    BY <1>1, <1>6, BarrelLeaves DEF BarrelUp, EndDockPress
  <2>2. /\ tip' = tip /\ contact' = contact /\ tipLost' = tipLost
        /\ chromePress' \in {chromePress, NoChrome}
    BY <1>6 DEF BarrelUp, EndDockPress
  <2> QED BY <1>1, <2>1, <2>2, ContactsLess
<1>7. ASSUME NEW on \in BOOLEAN, Grab(on)
      PROVE  Contacts'
  BY <1>1, <1>7, ContactsLess DEF Grab, pen, history
<1>8. CASE Elsewhere
  <2>1. Lifts(layer, layer')
    BY <1>1, <1>8, CallBoard, SignalBoard, IdleBoard DEF Elsewhere
  <2> QED BY <1>1, <1>8, <2>1, ContactsLess DEF Elsewhere, Lifts, pen, history
<1> QED BY <1>2, <1>3, <1>4, <1>5, <1>6, <1>7, <1>8 DEF PenDispatch

\* A finger that is put down: the second contact, if there is a stroke or a
\* press already.
LEMMA BeginKeepsContacts ==
  ASSUME TouchInv, NEW f \in Finger, NEW t \in Target, NEW inside \in BOOLEAN,
         NEW c \in Chrome \cup {NoChrome}, TouchBegin(f, t, inside, c)
  PROVE  Contacts'
<1>1. FingersType /\ Contacts
  BY DEF TouchInv
<1>2. /\ tip' = tip /\ contact' = contact /\ tipLost' = tipLost
      /\ fingers[f] = "none"
      /\ \A g \in Finger : g # f => fingers'[g] = fingers[g]
      /\ "none" \notin Chrome
  BY <1>1, PenAssumption DEF TouchBegin, FingersType, penBegan
<1>3. fingers'[f] # "none" /\ FingerDown' /\ Touching'
  BY <1>1, <1>2 DEF TouchBegin, FingersType, FingerDown, Touching
<1>4. Touching => TwoContacts'
  BY <1>2, <1>3 DEF Touching, TwoContacts, FingerDown
<1>5. CASE c # NoChrome /\ chromePress' = c /\ fingers'[f] = c /\ layer' = layer
  BY <1>1, <1>2, <1>3, <1>4, <1>5
     DEF Contacts, InkHasContact, DockPressHasContact
<1>6. CASE chromePress' = chromePress /\ chromePress # NoChrome /\ layer' = layer
  <2>1. DockPressHasContact'
    <3>1. ASSUME NEW g \in Finger, fingers[g] = chromePress
          PROVE  tipLost \/ fingers'[g] = chromePress
      <4>1. CASE g = f
        BY <1>1, <1>2, <3>1, <4>1, <1>6, PenAssumption DEF TouchInv, RouterType
      <4> QED BY <1>2, <3>1, <4>1
    <3> QED BY <1>1, <1>2, <1>6, <3>1 DEF Contacts, DockPressHasContact
  <2>2. layer.stroke_active => tipLost \/ TwoContacts'
    BY <1>1, <1>4 DEF Contacts, InkHasContact
  <2> QED BY <1>2, <1>3, <1>6, <2>1, <2>2 DEF Contacts, InkHasContact
<1>7. CASE chromePress' = chromePress /\ chromePress = NoChrome
  BY <1>3, <1>7 DEF Contacts, InkHasContact, DockPressHasContact
<1> QED BY <1>1, <1>5, <1>6, <1>7 DEF TouchBegin, Swallows, FingersType

\* A finger that is lifted.
LEMMA LiftKeepsContacts ==
  ASSUME TouchInv, NEW f \in Finger, NEW hit, NEW g \in {"none", "triple", "quad"},
         NEW c, TouchEnd(f, hit, g, c) \/ TouchCancelled(f)
  PROVE  Contacts'
<1>1. BoardInv /\ FingersType /\ Contacts
  BY DEF TouchInv
<1>2. /\ tip' = tip /\ contact' = contact /\ fingers[f] # "none"
      /\ \A h \in Finger : h # f => fingers'[h] = fingers[h]
  BY <1>1 DEF TouchEnd, TouchCancelled, Lift, FingersType, penBegan
<1>3. CASE tipLost' = TRUE
  BY <1>3 DEF Contacts, InkHasContact, DockPressHasContact
<1>4. CASE Swallows /\ chromePress' = NoChrome /\ UNCHANGED <<layer, tipLost>>
  <2>1. TwoContacts => Touching'
    BY <1>2 DEF TwoContacts, FingerDown, Touching
  <2> QED BY <1>1, <1>4, <2>1 DEF Swallows, Contacts, InkHasContact,
                                  DockPressHasContact
<1>5. CASE /\ Routed /\ ~Swallows /\ UNCHANGED chromePress
           /\ Handled(Release(FALSE, hit, g)) \/ Handled(TouchCancel)
  <2>1. ~layer'.stroke_active /\ chromePress' = NoChrome
    BY <1>1, <1>5, LiftEnds DEF Swallows
  <2> QED BY <2>1 DEF Contacts, InkHasContact, DockPressHasContact
<1> QED BY <1>3, <1>4, <1>5 DEF TouchEnd, TouchCancelled, Lift, EndDockPress

\* The dock goes away; the contacts on it stay.
LEMMA DockGoneKeepsContacts ==
  ASSUME TouchInv, DockGone
  PROVE  Contacts'
<1>1. BoardInv /\ FingersType /\ Contacts
  BY DEF TouchInv
<1>2. Lifts(layer, layer')
  <2>1. Call
    BY DEF DockGone, ClearChromeRegions, Call
  <2> QED BY <1>1, <2>1, CallBoard
<1>3. /\ chromePress' = NoChrome /\ tip' = tip /\ tipLost' = tipLost
      /\ \A f \in Finger : fingers[f] # "none" => fingers'[f] # "none"
  BY <1>1 DEF DockGone, ClearChromeRegions, pen, FingersType
<1> QED BY <1>1, <1>2, <1>3 DEF Lifts, Contacts, InkHasContact, DockPressHasContact,
                                Touching

\* The inductive step.
LEMMA TouchNextInv == TouchInv /\ [TouchNext]_touchVars => TouchInv'
<1> SUFFICES ASSUME TouchInv, [TouchNext]_touchVars PROVE TouchInv'
  OBVIOUS
<1>1. BoardInv'
  BY TouchStep, NextBoard DEF TouchInv, RouterType
<1>2. Contacts'
  <2>1. ASSUME NEW f \in Finger, NEW hit, NEW drift, TouchUpdate(f, hit, drift)
        PROVE  Contacts'
    BY <2>1 DEF TouchUpdate, Swallows, penBegan, Contacts, InkHasContact,
                DockPressHasContact, Touching
  <2>2. CASE UNCHANGED touchVars
    BY <2>2, ContactsLess DEF touchVars, penVars, TouchInv
  <2> QED BY <2>1, <2>2, PenKeepsContacts, BeginKeepsContacts, LiftKeepsContacts,
             DockGoneKeepsContacts DEF TouchNext
<1> QED BY <1>1, <1>2, TouchTypeKept DEF TouchInv

\* Nothing touches at the start.
LEMMA TouchInitInv == TouchInit => TouchInv
<1> SUFFICES ASSUME TouchInit PROVE TouchInv
  OBVIOUS
<1>1. PenInv /\ ~layer.stroke_active
  BY PenInitInv DEF TouchInit, PenInit, PenInv, StrokeTracksTip
<1>2. FingersType
  BY DEF TouchInit, FingersType
<1> QED BY <1>1, <1>2 DEF TouchInit, PenInit, PenInv, TouchInv, Contacts,
           InkHasContact, DockPressHasContact

-----------------------------------------------------------------------------
(* Theorems: fingers                                                       *)

\* The inductive invariant of the pen, the fingers, the router and the layer.
THEOREM TouchInvariance == TouchSpec => []TouchInv
<1> QED BY TouchInitInv, TouchNextInv, PTL DEF TouchSpec

\* Behind the router the fingers and the pen are one source of events to the
\* layer, and what is proved of the layer holds.
THEOREM TouchImplementsLayer == TouchSpec => Init /\ [][Next]_vars
<1>1. TouchInit => Init
  BY DEF TouchInit, PenInit
<1>2. TouchInv /\ [TouchNext]_touchVars => [Next]_vars
  BY TouchStep DEF TouchInv, RouterType
<1> QED BY <1>1, <1>2, TouchInvariance, PTL DEF TouchSpec

\* Once nothing touches the screen no stroke is in flight, for any number of
\* fingers and however their lifts interleave with presses on the dock, unless
\* a grab took a lift away (tipLost).
THEOREM NoContactNoInk == TouchSpec => []InkHasContact
<1>1. TouchInv => InkHasContact
  BY DEF TouchInv, Contacts
<1> QED BY <1>1, TouchInvariance, PTL

\* The router holds a press on the dock only for a contact that began on that
\* button and is still down, unless a grab took a lift away (tipLost).
THEOREM DockPressIsHeld == TouchSpec => []DockPressHasContact
<1>1. TouchInv => DockPressHasContact
  BY DEF TouchInv, Contacts
<1> QED BY <1>1, TouchInvariance, PTL
=============================================================================
