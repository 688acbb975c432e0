----------------------------- MODULE PenRouting -----------------------------
(***************************************************************************)
(* How a pen's events reach the ink layer: meta_compositor_route_annotation_*)
(* event of src/mutter/src/compositor/compositor.c, called from            *)
(* meta_display_handle_event of core/events.c, in front of                 *)
(* meta_annotation_layer_handle_event.  AnnotationLayer lets any event     *)
(* happen at any time; here the events are those of one pen, whose tip and *)
(* barrel buttons go down and up in turn, and they are lost or swallowed   *)
(* on the way as the code loses and swallows them.                         *)
(*                                                                         *)
(* An event is lost while the stage is grabbed (a menu, a dialog, the      *)
(* overview) or the layer is inactive, and swallowed while a press on the  *)
(* dock is in flight.  Steps in which an event is lost and changes nothing *)
(* of the pen either (a hover) are left out: they stutter.                 *)
(***************************************************************************)
EXTENDS AnnotationLayer

CONSTANT NoChrome   \* no region: chrome_press_id == NULL, or a point off the dock

ASSUME PenAssumption ==
  /\ NoChrome \notin Chrome
  /\ {"none", "unseen", "canvas"} \cap (Chrome \cup {NoChrome}) = {}
  /\ FALSE \in EraserTip   \* the pen draws with its tip

VARIABLES
  chromePress,   \* chrome_press_id
  activated,     \* RegionActivated "release" sent by this dispatch, or NoChrome
  grab,          \* stage_has_grab (external)
  tip, held,     \* the pen: tip down, barrel buttons down (external)
  contact,       \* history: where the present contact of the tip began
  slipped,       \* history: a barrel release ended this contact's dock press
  tipLost,       \* history: the layer may not know that the tip went up
  barrelLost     \* history: buttons whose release the layer was not given

pen == <<tip, held>>
history == <<contact, slipped, tipLost, barrelLost>>
routing == <<chromePress, activated, grab>>
penVars == <<layer, managed, chromePress, activated, grab, tip, held,
             contact, slipped, tipLost, barrelLost>>

PenInit ==
  /\ Init
  /\ chromePress = NoChrome /\ activated = NoChrome
  /\ grab = FALSE /\ tip = FALSE /\ held = {}
  /\ contact = "none" /\ slipped = FALSE /\ tipLost = FALSE /\ barrelLost = {}

\* meta_display_handle_event gives up an event while the stage is grabbed,
\* and the router refuses one while the layer is inactive.
Routed == ~grab /\ layer.active

\* Past the router: meta_annotation_layer_handle_event takes the event, or
\* returns at once while paused.
Handled(Event) ==
  \/ Receives /\ Event
  \/ ~Receives /\ UNCHANGED <<layer, managed>>

\* Mutant: the router forgets a press on the dock once it was sent on.
Swallows_Never == FALSE

\* While a press on the dock is in flight the router keeps everything else.
Swallows == chromePress # NoChrome

\* Mutant: a lift elsewhere leaves the press on the dock in flight.
EndDockPress_Inside(c) ==
  /\ chromePress' = IF c = chromePress THEN NoChrome ELSE chromePress
  /\ activated' = IF c = chromePress THEN c ELSE NoChrome
  /\ UNCHANGED <<layer, managed>>

\* A release of any button ends a dock press ...
\* Mutant: ... and activates whatever region it lands on.
EndDockPress_AnyRegion(c) ==
  /\ chromePress' = NoChrome
  /\ activated' = c
  /\ UNCHANGED <<layer, managed>>

\* ... and activates the region it lands on if that is the pressed one.
EndDockPress(c) ==
  /\ chromePress' = NoChrome
  /\ activated' = IF c = chromePress THEN c ELSE NoChrome
  /\ UNCHANGED <<layer, managed>>

-----------------------------------------------------------------------------
(* Events of the pen.  c is what meta_annotation_layer_pick_chrome_region   *)
(* finds at the event's position.                                           *)

PickChromeRegion == layer.chrome \cup {NoChrome}

\* Only a press on the dock asks where a release lands.
LiftPoint == IF Swallows THEN PickChromeRegion ELSE {NoChrome}

TipDown(t, inside, c) ==
  /\ ~tip /\ tip' = TRUE
  /\ c \in PickChromeRegion
  /\ \/ /\ ~Routed
        /\ contact' = "unseen"
        /\ UNCHANGED <<layer, managed, chromePress>>
     \/ /\ Routed /\ c # NoChrome
        /\ chromePress' = c
        /\ contact' = c
        /\ UNCHANGED <<layer, managed>>
     \/ /\ Routed /\ c = NoChrome /\ Swallows
        /\ contact' = "canvas"
        /\ UNCHANGED <<layer, managed, chromePress>>
     \/ /\ Routed /\ c = NoChrome /\ ~Swallows
        /\ contact' = "canvas"
        /\ Handled(Press(t, inside, FALSE))
        /\ UNCHANGED chromePress
  /\ slipped' = FALSE /\ activated' = NoChrome
  /\ UNCHANGED <<grab, held, tipLost, barrelLost>>

\* Motion with pressure on the tip, or hover.
Motion(t, inside, hit, drift) ==
  /\ Routed /\ ~Swallows
  /\ Receives
  /\ \/ tip /\ MotionBegins(t, inside, FALSE)
     \/ MotionContinues(FALSE, hit, drift, tip)
  /\ activated' = NoChrome
  /\ UNCHANGED <<chromePress, grab, pen, history>>

TipUp(hit, g, c) ==
  /\ tip /\ tip' = FALSE
  /\ c \in LiftPoint
  /\ \/ /\ ~Routed
        /\ tipLost' = TRUE
        /\ activated' = NoChrome
        /\ UNCHANGED <<layer, managed, chromePress>>
     \/ /\ Routed /\ Swallows
        /\ EndDockPress(c)
        /\ UNCHANGED tipLost
     \/ /\ Routed /\ ~Swallows
        /\ Handled(Release(FALSE, hit, g))
        /\ tipLost' = FALSE
        /\ activated' = NoChrome
        /\ UNCHANGED chromePress
  /\ contact' = "none" /\ slipped' = FALSE
  /\ UNCHANGED <<grab, held, barrelLost>>

BarrelDown(b) ==
  /\ b \notin held /\ held' = held \cup {b}
  /\ IF Routed /\ ~Swallows
       THEN Handled(BarrelPress(b))
       ELSE UNCHANGED <<layer, managed>>
  /\ activated' = NoChrome
  /\ UNCHANGED <<chromePress, grab, tip, history>>

BarrelUp(b, c) ==
  /\ b \in held /\ held' = held \ {b}
  /\ c \in LiftPoint
  /\ \/ /\ ~Routed
        /\ barrelLost' = barrelLost \cup {b}
        /\ activated' = NoChrome
        /\ UNCHANGED <<layer, managed, chromePress, slipped>>
     \/ /\ Routed /\ Swallows
        /\ EndDockPress(c)
        /\ barrelLost' = barrelLost \cup {b}
        /\ slipped' = TRUE
     \/ /\ Routed /\ ~Swallows
        /\ Handled(BarrelRelease(b))
        /\ barrelLost' = barrelLost \ {b}
        /\ activated' = NoChrome
        /\ UNCHANGED <<chromePress, slipped>>
  /\ UNCHANGED <<grab, tip, contact, tipLost>>

-----------------------------------------------------------------------------
(* Everything else                                                          *)

\* The stage is grabbed or let go.
Grab(on) ==
  /\ grab' = on
  /\ activated' = NoChrome
  /\ UNCHANGED <<layer, managed, chromePress, pen, history>>

\* ClearChromeRegions takes the dock away, and a press on it.
ClearChromeRegions ==
  /\ SetChromeRegions({})
  /\ chromePress' = NoChrome
  /\ activated' = NoChrome
  /\ contact' = IF contact \in Chrome THEN "canvas" ELSE contact
  /\ UNCHANGED <<grab, pen, slipped, tipLost, barrelLost>>

\* Any other call, signal or idle leaves the router alone.
Elsewhere ==
  /\ Call \/ Signal \/ RecomposeIdle
  /\ activated' = NoChrome
  /\ UNCHANGED <<chromePress, grab, pen, history>>

\* Every dispatch but ClearChromeRegions.
PenDispatch ==
  \/ \E t \in Target, inside \in BOOLEAN, c \in Chrome \cup {NoChrome} :
       TipDown(t, inside, c)
  \/ \E t \in Target, inside, drift \in BOOLEAN, hit \in SUBSET StrokeId :
       Motion(t, inside, hit, drift)
  \/ \E hit \in SUBSET StrokeId, g \in {"none", "triple", "quad"},
        c \in Chrome \cup {NoChrome} : TipUp(hit, g, c)
  \/ \E b \in Barrel : BarrelDown(b)
  \/ \E b \in Barrel, c \in Chrome \cup {NoChrome} : BarrelUp(b, c)
  \/ \E on \in BOOLEAN : Grab(on)
  \/ Elsewhere

PenNext == PenDispatch \/ ClearChromeRegions

PenSpec == PenInit /\ [][PenNext]_penVars

-----------------------------------------------------------------------------
(* Properties                                                              *)

\* The types of the router's and the pen's variables, and of the layer.
PenTypeOK ==
  /\ TypeOK
  /\ {chromePress, activated} \subseteq Chrome \cup {NoChrome}
  /\ {grab, tip, slipped, tipLost} \subseteq BOOLEAN
  /\ held \subseteq Barrel /\ barrelLost \subseteq Barrel
  /\ contact \in Chrome \cup {"none", "unseen", "canvas"}

\* "No ink until button down" (ANNOTATION_MUTTER_CHANGES.md:41), across
\* pauses, dock presses and barrel clicks: unless a grab or a deactivation
\* took the tip's release away, the layer has no stroke in flight and the
\* router no press in flight while the tip is up.
StrokeTracksTip ==
  ~tip /\ ~tipLost => ~layer.stroke_active /\ chromePress = NoChrome

\* The pen erases only while a barrel button is down (erase_is_active), or
\* after its release was taken away by the router or by a grab.
EraseTracksBarrel == layer.barrel \subseteq held \cup barrelLost

\* "Dragging off the dock can't begin or extend an ink stroke": a contact
\* that began on the dock leaves all ink as it is until a release.
DockContactNoInk ==
  [][contact' = contact /\ contact \in Chrome /\ ~slipped
       => /\ layer'.next = layer.next
          /\ layer'.current \in {layer.current, NoStroke}]_penVars

\* A dock button fires only for the contact that began on it, if every lift
\* of the tip before was seen.
ActivatedWhereItBegan ==
  [][activated' # NoChrome /\ ~tipLost => contact = activated']_penVars
=============================================================================
