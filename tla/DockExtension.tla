--------------------------- MODULE DockExtension ----------------------------
(***************************************************************************)
(* The dock extension (annotations-shell-extension/extension.js) and the   *)
(* flags of the compositor it drives over D-Bus.  The calls are            *)
(* asynchronous: a call is sent, the bus and Mutter serve the calls in     *)
(* order, and the reply comes back to a callback of the one extension      *)
(* object, which enable and disable use again and again.                   *)
(*                                                                         *)
(* calls is the way to Mutter and inbox the way back.  Routing by the bus  *)
(* and handling by Mutter are one step, Serve.  Time is left out: a timer  *)
(* that is set may fire at any step.                                       *)
(***************************************************************************)
EXTENDS Naturals, Sequences

CONSTANTS
  Colour,      \* COLORS
  FirstColour, \* COLORS[0], armed by enable
  BootColour,  \* the colour compiled into Mutter
  Geometry,    \* where the buttons of the dock may be
  NoGeometry,  \* nowhere: no button has a size yet, or no region is published
  ClearId,     \* CLEAR_REGION_ID, the trash button
  Button,      \* the ids of the buttons somebody clicks
  NoRetry,     \* _setPausedRetryId = 0
  Rivals,      \* may another process take the name?
  Unplugs,     \* may the primary monitor go?
  MaxEpoch,    \* bound on _setPausedEpoch in one session
  MaxRetry,    \* the 40 retries of SetActive
  MaxSent      \* bound on messages in flight when the user acts

ASSUME DockAssumption ==
  /\ FirstColour \in Colour /\ {Rivals, Unplugs} \subseteq BOOLEAN
  /\ Button \subseteq Colour \cup {ClearId}
  /\ NoGeometry \notin Geometry
  /\ {MaxRetry, MaxSent} \subseteq Nat /\ MaxEpoch \in Nat \ {0}

VARIABLES
  ext,      \* the fields of AnnotationExtension, and what of the shell it reads
  calls,    \* method calls on their way to Mutter
  inbox,    \* replies and signals on their way to the extension
  comp,     \* the flags of MetaAnnotationLayer
  bus,      \* who owns org.gnome.Mutter.Annotation
  missed,   \* history: methods whose last call did not reach Mutter, nor was
            \* SetActive(true) served since, which sets regions and colour right
  crossed   \* history: a pending retry was set up by an earlier session

dockVars == <<ext, calls, inbox, comp, bus, missed, crossed>>

Flag == {"SetActive", "SetPaused", "SetColor", "SetChromeRegions"}

\* A retry of SetPaused, as its closure holds it.
Retry == [value : BOOLEAN, epoch : 0 .. MaxEpoch]

\* ClearChromeRegions is SetChromeRegions of NoGeometry.  reply names the
\* callback, "none" if all it does is warn.  stale is history: an earlier
\* session sent it, or was sent it.
Message ==
  [name  : Flag \cup {"Clear", "RegionActivated"},
   value : BOOLEAN \cup Colour \cup Geometry \cup {NoGeometry, ClearId},
   epoch : 0 .. MaxEpoch, reply : BOOLEAN, ok : BOOLEAN, stale : BOOLEAN]

\* The fields, and what is read of the shell.
Extension ==
  [enabled     : BOOLEAN,                  \* _dock is not null
   monitor     : BOOLEAN,                  \* there is a primaryMonitor with a size
   overview    : BOOLEAN,                  \* Main.overview.visible
   shown       : BOOLEAN,                  \* _dock.visible
   geometry    : Geometry \cup {NoGeometry}, \* of the buttons
   place       : BOOLEAN,                  \* _allocDebounceId, _idlePos
   published   : BOOLEAN,                  \* _regionsPublished
   activeOk    : BOOLEAN,                  \* _annotationSessionActiveOk
   retryTimer  : BOOLEAN,                  \* _setActiveRetryId
   retries     : 0 .. MaxRetry,            \* _setActiveRetryCount
   appeared    : BOOLEAN,                  \* the name watch is to call back
   epoch       : 0 .. MaxEpoch,            \* _setPausedEpoch
   pausedRetry : Retry \cup {NoRetry},     \* _setPausedRetryId
   colour      : Colour]                   \* _activeColorIndex

DockTypeOK ==
  /\ ext \in Extension
  /\ calls \in Seq(Message)
  /\ inbox \in Seq(Message)
  /\ comp \in [active : BOOLEAN, paused : BOOLEAN,
               chrome : Geometry \cup {NoGeometry},
               colour : Colour \cup {BootColour}]
  /\ bus \in {"unowned", "served", "taken", "deaf"}
  /\ missed \subseteq Flag
  /\ crossed \in BOOLEAN

-----------------------------------------------------------------------------
(* Sending.  A handler is an operator on the pair h of the fields e of the  *)
(* extension and the calls q it has sent; it starts from Handler(e).        *)

Handler(e) == [e |-> e, q |-> calls]

Sets(h, e) == [h EXCEPT !.e = e]

dbusCall(h, name, value, reply, epoch) ==
  [h EXCEPT !.q = Append(@, [name |-> name, value |-> value, epoch |-> epoch,
                             reply |-> reply, ok |-> FALSE, stale |-> FALSE])]

_trySetAnnotationActive(h) == dbusCall(h, "SetActive", TRUE, TRUE, 0)

\* Mutant: the colour that enable arms is published, whatever is armed now.
publishActiveColor_First(h) == dbusCall(h, "SetColor", FirstColour, FALSE, 0)

_publishActiveColor(h) == dbusCall(h, "SetColor", h.e.colour, FALSE, 0)

\* A click on a button of the dock, or the pen's.
_activateRegion(h, id) ==
  IF id = ClearId
    THEN dbusCall(h, "Clear", NoGeometry, FALSE, 0)
    ELSE dbusCall(Sets(h, [h.e EXCEPT !.colour = id]), "SetColor", id, FALSE, 0)

\* Nothing is sent unless a publication is known to have succeeded.
_clearChromeRegions(h) ==
  IF ~h.e.published THEN h
  ELSE dbusCall(Sets(h, [h.e EXCEPT !.published = FALSE]),
                "SetChromeRegions", NoGeometry, FALSE, 0)

_publishChromeRegions(h) ==
  IF ~h.e.enabled THEN h
  ELSE IF h.e.shown /\ h.e.geometry # NoGeometry
    THEN dbusCall(h, "SetChromeRegions", h.e.geometry, TRUE, 0)
    ELSE _clearChromeRegions(h)

\* Without a primary monitor the dock stays where it is, and its regions.
_positionDock(h) ==
  IF h.e.enabled /\ h.e.monitor THEN _publishChromeRegions(h) ELSE h

\* Mutant: the intents are not told apart.
setPaused_OneEpoch(h, paused) ==
  dbusCall(h, "SetPaused", paused, TRUE, h.e.epoch)

\* A new intent: it supersedes a pending retry, and the epoch the replies to
\* earlier calls.
_setPaused(h, paused) ==
  dbusCall(Sets(h, [h.e EXCEPT !.pausedRetry = NoRetry, !.epoch = @ + 1]),
           "SetPaused", paused, TRUE, h.e.epoch + 1)

-----------------------------------------------------------------------------
(* Callbacks of the calls                                                  *)

\* Mutant: regions published before are taken to have arrived.
SetActiveReplied_NoRepublish(h, ok) ==
  IF ~ok THEN h ELSE _publishActiveColor(Sets(h, [h.e EXCEPT !.activeOk = TRUE]))

\* SetActive(true) answered: the regions published before may have gone to
\* nobody, and the colour is Mutter's own.
SetActiveReplied(h, ok) ==
  IF ~ok THEN h
  ELSE _publishActiveColor(_publishChromeRegions(
         Sets(h, [h.e EXCEPT !.activeOk = TRUE, !.published = FALSE])))

SetChromeRegionsReplied(h, ok) == Sets(h, [h.e EXCEPT !.published = ok])

\* A failure sets up one retry, unless a later intent has superseded it.
SetPausedReplied(h, m) ==
  IF m.ok \/ ~h.e.enabled \/ m.epoch # h.e.epoch THEN h
  ELSE Sets(h, [h.e EXCEPT !.pausedRetry = [value |-> m.value, epoch |-> m.epoch]])

Replied(h, m) ==
  CASE m.name = "SetActive"        -> SetActiveReplied(h, m.ok)
    [] m.name = "SetChromeRegions" -> SetChromeRegionsReplied(h, m.ok)
    [] m.name = "SetPaused"        -> SetPausedReplied(h, m)

-----------------------------------------------------------------------------
(* Enabling and disabling                                                  *)

\* Everything of one session starts anew, the epoch included.
enable(h) ==
  _trySetAnnotationActive(_setPaused(
    Sets(h, [h.e EXCEPT
      !.enabled = TRUE, !.shown = ~h.e.overview, !.geometry = NoGeometry,
      !.place = TRUE, !.published = FALSE, !.activeOk = FALSE,
      !.retryTimer = TRUE, !.retries = 0, !.appeared = (bus # "unowned"),
      !.epoch = 0, !.colour = FirstColour]),
    h.e.overview))

\* What disable tells Mutter.
\* Mutant: only a session known to be active is ended.
LeaveClean_IfActive(h) ==
  LET c == dbusCall(dbusCall(h, "SetChromeRegions", NoGeometry, FALSE, 0),
                    "SetPaused", FALSE, FALSE, 0)
  IN IF h.e.activeOk THEN dbusCall(c, "SetActive", FALSE, FALSE, 0) ELSE c

LeaveClean(h) ==
  dbusCall(dbusCall(dbusCall(h, "SetChromeRegions", NoGeometry, FALSE, 0),
                    "SetPaused", FALSE, FALSE, 0),
           "SetActive", FALSE, FALSE, 0)

disable(h) ==
  LeaveClean(Sets(h, [h.e EXCEPT
    !.enabled = FALSE, !.shown = FALSE, !.geometry = NoGeometry,
    !.place = FALSE, !.published = FALSE, !.retryTimer = FALSE,
    !.appeared = FALSE, !.pausedRetry = NoRetry]))

-----------------------------------------------------------------------------
(* Steps                                                                   *)

Becomes(h) == ext' = h.e /\ calls' = h.q

\* Only what the user and the shell do is bounded.
Room == Len(calls) + Len(inbox) < MaxSent

Aged(q) == [i \in DOMAIN q |-> [q[i] EXCEPT !.stale = TRUE]]

Enable ==
  /\ ~ext.enabled /\ Room
  /\ Becomes(enable(Handler(ext)))
  /\ UNCHANGED <<inbox, comp, bus, missed, crossed>>

Disable ==
  /\ ext.enabled /\ Room
  /\ Becomes(disable([e |-> ext, q |-> Aged(calls)]))
  /\ inbox' = Aged(inbox) /\ crossed' = FALSE
  /\ UNCHANGED <<comp, bus, missed>>

\* The overview shows, again if its hiding is cut short, ...
OverviewShowing ==
  /\ Room
  /\ IF ext.enabled
       THEN /\ ext.epoch < MaxEpoch
            /\ Becomes(_setPaused(_clearChromeRegions(
                 Handler([ext EXCEPT !.overview = TRUE, !.shown = FALSE])), TRUE))
            /\ crossed' = FALSE
       ELSE /\ ext' = [ext EXCEPT !.overview = TRUE]
            /\ UNCHANGED <<calls, crossed>>
  /\ UNCHANGED <<inbox, comp, bus, missed>>

\* ... and is gone.
OverviewHidden ==
  /\ ext.overview /\ Room
  /\ IF ext.enabled
       THEN /\ ext.epoch < MaxEpoch
            /\ Becomes(_setPaused(_positionDock(
                 Handler([ext EXCEPT !.overview = FALSE, !.shown = TRUE])), FALSE))
            /\ crossed' = FALSE
       ELSE /\ ext' = [ext EXCEPT !.overview = FALSE]
            /\ UNCHANGED <<calls, crossed>>
  /\ UNCHANGED <<inbox, comp, bus, missed>>

\* The dock is laid out anew; an idle will publish where.
Allocate(g) ==
  /\ ext.enabled /\ ext.shown /\ g # ext.geometry /\ Room
  /\ ext' = [ext EXCEPT !.geometry = g, !.place = TRUE]
  /\ UNCHANGED <<calls, inbox, comp, bus, missed, crossed>>

\* The idle of an allocation or of enable, ...
PositionIdle ==
  /\ ext.place
  /\ Becomes(_positionDock(Handler([ext EXCEPT !.place = FALSE])))
  /\ UNCHANGED <<inbox, comp, bus, missed, crossed>>

\* ... and the retries of enable's, of which any number may come.
PositionRetry ==
  /\ ext.enabled /\ Room
  /\ Becomes(_positionDock(Handler(ext)))
  /\ UNCHANGED <<inbox, comp, bus, missed, crossed>>

\* The shell sets its primary monitor anew before monitors-changed.
MonitorsChanged ==
  /\ Room
  /\ \E monitor \in {TRUE, ~Unplugs} :
       Becomes(_positionDock(Handler([ext EXCEPT !.monitor = monitor])))
  /\ UNCHANGED <<inbox, comp, bus, missed, crossed>>

\* The mouse clicks a button.
Click(id) ==
  /\ ext.enabled /\ ext.shown /\ Room
  /\ Becomes(_activateRegion(Handler(ext), id))
  /\ UNCHANGED <<inbox, comp, bus, missed, crossed>>

\* The pen is released on a region.  Mutter tells the bus while it has its
\* object there, and the bus whoever subscribes.
RegionActivated(id) ==
  /\ comp.active /\ comp.chrome # NoGeometry /\ Room
  /\ bus = "served" /\ ext.enabled
  /\ inbox' = Append(inbox, [name |-> "RegionActivated", value |-> id,
                             epoch |-> 0, reply |-> FALSE, ok |-> TRUE,
                             stale |-> FALSE])
  /\ UNCHANGED <<ext, calls, comp, bus, missed, crossed>>

\* Mutant: nothing but success ends the retries.
GivesUp_Never(e) == e.activeOk

GivesUp(e) == e.activeOk \/ e.retries = MaxRetry

\* The retry timer of SetActive.
RetrySetActive ==
  /\ ext.retryTimer
  /\ IF GivesUp(ext)
       THEN ext' = [ext EXCEPT !.retryTimer = FALSE] /\ UNCHANGED calls
       ELSE Becomes(_trySetAnnotationActive(Handler([ext EXCEPT !.retries = @ + 1])))
  /\ UNCHANGED <<inbox, comp, bus, missed, crossed>>

\* The retry timer of SetPaused; its call is the last attempt.
RetrySetPaused ==
  /\ ext.pausedRetry # NoRetry
  /\ LET r == ext.pausedRetry
         h == Handler([ext EXCEPT !.pausedRetry = NoRetry])
     IN Becomes(IF r.epoch # ext.epoch THEN h
                ELSE dbusCall(h, "SetPaused", r.value, FALSE, r.epoch))
  /\ UNCHANGED <<inbox, comp, bus, missed, crossed>>

\* Mutant: the appearance of the name is left to the retries.
WatchCallback_Nothing(h) == h

WatchCallback(h) == _trySetAnnotationActive(h)

\* The name watch finds an owner.
NameAppeared ==
  /\ ext.appeared
  /\ Becomes(WatchCallback(Handler([ext EXCEPT !.appeared = FALSE])))
  /\ UNCHANGED <<inbox, comp, bus, missed, crossed>>

\* The next reply or signal.  A signal for a session that is over is dropped,
\* or reaches the subscription of the next one.
Deliver ==
  /\ inbox # <<>> /\ inbox' = Tail(inbox)
  /\ LET m == Head(inbox)
     IN \/ /\ m.reply
           /\ Becomes(Replied(Handler(ext), m))
           /\ crossed' = (\/ crossed
                          \/ m.stale /\ ext'.pausedRetry # ext.pausedRetry)
        \/ /\ m.name = "RegionActivated" /\ ext.enabled
           /\ Becomes(_activateRegion(Handler(ext), m.value))
           /\ UNCHANGED crossed
        \/ /\ m.name = "RegionActivated" /\ m.stale
           /\ UNCHANGED <<ext, calls, crossed>>
  /\ UNCHANGED <<comp, bus, missed>>

-----------------------------------------------------------------------------
(* The bus and Mutter                                                      *)

\* What Mutter does with a call.
handle_method_call(c) ==
  CASE c.name = "SetActive"        -> [comp EXCEPT !.active = c.value]
    [] c.name = "SetPaused"        -> [comp EXCEPT !.paused = c.value]
    [] c.name = "SetColor"         -> [comp EXCEPT !.colour = c.value]
    [] c.name = "SetChromeRegions" -> [comp EXCEPT !.chrome = c.value]
    [] c.name = "Clear"            -> comp

\* The failures a served call makes good, its callback included.
SetsRight(c) ==
  IF c.name = "SetActive" /\ c.value
    THEN {"SetActive", "SetColor", "SetChromeRegions"}
    ELSE {c.name}

\* The next call is handled by Mutter, or answered with an error if nobody
\* has the name or the object, or answered somehow by another owner.
Serve ==
  /\ calls # <<>> /\ calls' = Tail(calls)
  /\ LET c == Head(calls)
     IN /\ comp' = IF bus = "served" THEN handle_method_call(c) ELSE comp
        /\ \E ok \in BOOLEAN :
             /\ bus = "served" => ok
             /\ bus \in {"unowned", "deaf"} => ~ok
             /\ inbox' = IF c.reply THEN Append(inbox, [c EXCEPT !.ok = ok])
                         ELSE inbox
        /\ missed' = IF bus = "served" THEN missed \ SetsRight(c)
                     ELSE missed \cup ({c.name} \cap Flag)
  /\ UNCHANGED <<ext, bus, crossed>>

\* The name is acquired; another process may take it, and Mutter drops its
\* object.  When the name comes back nothing registers the object again.
NameOwnerChanged ==
  /\ Room
  /\ \/ bus = "unowned" /\ bus' = "served"
     \/ bus # "taken" /\ Rivals /\ bus' = "taken"
     \/ bus = "taken" /\ bus' = "deaf"
  /\ ext' = [ext EXCEPT !.appeared = ext.enabled]
  /\ UNCHANGED <<calls, inbox, comp, missed, crossed>>

-----------------------------------------------------------------------------

DockInit ==
  /\ \E overview \in BOOLEAN, monitor \in {TRUE, ~Unplugs} :
       ext = [enabled |-> FALSE, monitor |-> monitor, overview |-> overview,
              shown |-> FALSE,
              geometry |-> NoGeometry, place |-> FALSE, published |-> FALSE,
              activeOk |-> FALSE, retryTimer |-> FALSE, retries |-> 0,
              appeared |-> FALSE, epoch |-> 0, pausedRetry |-> NoRetry,
              colour |-> FirstColour]
  /\ calls = <<>> /\ inbox = <<>>
  /\ comp = [active |-> FALSE, paused |-> FALSE, chrome |-> NoGeometry,
             colour |-> BootColour]
  /\ bus = "unowned" /\ missed = {} /\ crossed = FALSE

DockNext ==
  \/ Enable \/ Disable
  \/ OverviewShowing \/ OverviewHidden
  \/ \E g \in Geometry : Allocate(g)
  \/ PositionIdle \/ PositionRetry \/ MonitorsChanged
  \/ \E id \in Button : Click(id) \/ RegionActivated(id)
  \/ RetrySetActive \/ RetrySetPaused \/ NameAppeared
  \/ Deliver \/ Serve \/ NameOwnerChanged

\* Messages that are sent arrive, and a name watch calls back.
DockFairness == WF_dockVars(Serve) /\ WF_dockVars(Deliver) /\ WF_dockVars(NameAppeared)

DockSpec == DockInit /\ [][DockNext]_dockVars /\ DockFairness

-----------------------------------------------------------------------------
(* Properties                                                              *)

\* Nothing is under way.
Settled ==
  /\ calls = <<>> /\ inbox = <<>>
  /\ ext.pausedRetry = NoRetry /\ ~ext.place

\* Ink hides for the overview and for nothing else, once the messages have
\* settled and the last SetPaused reached Mutter: no failure, retry or reply
\* leaves an older intent in force (but see RetryOfThisIntent).
PausedAsIntended ==
  Settled /\ "SetPaused" \notin missed /\ ~crossed
    => (comp.paused <=> ext.enabled /\ ext.overview)

\* Mutter is active just while the extension is enabled: no retry, watch or
\* late reply activates it for a session that is over.
ActiveAsEnabled ==
  Settled /\ "SetActive" \notin missed => (comp.active <=> ext.enabled)

\* The dock takes the pen where its buttons are, if there is a primary monitor
\* (without one nothing is published), and "stale chrome regions"
\* (extension.js:532) are gone with the dock.
RegionsAsShown ==
  Settled /\ "SetChromeRegions" \notin missed
    => /\ ext.shown /\ ext.monitor => comp.chrome = ext.geometry
       /\ ~ext.enabled => comp.chrome = NoGeometry

\* The pen writes in the colour the dock shows as armed.
ColourAsArmed ==
  Settled /\ ext.enabled /\ missed \cap {"SetActive", "SetColor"} = {}
    => comp.colour = ext.colour

\* Mutter becomes active however late it gets its name.
EventuallyActive ==
  <>[](ext.enabled /\ bus = "served") => <>[](comp.active)

\* "Bump an epoch so an in-flight dbusCall reply for an older value can't
\* schedule a retry that contradicts the current target" (extension.js:160).
RetryOfThisIntent ==
  ext.pausedRetry # NoRetry => ext.pausedRetry.value = ext.overview

=============================================================================
