---------------------------- MODULE KateTracker ----------------------------
(***************************************************************************)
(* The Kate scroll tracker (annotations-shell-extension/kateTracker.js):   *)
(* one tracker for each window of Kate finds the editor and its scrollbar  *)
(* in the accessibility tree, polls them and listens to them, and tells    *)
(* the compositor the editor's region and how far it has scrolled.  All    *)
(* calls name the process, not the window, and nobody looks at the answer. *)
(*                                                                         *)
(* A handler is an operator on the pair h of a tracker t and the calls q   *)
(* it has sent; an action is one callback on the shell's main loop.  The   *)
(* accessibles of a window are named by the window: an editor, which has a *)
(* place and a first character, and a scrollbar, which has a value.  Lines *)
(* are the unit of offsets, so the line height and its calibration are     *)
(* left out.  Time is left out: a timer that is set may fire at any step.  *)
(***************************************************************************)
EXTENDS Integers, Sequences, FiniteSets, SequencesExt

CONSTANTS
  Window,    \* windows that _isKate accepts
  Pid, PidOf,
  Geometry,  \* extents of an editor in its window
  None,      \* null, and the extents of a cleared region
  Offset,    \* values of a scrollbar, in lines
  TopOffset, \* those at which the first character still has an extent
  MaxRetry,  \* length of DISCOVERY_ATTEMPT_DELAYS_MS
  Restless,  \* bound: windows the user scrolls, rearranges and minimizes; the
             \* others open at once, at the top of their document, and stay so
  MaxSent,   \* bound: calls in flight when something more happens
  MaxUnnamed \* bound: windows that open while Mutter has no bus name

ASSUME KateAssumption ==
  /\ PidOf \in [Window -> Pid]
  /\ Geometry # {} /\ None \notin Geometry \cup Window \cup Int
  /\ Offset \subseteq Nat /\ 0 \in Offset /\ TopOffset \subseteq Offset
  /\ {MaxRetry, MaxSent} \subseteq Nat \ {0} /\ MaxUnnamed \in Nat /\ Restless \subseteq Window

VARIABLES
  kate,     \* the windows and their accessibles (external)
  trackers, \* the Map, in order of insertion
  tracker,  \* the tracker of each window in the Map
  up,       \* _initialized
  calls,    \* method calls on their way to Mutter
  comp,     \* what the compositor keeps for each window
  astray,   \* history: what of each window's tracker did not get there, or
            \* was overwritten by the tracker of another window
  origin    \* history: the line at offset 0 of the ink, see Draw

kateVars == <<kate, trackers, tracker, up, calls, comp, astray, origin>>

Delta == {o - b : o, b \in Offset}

Tracker ==
  [editor : Window \cup {None}, scrollbar : Window \cup {None},
   charBase : TopOffset \cup {None},   \* charBaseYRel
   sbBase   : Offset \cup {None},      \* baseSbVal
   region   : Geometry \cup {None},    \* lastRegionSig
   scrollY  : Delta \cup {None},       \* lastScrollY
   tries    : 0 .. MaxRetry,           \* _retryCount
   timer    : BOOLEAN,                 \* _retryId
   poll     : BOOLEAN,                 \* _pollId
   seen     : Offset \cup {None}]      \* _pollLastSbVal

NewTracker ==
  [editor |-> None, scrollbar |-> None, charBase |-> None, sbBase |-> None,
   region |-> None, scrollY |-> None, tries |-> 0, timer |-> TRUE,
   poll |-> FALSE, seen |-> None]

Call ==
  [name : {"SetWindowEditorRegion", "SetWindowScroll"}, from : Window,
   value : Geometry \cup {None} \cup Delta]

\* tree: how much of its accessibility tree Kate has published.
Kate ==
  [managed : BOOLEAN, minimized : BOOLEAN, tree : {"none", "editor", "full"},
   geometry : Geometry, offset : Offset]

Gone == [managed |-> FALSE, minimized |-> FALSE, tree |-> "none",
         geometry |-> CHOOSE g \in Geometry : TRUE, offset |-> 0]

Managed    == {w \in Window : kate[w].managed}
Tracked    == {trackers[i] : i \in DOMAIN trackers}
Siblings(w) == {v \in Window : PidOf[v] = PidOf[w]}

-----------------------------------------------------------------------------
(* Reading the accessibles; those of a closed window are stale.            *)

HasEditor(e) == e # None /\ e \in Managed /\ kate[e].tree # "none"
HasScrollbar(s) == s # None /\ s \in Managed /\ kate[s].tree = "full"

\* get_character_extents(0) is not all zero.
HasChar(e) == HasEditor(e) /\ kate[e].offset \in TopOffset

\* The scroll offset: the scrollbar's delta, else the first character's.
Measure(t) ==
  IF HasScrollbar(t.scrollbar) /\ t.sbBase # None
    THEN kate[t.scrollbar].offset - t.sbBase
  ELSE IF HasChar(t.editor) /\ t.charBase # None
    THEN kate[t.editor].offset - t.charBase
  ELSE None

-----------------------------------------------------------------------------
(* Methods of KateWindowTracker                                            *)

dbusCall(h, name, w, value) ==
  [h EXCEPT !.q = Append(@, [name |-> name, from |-> w, value |-> value])]

\* Mutant: the baselines are taken whenever they can be read.
captureBaseline_Again(h) ==
  [h EXCEPT
     !.t.charBase = IF HasChar(h.t.editor) THEN kate[h.t.editor].offset ELSE @,
     !.t.sbBase = IF HasScrollbar(h.t.scrollbar)
                    THEN kate[h.t.scrollbar].offset ELSE @]

_captureBaseline(h) ==
  [h EXCEPT
     !.t.charBase = IF @ = None /\ HasChar(h.t.editor)
                      THEN kate[h.t.editor].offset ELSE @,
     !.t.sbBase = IF @ = None /\ HasScrollbar(h.t.scrollbar)
                    THEN kate[h.t.scrollbar].offset ELSE @]

_republishRegion(h, w) ==
  IF ~HasEditor(h.t.editor) \/ kate[w].minimized
     \/ kate[h.t.editor].geometry = h.t.region
    THEN h
    ELSE LET g == kate[h.t.editor].geometry
         IN dbusCall([h EXCEPT !.t.region = g], "SetWindowEditorRegion", w, g)

_republishScroll(h, w) ==
  IF h.t.editor = None \/ Measure(h.t) \in {None, h.t.scrollY} THEN h
  ELSE dbusCall([h EXCEPT !.t.scrollY = Measure(h.t)],
                "SetWindowScroll", w, Measure(h.t))

\* Mutant: only value-changed and bounds-changed are trusted.
tryDiscover_NoPoll(h, w, e, s) ==
  LET found == [h EXCEPT !.t.editor = IF e = None THEN @ ELSE e,
                         !.t.scrollbar = IF s = None THEN @ ELSE s]
  IN _republishScroll(_republishRegion(_captureBaseline(found), w), w)

\* The walk finds editor e and scrollbar s, or nothing.  A scrollbar that was
\* found before stays.
_tryDiscover(h, w, e, s) ==
  LET found == [h EXCEPT !.t.editor = IF e = None THEN @ ELSE e,
                         !.t.scrollbar = IF s = None THEN @ ELSE s]
      told == _republishScroll(_republishRegion(_captureBaseline(found), w), w)
  IN IF found.t.editor = None THEN found
     ELSE [told EXCEPT !.t.seen = None, !.t.poll = TRUE]

handleValueChanged(h, w, s) ==
  _republishScroll([h EXCEPT !.t.scrollbar = s], w)

\* Of the tracker's own editor, or of anything else of the process.
handleBoundsChanged(h, w, own) ==
  IF own THEN _republishRegion([h EXCEPT !.t.region = None], w)
  ELSE _republishScroll(IF h.t.charBase = None THEN _captureBaseline(h) ELSE h, w)

\* Mutant: the regions stay published.
destroy_KeepsRegion(q, T) == q

\* The trackers of the windows T go, one after the other.
destroy(q, T) ==
  q \o [i \in DOMAIN T |->
         [name |-> "SetWindowEditorRegion", from |-> T[i], value |-> None]]

-----------------------------------------------------------------------------
(* Callbacks                                                               *)

\* Bound: the next callback waits while MaxSent calls are in flight.
Room == Len(calls) < MaxSent

\* A callback of w's tracker runs f, which leaves h.
Runs(w, h) ==
  /\ tracker' = [tracker EXCEPT ![w] = h.t] /\ calls' = h.q
  /\ UNCHANGED <<kate, trackers, up, comp, astray, origin>>

Handler(w) == [t |-> tracker[w], q |-> calls]

\* What the walk may find: the largest editor of the process, in whichever
\* window, and a scrollbar beside it.  Extents are relative to the window, so
\* that of another window may pass for it.
Found(w) ==
  LET E == {e \in Siblings(w) : HasEditor(e)}
      S(e) == IF HasScrollbar(e) THEN {e}
              ELSE {None} \cup {s \in Siblings(w) : HasScrollbar(s)}
  IN IF E = {} THEN {<<None, None>>} ELSE UNION {{e} \X S(e) : e \in E}

\* Mutant: one attempt too many.
Exhausted_Late(tries) == tries > MaxRetry

Exhausted(tries) == tries >= MaxRetry

\* The timer of _scheduleDiscovery.
Discover(w) ==
  /\ Room /\ w \in Tracked /\ tracker[w].timer
  /\ \E f \in Found(w) :
       LET h == _tryDiscover(Handler(w), w, f[1], f[2])
           tries == h.t.tries + 1
           done == Exhausted(tries) \/ (h.t.editor # None /\ h.t.scrollbar # None)
       IN Runs(w, [h EXCEPT !.t.tries = tries, !.t.timer = ~done])

\* A tick of the 200 ms poll that reads a new value.
Poll(w) ==
  LET t == tracker[w]
      cur == kate[t.scrollbar].offset
      h == [Handler(w) EXCEPT !.t.seen = cur]
  IN /\ Room /\ w \in Tracked /\ t.poll
     /\ HasScrollbar(t.scrollbar) /\ cur # t.seen
     /\ Runs(w, _republishScroll(IF t.sbBase = None THEN _captureBaseline(h) ELSE h, w))

\* size-changed or position-changed.
FrameChanged(w) ==
  Room /\ w \in Tracked /\ Runs(w, _republishRegion(Handler(w), w))

\* Of the trackers T that would take an event, w's is the first in the Map.
Takes(w, T) ==
  \E i \in DOMAIN trackers :
    trackers[i] = w /\ w \in T /\ \A j \in DOMAIN trackers : trackers[j] \in T => i <= j

\* object:value-changed of the scrollbar of s.  A tracker that has another
\* one takes it if it lies beside its editor: in its own window, or in one
\* whose extents happen to match.
ValueChanged(s) ==
  \E alike \in SUBSET Siblings(s) :
    LET T == {w \in Tracked \cap Siblings(s) :
                \/ tracker[w].scrollbar = s
                \/ /\ HasEditor(tracker[w].editor)
                   /\ tracker[w].editor \in alike \cup {s}}
    IN /\ Room /\ HasScrollbar(s)
       /\ \E w \in Window : Takes(w, T) /\ Runs(w, handleValueChanged(Handler(w), w, s))

\* object:bounds-changed of the editor of e, or of other content of Kate.
BoundsChanged(e, editor) ==
  LET T == {w \in Tracked \cap Siblings(e) : tracker[w].editor # None}
  IN /\ Room /\ HasEditor(e)
     /\ \E w \in Window :
          /\ Takes(w, T)
          /\ Runs(w, handleBoundsChanged(Handler(w), w, editor /\ tracker[w].editor = e))

-----------------------------------------------------------------------------
(* The manager, and windows                                                *)

\* list_all_windows, in whatever order.
Enable ==
  /\ ~up /\ up' = TRUE
  /\ \E order \in [1 .. Cardinality(Managed) -> Managed] :
       /\ \A w \in Managed : \E i \in DOMAIN order : order[i] = w
       /\ trackers' = order
  /\ UNCHANGED <<kate, tracker, calls, comp, astray, origin>>

\* Every tracker of the Map is destroyed, in its order.
Disable ==
  /\ Room /\ up /\ up' = FALSE
  /\ trackers' = <<>>
  /\ tracker' = [w \in Window |-> NewTracker]
  /\ calls' = destroy(calls, trackers)
  /\ origin' = [w \in Window |-> None]
  /\ UNCHANGED <<kate, comp, astray>>

\* window-created.  Kate publishes the window's accessibles later.
MapWindow(w) ==
  /\ ~kate[w].managed
  /\ comp.named \/ Cardinality(Managed) < MaxUnnamed
  /\ \E g \in Geometry, o \in IF w \in Restless THEN Offset ELSE {0} :
       kate' = [kate EXCEPT ![w] =
         [managed |-> TRUE, minimized |-> FALSE, geometry |-> g, offset |-> o,
          tree |-> IF w \in Restless THEN "none" ELSE "full"]]
  /\ trackers' = IF up THEN Append(trackers, w) ELSE trackers
  /\ origin' = [v \in Window |-> IF v \in Siblings(w) THEN None ELSE origin[v]]
  /\ UNCHANGED <<tracker, up, calls, comp, astray>>

\* unmanaged: the compositor frees the window's ink, and its tracker goes.
UnmanageWindow(w) ==
  /\ Room /\ w \in Managed
  /\ kate' = [kate EXCEPT ![w] = Gone]
  /\ comp' = [comp EXCEPT !.inked = @ \ {w}, !.region[w] = None, !.scroll[w] = 0]
  /\ IF w \in Tracked
       THEN /\ calls' = destroy(calls, <<w>>)
            /\ \E i \in DOMAIN trackers :
                 trackers[i] = w /\ trackers' = RemoveAt(trackers, i)
       ELSE UNCHANGED <<calls, trackers>>
  /\ tracker' = [tracker EXCEPT ![w] = NewTracker]
  /\ astray' = [n \in DOMAIN astray |-> astray[n] \ {w}]
  /\ origin' = [origin EXCEPT ![w] = None]
  /\ UNCHANGED up

\* What Kate and its user do to a window and its accessibles.
Kates(w, k) ==
  /\ Room /\ w \in Managed /\ kate[w] # k
  /\ kate' = [kate EXCEPT ![w] = k]
  /\ UNCHANGED <<trackers, tracker, up, calls, comp, astray, origin>>

PublishTree(w) ==
  \/ kate[w].tree = "none" /\ Kates(w, [kate[w] EXCEPT !.tree = "editor"])
  \/ kate[w].tree # "full" /\ Kates(w, [kate[w] EXCEPT !.tree = "full"])

ScrollDocument(w) == \E o \in Offset : Kates(w, [kate[w] EXCEPT !.offset = o])
MoveEditor(w) == \E g \in Geometry : Kates(w, [kate[w] EXCEPT !.geometry = g])
Minimize(w) == \E m \in BOOLEAN : Kates(w, [kate[w] EXCEPT !.minimized = m])

\* Nothing is in flight, and w's tracker has no news.
Rested(w) ==
  calls = <<>> /\ w \in Tracked /\ tracker[w].scrollY = Measure(tracker[w])

Alone(w) == Siblings(w) \cap Managed = {w}

\* The first follow-scroll ink over an editor at rest that has a scrollbar:
\* its content coordinates are relative to this line of the document.
Draw(w) ==
  /\ Rested(w) /\ Alone(w) /\ w \notin astray.SetWindowScroll
  /\ tracker[w].scrollbar = w /\ tracker[w].sbBase # None
  /\ comp.region[w] # None /\ origin[w] = None
  /\ origin' = [origin EXCEPT ![w] = kate[w].offset - comp.scroll[w]]
  /\ UNCHANGED <<kate, trackers, tracker, up, calls, comp, astray>>

-----------------------------------------------------------------------------
(* The compositor                                                          *)

\* Mutter gets its bus name.
NameAcquired ==
  /\ ~comp.named /\ comp' = [comp EXCEPT !.named = TRUE]
  /\ UNCHANGED <<kate, trackers, tracker, up, calls, astray, origin>>

\* meta_annotation_layer_set_window_editor_region and ..._set_window_scroll
\* (see AnnotationLayer) reach the windows R of the process: a region gives a
\* window its ink, a scroll passes over one that has none.
Sets(m, R) ==
  LET set(f) == [w \in Window |-> IF w \in R THEN m.value ELSE f[w]]
  IN IF m.name = "SetWindowScroll" THEN [comp EXCEPT !.scroll = set(@)]
     ELSE [comp EXCEPT !.inked = @ \cup R, !.region = set(@)]

\* What w's tracker last told of itself; a window without one has no region.
Told(n, w) ==
  IF n = "SetWindowEditorRegion" THEN tracker[w].region ELSE tracker[w].scrollY

\* The windows whose region or offset is not what their own tracker told last,
\* after m is lost or has reached the windows R of the windows W it is for.
Astray(m, W, R) ==
  LET A == astray[m.name]
  IN IF ~comp.named THEN A \cup W
     ELSE {w \in A \cup W : IF w \in R THEN w # m.from /\ Told(m.name, w) # m.value
                            ELSE w \in A \cup {m.from}}

Serve ==
  /\ calls # <<>>
  /\ LET m == Head(calls)
         W == Siblings(m.from) \cap Managed
         R == IF m.name = "SetWindowScroll" THEN W \cap comp.inked ELSE W
     IN /\ comp' = IF comp.named THEN Sets(m, R) ELSE comp
        /\ astray' = [astray EXCEPT ![m.name] = Astray(m, W, R)]
  /\ calls' = Tail(calls)
  /\ UNCHANGED <<kate, trackers, tracker, up, origin>>

KateInit ==
  /\ kate = [w \in Window |-> Gone]
  /\ trackers = <<>> /\ tracker = [w \in Window |-> NewTracker] /\ up = FALSE
  /\ calls = <<>>
  /\ comp = [named |-> FALSE, inked |-> {}, region |-> [w \in Window |-> None],
             scroll |-> [w \in Window |-> 0]]
  /\ astray = [n \in {"SetWindowEditorRegion", "SetWindowScroll"} |-> {}]
  /\ origin = [w \in Window |-> None]

KateNext ==
  \/ Enable \/ Disable \/ NameAcquired \/ Serve
  \/ \E w \in Window :
       \/ Discover(w) \/ Poll(w) \/ FrameChanged(w) \/ ValueChanged(w)
       \/ \E editor \in BOOLEAN : BoundsChanged(w, editor)
       \/ MapWindow(w) \/ UnmanageWindow(w) \/ Draw(w)
       \/ PublishTree(w)
       \/ w \in Restless /\ (ScrollDocument(w) \/ MoveEditor(w) \/ Minimize(w))

\* The bus delivers and Mutter dispatches what is sent.  A periodic timer comes
\* round whatever else is in flight: only the bound makes it wait (Room).
KateSpec ==
  /\ KateInit /\ [][KateNext]_kateVars
  /\ WF_kateVars(Serve) /\ \A w \in Restless : SF_kateVars(Poll(w))

-----------------------------------------------------------------------------
(* Properties                                                              *)

\* Types of the trackers' fields, the calls and the compositor's side.
KateTypeOK ==
  /\ kate \in [Window -> Kate]
  /\ trackers \in Seq(Window) /\ tracker \in [Window -> Tracker] /\ up \in BOOLEAN
  /\ calls \in Seq(Call)
  /\ comp \in [named : BOOLEAN, inked : SUBSET Window,
               region : [Window -> Geometry \cup {None}], scroll : [Window -> Delta]]
  /\ astray \in [{"SetWindowEditorRegion", "SetWindowScroll"} -> SUBSET Window]
  /\ origin \in [Window -> Int \cup {None}]

\* Nothing stays published that no tracker stands for: when calls have settled,
\* a tracked window has the region its tracker last sent, and one without a
\* tracker (after disable) has none, unless the last call to reach it was a
\* sibling's or its own got lost.
RegionAsTracked ==
  calls = <<>> =>
    \A w \in Managed \ astray.SetWindowEditorRegion :
      \/ comp.region[w] = tracker[w].region
      \/ w \in Tracked /\ tracker[w].region = None

\* Ink drawn over the text of a window that is alone in its process stays on
\* its line, whenever the tracker has no news, for as long as that tracker
\* lives: however Kate scrolls, hides, moves its editor or loses sight of its
\* first character, the offset is measured from the same line.
InkStaysOnText ==
  \A w \in Window :
    origin[w] # None /\ Rested(w) /\ w \notin astray.SetWindowScroll
      => kate[w].offset - comp.scroll[w] = origin[w]

Follows(w) ==
  /\ Alone(w) /\ w \in Tracked /\ tracker[w].editor # None
  /\ tracker[w].scrollbar = w /\ HasScrollbar(w)
  /\ comp.named /\ w \in comp.inked /\ w \notin astray.SetWindowScroll

\* The document has returned to where the last tick of the poll saw it, but an
\* event in between published another offset: no tick will see a change.
PollFooled(w) ==
  tracker[w].seen = kate[w].offset /\ tracker[w].scrollY # Measure(tracker[w])

\* "Kate does not reliably emit AT-SPI object:value-changed events" (lines
\* 393-399): even if none comes, the compositor ends at the offset at which
\* the document comes to rest, unless the poll is fooled.
EventuallyFollows ==
  \A w \in Restless, o \in Offset :
    <>[](Follows(w) /\ kate[w].offset = o /\ ~PollFooled(w))
      => <>[](tracker[w].sbBase # None /\ comp.scroll[w] = o - tracker[w].sbBase)
=============================================================================
