----------------------------- MODULE KateProofs -----------------------------
(***************************************************************************)
(* Theorems about KateTracker, for every value of its constants.           *)
(*                                                                         *)
(* What a tracker remembers to have sent and what the compositor keeps are *)
(* related by the calls in flight: only the last one of its kind from a    *)
(* window matters, and the invariant says what that call carries, and what *)
(* the compositor holds once none is in flight.  What got lost, or was     *)
(* overwritten by a sibling, is in astray, and is left out until a call of *)
(* the tracker sets it right.                                              *)
(*                                                                         *)
(* The model is a set of operators on a tracker and the calls it sent, so  *)
(* one lemma for each of them says that it keeps the invariant, and the    *)
(* proof that an action keeps it cites the lemmas of what it is made of.   *)
(***************************************************************************)
EXTENDS KateTracker, FiniteSetTheorems, SequenceTheorems, TLAPS

-----------------------------------------------------------------------------
(* The calls in flight                                                     *)

\* What each method takes: extents, or none to clear them; or an offset.
Valued(m) ==
  m.value \in IF m.name = "SetWindowEditorRegion" THEN Geometry \cup {None} ELSE Delta

Valid == {m \in Call : Valued(m)}

Own(m, n, w) == m.name = n /\ m.from = w

\* No call of name n from w's tracker is in flight.
Silent(q, n, w) == \A i \in 1 .. Len(q) : ~Own(q[i], n, w)

\* The last one, if there is any, carries a value of V.
LastSays(q, n, w, V) ==
  \A i \in 1 .. Len(q) :
    Own(q[i], n, w) /\ (\A j \in i + 1 .. Len(q) : ~Own(q[j], n, w))
      => q[i].value \in V

\* The compositor's x will be in V, as far as w's calls get through.
InForce(q, n, w, x, V) ==
  LastSays(q, n, w, V) /\ (Silent(q, n, w) /\ w \notin astray[n] => x \in V)

-----------------------------------------------------------------------------
(* The invariant                                                           *)

\* The regions that suit w's tracker t.  One that just forgot what it sent, or
\* was just created, says nothing; where there is none, there is no region.
Regions(w, t) ==
  {g \in Geometry \cup {None} : t.region = g \/ (t.region = None /\ w \in Tracked)}

Scrolls(t) == {d \in Delta : t.scrollY \in {None, d}}

\* Calls q, and the compositor after them, agree with w's tracker t.
Agreed(q, w, t) ==
  /\ InForce(q, "SetWindowEditorRegion", w, comp.region[w], Regions(w, t))
  /\ InForce(q, "SetWindowScroll", w, comp.scroll[w], Scrolls(t))

\* Over ink, w's tracker t keeps measuring from the line the ink was drawn on,
\* and by the scrollbar of the window: it has no other to take.
Anchored(w, t) ==
  /\ t.scrollbar = w => HasScrollbar(w)
  /\ origin[w] # None =>
       Alone(w) /\ w \in Tracked /\ t.scrollbar = w /\ t.sbBase = origin[w]

\* A tracker, and an attempt to discover that is still to come.
Typed(t) == t \in Tracker /\ (t.timer => t.tries < MaxRetry)

\* The Map: one tracker for each of some windows, none while disabled.
Mapped ==
  /\ trackers \in Seq(Window) /\ up \in BOOLEAN /\ (~up => trackers = <<>>)
  /\ \A i, j \in 1 .. Len(trackers) : trackers[i] = trackers[j] => i = j
  /\ Tracked \subseteq Managed /\ IsFiniteSet(Managed)

\* The inductive invariant.
KateInv ==
  /\ kate \in [Window -> Kate]
  /\ Mapped
  /\ tracker \in [Window -> Tracker] /\ calls \in Seq(Valid)
  /\ comp \in [named : BOOLEAN, inked : SUBSET Window,
               region : [Window -> Geometry \cup {None}], scroll : [Window -> Delta]]
  /\ astray \in [{"SetWindowEditorRegion", "SetWindowScroll"} -> SUBSET Window]
  /\ origin \in [Window -> Int \cup {None}]
  /\ \A w \in Window :
       /\ Typed(tracker[w])
       /\ w \notin Tracked => tracker[w] = NewTracker
       /\ w \notin Managed => comp.region[w] = None
       /\ Agreed(calls, w, tracker[w]) /\ Anchored(w, tracker[w])

-----------------------------------------------------------------------------
(* Queues                                                                  *)

\* The calls d after the calls q.
LEMMA ConcatFacts ==
  ASSUME NEW S, NEW q \in Seq(S), NEW d \in Seq(S), NEW n, NEW w
  PROVE  /\ q \o d \in Seq(S)
         /\ Silent(q \o d, n, w) <=> Silent(q, n, w) /\ Silent(d, n, w)
         /\ \A V : /\ \A i \in 1 .. Len(d) : Own(d[i], n, w) => d[i].value \in V
                   /\ Silent(d, n, w) => LastSays(q, n, w, V)
                   => LastSays(q \o d, n, w, V)
<1> DEFINE r == q \o d
           k == Len(q)
           l == Len(d)
<1>1. /\ r \in Seq(S) /\ Len(r) = k + l /\ k \in Nat /\ l \in Nat
      /\ \A i \in 1 .. k + l : r[i] = IF i <= k THEN q[i] ELSE d[i - k]
  BY ConcatProperties, LenProperties
<1> HIDE DEF r, k, l
<1>2. /\ \A i \in 1 .. k : i \in 1 .. k + l /\ r[i] = q[i]
      /\ \A i \in 1 .. l : i + k \in 1 .. k + l /\ r[i + k] = d[i]
  <2>1. ASSUME NEW i \in 1 .. l
        PROVE  i + k \in 1 .. k + l /\ ~(i + k <= k) /\ (i + k) - k = i
    BY <1>1
  <2> QED BY <1>1, <2>1
<1>3. \A i \in 1 .. k + l : i \in 1 .. k \/ (i - k \in 1 .. l /\ (i - k) + k = i)
  BY <1>1
<1>4. Silent(r, n, w) <=> Silent(q, n, w) /\ Silent(d, n, w)
  <2>1. ASSUME Silent(r, n, w) PROVE Silent(q, n, w) /\ Silent(d, n, w)
    BY <1>1, <1>2, <2>1 DEF Silent, k, l
  <2>2. ASSUME Silent(q, n, w), Silent(d, n, w) PROVE Silent(r, n, w)
    <3> SUFFICES ASSUME NEW i \in 1 .. k + l PROVE ~Own(r[i], n, w)
      BY <1>1 DEF Silent
    <3>1. CASE i \in 1 .. k
      BY <1>2, <2>2, <3>1 DEF Silent, k
    <3>2. CASE i - k \in 1 .. l /\ (i - k) + k = i
      <4>1. r[i] = d[i - k]
        BY <1>2, <3>2
      <4> QED BY <2>2, <3>2, <4>1 DEF Silent, l
    <3> QED BY <1>3, <3>1, <3>2
  <2> QED BY <2>1, <2>2
<1>5. ASSUME NEW V, \A i \in 1 .. l : Own(d[i], n, w) => d[i].value \in V,
             Silent(d, n, w) => LastSays(q, n, w, V)
      PROVE  LastSays(r, n, w, V)
  <2> SUFFICES ASSUME NEW i \in 1 .. k + l, Own(r[i], n, w),
                      \A j \in i + 1 .. k + l : ~Own(r[j], n, w)
               PROVE  r[i].value \in V
    BY <1>1 DEF LastSays
  <2>1. CASE i \in 1 .. k
    <3>1. /\ \A j \in 1 .. l : j + k \in i + 1 .. k + l
          /\ \A j \in i + 1 .. k : j \in i + 1 .. k + l /\ j \in 1 .. k
      BY <1>1, <2>1
    <3>2. Silent(d, n, w)
      BY <1>2, <3>1 DEF Silent, l
    <3>3. \A j \in i + 1 .. k : ~Own(q[j], n, w)
      BY <1>2, <3>1
    <3> QED BY <1>2, <1>5, <2>1, <3>2, <3>3 DEF LastSays, k
  <2>2. CASE i - k \in 1 .. l /\ (i - k) + k = i
    <3>1. r[i] = d[i - k]
      BY <1>2, <2>2
    <3> QED BY <1>5, <2>2, <3>1
  <2> QED BY <1>3, <2>1, <2>2
<1> QED BY <1>1, <1>4, <1>5 DEF r, l

\* A call at the end.
LEMMA PushFacts ==
  ASSUME NEW S, NEW q \in Seq(S), NEW m \in S, NEW n, NEW w
  PROVE  /\ Append(q, m) \in Seq(S)
         /\ Silent(Append(q, m), n, w) <=> Silent(q, n, w) /\ ~Own(m, n, w)
         /\ \A V : /\ Own(m, n, w) => m.value \in V
                   /\ ~Own(m, n, w) => LastSays(q, n, w, V)
                   => LastSays(Append(q, m), n, w, V)
<1> DEFINE d == <<m>>
<1>1. d \in Seq(S) /\ Append(q, m) = q \o d
  BY AppendIsConcat
<1>2. Len(d) = 1 /\ d[1] = m
  OBVIOUS
<1>3. \A i \in 1 .. Len(d) : d[i] = m
  BY <1>2
<1>4. 1 \in 1 .. Len(d)
  BY <1>2
<1> HIDE DEF d
<1>5. Silent(d, n, w) <=> ~Own(m, n, w)
  BY <1>3, <1>4 DEF Silent
<1> QED BY <1>1, <1>3, <1>5, ConcatFacts

\* The first call goes.
LEMMA TailFacts ==
  ASSUME NEW S, NEW q \in Seq(S), q # <<>>, NEW n, NEW w
  PROVE  /\ Head(q) \in S /\ Tail(q) \in Seq(S)
         /\ Silent(q, n, w) <=> Silent(Tail(q), n, w) /\ ~Own(Head(q), n, w)
         /\ \A V : LastSays(q, n, w, V) =>
              /\ LastSays(Tail(q), n, w, V)
              /\ Silent(Tail(q), n, w) /\ Own(Head(q), n, w) => Head(q).value \in V
<1> DEFINE r == Tail(q)
           k == Len(q)
           m == Head(q)
<1>1. /\ r \in Seq(S) /\ Len(r) = k - 1 /\ k \in Nat \ {0}
      /\ m = q[1] /\ m \in S
      /\ \A i \in 1 .. k - 1 : r[i] = q[i + 1]
  <2>1. k \in Nat \ {0}
    BY EmptySeq, LenProperties
  <2> QED BY <2>1, HeadTailProperties, ElementOfSeq
<1>2. /\ 1 \in 1 .. k
      /\ \A i \in 1 .. k - 1 : i + 1 \in 1 .. k
      /\ \A i \in 1 .. k : i = 1 \/ (i - 1 \in 1 .. k - 1 /\ (i - 1) + 1 = i)
  BY <1>1
<1> HIDE DEF r, k, m
<1>3. \A i \in 1 .. k : q[i] = m \/ (i - 1 \in 1 .. k - 1 /\ q[i] = r[i - 1])
  BY <1>1, <1>2
<1>4. Silent(q, n, w) <=> Silent(r, n, w) /\ ~Own(m, n, w)
  BY <1>1, <1>2, <1>3 DEF Silent, k
<1>5. ASSUME NEW V, LastSays(q, n, w, V)
      PROVE  /\ LastSays(r, n, w, V)
             /\ Silent(r, n, w) /\ Own(m, n, w) => m.value \in V
  <2>1. ASSUME NEW i \in 1 .. k - 1, Own(r[i], n, w),
               \A j \in i + 1 .. k - 1 : ~Own(r[j], n, w)
        PROVE  r[i].value \in V
    <3>1. ASSUME NEW j \in (i + 1) + 1 .. k PROVE ~Own(q[j], n, w)
      <4>1. j - 1 \in i + 1 .. k - 1 /\ j - 1 \in 1 .. k - 1 /\ (j - 1) + 1 = j
        BY <1>1
      <4>2. r[j - 1] = q[j]
        BY <1>1, <4>1
      <4> QED BY <2>1, <4>1, <4>2
    <3> QED BY <1>1, <1>2, <1>5, <2>1, <3>1 DEF LastSays, k
  <2>2. ASSUME Silent(r, n, w), Own(m, n, w) PROVE m.value \in V
    <3>1. ASSUME NEW j \in 1 + 1 .. k PROVE ~Own(q[j], n, w)
      <4>1. j - 1 \in 1 .. k - 1 /\ (j - 1) + 1 = j
        BY <1>1
      <4>2. r[j - 1] = q[j]
        BY <1>1, <4>1
      <4> QED BY <1>1, <2>2, <4>1, <4>2 DEF Silent
    <3> QED BY <1>1, <1>2, <1>5, <2>2, <3>1 DEF LastSays, k
  <2> QED BY <1>1, <2>1, <2>2 DEF LastSays
<1> QED BY <1>1, <1>4, <1>5 DEF r, m

-----------------------------------------------------------------------------
(* The handlers of a tracker                                               *)

\* The pair that handlers work on.
Hand == [t : Tracker, q : Seq(Valid)]

\* What holds of the pair h of w's tracker between any two statements.
Good(h, w) ==
  /\ h \in Hand /\ Typed(h.t) /\ Anchored(w, h.t)
  /\ \A v \in Window : Agreed(h.q, v, IF v = w THEN h.t ELSE tracker[v])

Msg(n, w, x) == [name |-> n, from |-> w, value |-> x]

LEMMA MsgFacts ==
  ASSUME NEW n, NEW w \in Window, NEW x,
         \/ n = "SetWindowEditorRegion" /\ x \in Geometry \cup {None}
         \/ n = "SetWindowScroll" /\ x \in Delta
  PROVE  /\ Msg(n, w, x) \in Valid /\ Msg(n, w, x).value = x
         /\ \A k, v : Own(Msg(n, w, x), k, v) <=> k = n /\ v = w
<1> DEFINE m == Msg(n, w, x)
<1>1. m.name = n /\ m.from = w /\ m.value = x
  BY DEF Msg
<1>2. m \in Call
  BY DEF Msg, Call
<1> HIDE DEF m
<1>3. m \in Valid
  BY <1>1, <1>2 DEF Valid, Valued
<1> QED BY <1>1, <1>3 DEF Own, m

\* From t to u, the timer and its count stay as they were.
Waits(t, u) == u.timer = t.timer /\ u.tries = t.tries

\* Fields that are neither sent nor about the scrollbar.
LEMMA FieldsGood ==
  ASSUME NEW w \in Window, NEW h, Good(h, w), NEW g \in Hand, g.q = h.q,
         Typed(g.t), g.t.region \in {h.t.region, None}, g.t.scrollY = h.t.scrollY,
         w \in Tracked \/ g.t.region = h.t.region, Anchored(w, g.t)
  PROVE  Good(g, w)
<1>1. Scrolls(g.t) = Scrolls(h.t)
  BY DEF Scrolls
<1>2. Regions(w, h.t) \subseteq Regions(w, g.t)
  BY DEF Regions
<1>3. Agreed(h.q, w, h.t)
  BY DEF Good
<1>4. Agreed(h.q, w, g.t)
  BY <1>1, <1>2, <1>3 DEF Agreed, InForce, LastSays
<1> QED BY <1>4 DEF Good

\* A call of w's tracker, and the trackers t of w before and u after it.
LEMMA CallAgreed ==
  ASSUME NEW w \in Window, NEW q \in Seq(Valid), NEW n, NEW x, NEW t, NEW u,
         \/ /\ n = "SetWindowEditorRegion" /\ x \in Geometry \cup {None}
            /\ x \in Regions(w, u) /\ u.scrollY = t.scrollY
         \/ n = "SetWindowScroll" /\ x \in Scrolls(u) /\ u.region = t.region,
         \A v \in Window : Agreed(q, v, IF v = w THEN t ELSE tracker[v])
  PROVE  /\ Append(q, Msg(n, w, x)) \in Seq(Valid)
         /\ \A v \in Window :
              Agreed(Append(q, Msg(n, w, x)), v, IF v = w THEN u ELSE tracker[v])
<1> DEFINE m == Msg(n, w, x)
           r == Append(q, m)
<1>1. m \in Valid /\ m.value = x /\ \A k, v : Own(m, k, v) <=> k = n /\ v = w
  BY MsgFacts DEF Scrolls
<1> HIDE DEF m
<1>2. r \in Seq(Valid)
  BY <1>1, AppendProperties
<1>3. ASSUME NEW k, NEW v, NEW y, NEW V,
             \/ InForce(q, k, v, y, V) /\ (k = n /\ v = w => x \in V)
             \/ k = n /\ v = w /\ x \in V
      PROVE  InForce(r, k, v, y, V)
  BY <1>1, <1>3, PushFacts DEF InForce
<1> HIDE DEF r
<1>4. ASSUME NEW v \in Window, v # w
      PROVE  Agreed(r, v, tracker[v])
  BY <1>3, <1>4 DEF Agreed
<1>5. Agreed(q, w, t)
  OBVIOUS
<1>6. Agreed(r, w, u)
  <2>1. CASE n = "SetWindowEditorRegion" /\ x \in Regions(w, u) /\ u.scrollY = t.scrollY
    <3>1. InForce(r, "SetWindowEditorRegion", w, comp.region[w], Regions(w, u))
      BY <1>3, <2>1
    <3>2. Scrolls(u) = Scrolls(t)
      BY <2>1 DEF Scrolls
    <3>3. InForce(r, "SetWindowScroll", w, comp.scroll[w], Scrolls(u))
      BY <1>3, <1>5, <2>1, <3>2 DEF Agreed
    <3> QED BY <3>1, <3>3 DEF Agreed
  <2>2. CASE n = "SetWindowScroll" /\ x \in Scrolls(u) /\ u.region = t.region
    <3>1. InForce(r, "SetWindowScroll", w, comp.scroll[w], Scrolls(u))
      BY <1>3, <2>2
    <3>2. Regions(w, u) = Regions(w, t)
      BY <2>2 DEF Regions
    <3>3. InForce(r, "SetWindowEditorRegion", w, comp.region[w], Regions(w, u))
      BY <1>3, <1>5, <2>2, <3>2 DEF Agreed
    <3> QED BY <3>1, <3>3 DEF Agreed
  <2> QED BY <2>1, <2>2
<1> QED BY <1>2, <1>4, <1>6 DEF r, m

\* dbusCall with the field of the tracker that remembers what it sends.
LEMMA CallGood ==
  ASSUME NEW w \in Window, NEW h, Good(h, w), NEW u \in Tracker, NEW n, NEW x,
         \/ /\ n = "SetWindowEditorRegion" /\ x \in Geometry
            /\ u = [h.t EXCEPT !.region = x]
         \/ n = "SetWindowScroll" /\ x \in Delta /\ u = [h.t EXCEPT !.scrollY = x]
  PROVE  Good([t |-> u, q |-> Append(h.q, Msg(n, w, x))], w)
<1> DEFINE r == Append(h.q, Msg(n, w, x))
<1>1. h.t \in Tracker /\ h.q \in Seq(Valid) /\ Typed(h.t) /\ Anchored(w, h.t)
  BY DEF Good, Hand
<1>2. \/ n = "SetWindowEditorRegion" /\ u.region = x /\ u.scrollY = h.t.scrollY
      \/ n = "SetWindowScroll" /\ u.scrollY = x /\ u.region = h.t.region
  BY <1>1 DEF Tracker
<1>3. /\ u.scrollbar = h.t.scrollbar /\ u.sbBase = h.t.sbBase
      /\ u.timer = h.t.timer /\ u.tries = h.t.tries
  BY <1>1 DEF Tracker
<1>4. Typed(u) /\ Anchored(w, u)
  BY <1>1, <1>3 DEF Typed, Anchored
<1>5. \/ /\ n = "SetWindowEditorRegion" /\ x \in Geometry \cup {None}
         /\ x \in Regions(w, u) /\ u.scrollY = h.t.scrollY
      \/ n = "SetWindowScroll" /\ x \in Scrolls(u) /\ u.region = h.t.region
  BY <1>2 DEF Regions, Scrolls
<1>6. \A v \in Window : Agreed(h.q, v, IF v = w THEN h.t ELSE tracker[v])
  BY DEF Good
<1>7. r \in Seq(Valid) /\ \A v \in Window : Agreed(r, v, IF v = w THEN u ELSE tracker[v])
  BY <1>1, <1>5, <1>6, CallAgreed
<1> HIDE DEF r
<1>8. [t |-> u, q |-> r] \in Hand
  BY <1>7 DEF Hand
<1> QED BY <1>4, <1>7, <1>8 DEF Good, r

\* What can be read of an accessible.
LEMMA ReadFacts ==
  ASSUME kate \in [Window -> Kate], NEW t \in Tracker
  PROVE  /\ HasScrollbar(t.scrollbar) => kate[t.scrollbar].offset \in Offset
         /\ HasChar(t.editor) => kate[t.editor].offset \in TopOffset
         /\ HasEditor(t.editor) => kate[t.editor].geometry \in Geometry
         /\ Measure(t) \in Delta \cup {None}
<1>1. \A w \in Window : kate[w].offset \in Offset /\ kate[w].geometry \in Geometry
  BY DEF Kate
<1>2. /\ HasScrollbar(t.scrollbar) => t.scrollbar \in Window
      /\ HasEditor(t.editor) => t.editor \in Window
  BY DEF HasScrollbar, HasEditor, Managed
<1>3. HasChar(t.editor) => HasEditor(t.editor) /\ kate[t.editor].offset \in TopOffset
  BY DEF HasChar
<1>4. t.sbBase \in Offset \cup {None} /\ t.charBase \in TopOffset \cup {None}
  BY DEF Tracker
<1>5. TopOffset \subseteq Offset
  BY KateAssumption
<1>6. Measure(t) \in Delta \cup {None}
  BY <1>1, <1>2, <1>3, <1>4, <1>5 DEF Measure, Delta
<1> QED BY <1>1, <1>2, <1>3, <1>6

\* The baselines are taken once: over ink there is one already.
LEMMA BaselineGood ==
  ASSUME kate \in [Window -> Kate], origin \in [Window -> Int \cup {None}],
         NEW w \in Window, NEW h, Good(h, w)
  PROVE  Good(_captureBaseline(h), w) /\ Waits(h.t, _captureBaseline(h).t)
<1> DEFINE t == h.t
           c == IF t.charBase = None /\ HasChar(t.editor) THEN kate[t.editor].offset
                ELSE t.charBase
           b == IF t.sbBase = None /\ HasScrollbar(t.scrollbar)
                THEN kate[t.scrollbar].offset ELSE t.sbBase
           u == [t EXCEPT !.charBase = c, !.sbBase = b]
           g == [t |-> u, q |-> h.q]
<1>1. h \in Hand /\ t \in Tracker /\ Typed(t) /\ Anchored(w, t)
  BY DEF Good, Hand
<1>2. c \in TopOffset \cup {None} /\ b \in Offset \cup {None}
  BY <1>1, ReadFacts DEF Tracker
<1>3. _captureBaseline(h) = g
  <2> DEFINE o == [h EXCEPT !.t.charBase = c]
             p == [t EXCEPT !.charBase = c]
  <2>1. _captureBaseline(h) = [o EXCEPT !.t.sbBase = IF @ = None /\ HasScrollbar(t.scrollbar)
                                            THEN kate[t.scrollbar].offset ELSE @]
    BY DEF _captureBaseline
  <2>2. p \in Tracker /\ p.sbBase = t.sbBase
    BY <1>1, <1>2 DEF Tracker
  <2> HIDE DEF c, p
  <2>3. o \in Hand /\ o.t = p /\ o.q = h.q
    BY <1>1, <2>2 DEF Hand, p
  <2> HIDE DEF o
  <2>4. _captureBaseline(h) = [o EXCEPT !.t = [p EXCEPT !.sbBase = b]]
    BY <2>1, <2>2, <2>3
  <2> HIDE DEF b
  <2>5. [p EXCEPT !.sbBase = b] = u
    BY DEF p
  <2> HIDE DEF u
  <2>6. [o EXCEPT !.t = u] = g
    BY <2>3 DEF Hand
  <2> QED BY <2>4, <2>5, <2>6
<1>4. t.sbBase # None => b = t.sbBase
  OBVIOUS
<1> HIDE DEF c, b
<1>5. u \in Tracker
  BY <1>1, <1>2 DEF Tracker
<1>6. /\ u.scrollbar = t.scrollbar /\ u.sbBase = b /\ u.timer = t.timer
      /\ u.tries = t.tries /\ u.region = t.region /\ u.scrollY = t.scrollY
  BY <1>1 DEF Tracker
<1> HIDE DEF u, t
<1>7. Typed(u)
  BY <1>1, <1>5, <1>6 DEF Typed
<1>8. Anchored(w, u)
  <2>1. ASSUME origin[w] # None PROVE u.sbBase = origin[w]
    BY <1>1, <1>4, <1>6, <2>1 DEF Anchored
  <2> QED BY <1>1, <1>6, <2>1 DEF Anchored
<1>9. g \in Hand /\ g.t = u /\ g.q = h.q
  BY <1>1, <1>5 DEF Hand
<1>10. Good(g, w)
  BY <1>6, <1>7, <1>8, <1>9, FieldsGood DEF t
<1>11. Waits(t, u)
  BY <1>6 DEF Waits
<1> QED BY <1>3, <1>9, <1>10, <1>11 DEF t

\* Nothing is sent, or the new region.
LEMMA RegionGood ==
  ASSUME kate \in [Window -> Kate], NEW w \in Window, NEW h, Good(h, w)
  PROVE  Good(_republishRegion(h, w), w) /\ Waits(h.t, _republishRegion(h, w).t)
<1> DEFINE t == h.t
           x == kate[t.editor].geometry
           u == [t EXCEPT !.region = x]
<1>1. h \in Hand /\ t \in Tracker
  BY DEF Good, Hand
<1>2. CASE ~HasEditor(t.editor) \/ kate[w].minimized \/ x = t.region
  BY <1>2 DEF _republishRegion, Waits
<1>3. CASE ~(~HasEditor(t.editor) \/ kate[w].minimized \/ x = t.region)
  <2>1. x \in Geometry
    BY <1>1, <1>3, ReadFacts
  <2> DEFINE m == Msg("SetWindowEditorRegion", w, x)
             g == [h EXCEPT !.t.region = x]
  <2>2. _republishRegion(h, w) = [g EXCEPT !.q = Append(@, m)]
    BY <1>3 DEF _republishRegion, dbusCall, Msg
  <2> HIDE DEF x, m
  <2>3. u \in Tracker
    BY <1>1, <2>1 DEF Tracker
  <2>4. g \in Hand /\ g.t = u /\ g.q = h.q
    BY <1>1, <2>3 DEF Hand
  <2>5. Good([t |-> u, q |-> Append(h.q, m)], w)
    BY <2>1, <2>3, CallGood DEF m
  <2>6. Waits(t, u)
    BY <1>1 DEF Waits, Tracker
  <2> HIDE DEF g, u, t
  <2> DEFINE r == Append(h.q, m)
  <2>7. [g EXCEPT !.q = Append(@, m)] = [g EXCEPT !.q = r]
    BY <2>4
  <2> HIDE DEF r
  <2>8. [g EXCEPT !.q = r] = [t |-> u, q |-> r]
    BY <2>4 DEF Hand
  <2>9. [t |-> u, q |-> r].t = u
    OBVIOUS
  <2> QED BY <2>2, <2>5, <2>6, <2>7, <2>8, <2>9 DEF r, t
<1> QED BY <1>2, <1>3

\* Nothing is sent, or the new offset.
LEMMA ScrollGood ==
  ASSUME kate \in [Window -> Kate], NEW w \in Window, NEW h, Good(h, w)
  PROVE  Good(_republishScroll(h, w), w) /\ Waits(h.t, _republishScroll(h, w).t)
<1> DEFINE t == h.t
           x == Measure(t)
           u == [t EXCEPT !.scrollY = x]
<1>1. h \in Hand /\ t \in Tracker
  BY DEF Good, Hand
<1>2. CASE t.editor = None \/ x \in {None, t.scrollY}
  BY <1>2 DEF _republishScroll, Waits
<1>3. CASE ~(t.editor = None \/ x \in {None, t.scrollY})
  <2>1. x \in Delta
    BY <1>1, <1>3, ReadFacts
  <2> DEFINE m == Msg("SetWindowScroll", w, x)
             g == [h EXCEPT !.t.scrollY = x]
  <2>2. _republishScroll(h, w) = [g EXCEPT !.q = Append(@, m)]
    BY <1>3 DEF _republishScroll, dbusCall, Msg
  <2> HIDE DEF x, m
  <2>3. u \in Tracker
    BY <1>1, <2>1 DEF Tracker
  <2>4. g \in Hand /\ g.t = u /\ g.q = h.q
    BY <1>1, <2>3 DEF Hand
  <2>5. Good([t |-> u, q |-> Append(h.q, m)], w)
    BY <2>1, <2>3, CallGood DEF m
  <2>6. Waits(t, u)
    BY <1>1 DEF Waits, Tracker
  <2> HIDE DEF g, u, t
  <2> DEFINE r == Append(h.q, m)
  <2>7. [g EXCEPT !.q = Append(@, m)] = [g EXCEPT !.q = r]
    BY <2>4
  <2> HIDE DEF r
  <2>8. [g EXCEPT !.q = r] = [t |-> u, q |-> r]
    BY <2>4 DEF Hand
  <2>9. [t |-> u, q |-> r].t = u
    OBVIOUS
  <2> QED BY <2>2, <2>5, <2>6, <2>7, <2>8, <2>9 DEF r, t
<1> QED BY <1>2, <1>3

\* The tracker of a pair changes.
LEMMA HandFacts ==
  ASSUME NEW h \in Hand
  PROVE  /\ h.t \in Tracker /\ h.q \in Seq(Valid)
         /\ \A u \in Tracker : /\ [h EXCEPT !.t = u] \in Hand
                               /\ [h EXCEPT !.t = u].t = u /\ [h EXCEPT !.t = u].q = h.q
<1>1. h.t \in Tracker /\ h.q \in Seq(Valid)
  BY DEF Hand
<1>2. ASSUME NEW u \in Tracker
      PROVE  /\ [h EXCEPT !.t = u] \in Hand
             /\ [h EXCEPT !.t = u].t = u /\ [h EXCEPT !.t = u].q = h.q
  BY <1>2 DEF Hand
<1> QED BY <1>1, <1>2

\* A scrollbar of the process: of a window that is alone, its own.
LEMMA ScrollbarGood ==
  ASSUME NEW w \in Window, NEW h, Good(h, w), NEW g \in Hand, g.q = h.q,
         Waits(h.t, g.t), g.t.region = h.t.region, g.t.scrollY = h.t.scrollY,
         g.t.sbBase = h.t.sbBase,
         NEW s \in Siblings(w) \cup {None}, s # None => HasScrollbar(s),
         g.t.scrollbar = IF s = None THEN h.t.scrollbar ELSE s
  PROVE  Good(g, w)
<1>1. g.t \in Tracker /\ Typed(h.t) /\ Anchored(w, h.t)
  BY HandFacts DEF Good
<1>2. Typed(g.t)
  BY <1>1 DEF Typed, Waits
<1>3. g.t.scrollbar = w => HasScrollbar(w)
  BY <1>1 DEF Anchored
<1>4. ASSUME origin[w] # None
      PROVE  Alone(w) /\ w \in Tracked /\ g.t.scrollbar = w /\ g.t.sbBase = origin[w]
  <2>1. Alone(w) /\ w \in Tracked /\ h.t.scrollbar = w /\ h.t.sbBase = origin[w]
    BY <1>1, <1>4 DEF Anchored
  <2>2. CASE s = None
    BY <2>1, <2>2
  <2>3. CASE s # None
    <3>1. s \in Siblings(w) \cap Managed
      BY <2>3 DEF HasScrollbar
    <3>2. s = w
      BY <2>1, <3>1 DEF Alone
    <3> QED BY <2>1, <2>3, <3>2
  <2> QED BY <2>2, <2>3
<1>5. Anchored(w, g.t)
  BY <1>3, <1>4 DEF Anchored
<1> QED BY <1>2, <1>5, FieldsGood

\* An attempt to discover.
LEMMA DiscoverGood ==
  ASSUME kate \in [Window -> Kate], origin \in [Window -> Int \cup {None}],
         NEW w \in Window, NEW h, Good(h, w), NEW e \in Window \cup {None},
         NEW s \in Siblings(w) \cup {None}, s # None => HasScrollbar(s)
  PROVE  /\ Good(_tryDiscover(h, w, e, s), w)
         /\ Waits(h.t, _tryDiscover(h, w, e, s).t)
<1> DEFINE t == h.t
           x == IF e = None THEN t.editor ELSE e
           y == IF s = None THEN t.scrollbar ELSE s
           p == [t EXCEPT !.editor = x]
           u == [p EXCEPT !.scrollbar = y]
           found == [h EXCEPT !.t.editor = IF e = None THEN @ ELSE e,
                              !.t.scrollbar = IF s = None THEN @ ELSE s]
           base == _captureBaseline(found)
           placed == _republishRegion(base, w)
           told == _republishScroll(placed, w)
           last == [told EXCEPT !.t.seen = None, !.t.poll = TRUE]
<1>1. h \in Hand /\ t \in Tracker /\ Typed(t)
  BY HandFacts DEF Good
<1>2. x \in Window \cup {None} /\ y \in Window \cup {None}
  BY <1>1 DEF Tracker, Siblings
<1>3. found \in Hand /\ found.t = u /\ found.q = h.q
  <2> DEFINE g == [h EXCEPT !.t = p]
  <2>1. found = [g EXCEPT !.t.scrollbar = IF s = None THEN @ ELSE s]
    OBVIOUS
  <2> HIDE DEF x
  <2>2. p \in Tracker /\ p.scrollbar = t.scrollbar
    BY <1>1, <1>2 DEF Tracker
  <2> HIDE DEF p
  <2>3. g \in Hand /\ g.t = p /\ g.q = h.q
    BY <1>1, <2>2, HandFacts
  <2> HIDE DEF g, found
  <2>4. found = [g EXCEPT !.t = u]
    BY <2>1, <2>2, <2>3
  <2> HIDE DEF y
  <2>5. u \in Tracker
    BY <1>2, <2>2 DEF Tracker
  <2> HIDE DEF u
  <2> QED BY <2>3, <2>4, <2>5, HandFacts
<1>4. /\ u.scrollbar = y /\ u.sbBase = t.sbBase /\ u.timer = t.timer
      /\ u.tries = t.tries /\ u.region = t.region /\ u.scrollY = t.scrollY
  <2> HIDE DEF x, y
  <2> QED BY <1>1 DEF Tracker
<1> HIDE DEF p, u, found, x
<1>5. Waits(t, found.t)
  BY <1>3, <1>4 DEF Waits
<1>6. Good(found, w)
  BY <1>3, <1>4, <1>5, ScrollbarGood
<1>7. Good(base, w) /\ Waits(found.t, base.t)
  BY <1>6, BaselineGood
<1> HIDE DEF base
<1>8. Good(placed, w) /\ Waits(base.t, placed.t)
  BY <1>7, RegionGood
<1> HIDE DEF placed
<1>9. Good(told, w) /\ Waits(placed.t, told.t)
  BY <1>8, ScrollGood
<1> HIDE DEF told
<1>10. Good(last, w) /\ Waits(told.t, last.t)
  <2> DEFINE a == told.t
             b == [a EXCEPT !.seen = None]
             c == [b EXCEPT !.poll = TRUE]
             g == [told EXCEPT !.t = b]
  <2>1. last = [g EXCEPT !.t.poll = TRUE]
    OBVIOUS
  <2>2. told \in Hand /\ a \in Tracker /\ Typed(a) /\ Anchored(w, a)
    BY <1>9, HandFacts DEF Good
  <2>3. b \in Tracker /\ c \in Tracker
    BY <2>2 DEF Tracker
  <2>4. /\ c.scrollbar = a.scrollbar /\ c.sbBase = a.sbBase /\ c.timer = a.timer
        /\ c.tries = a.tries /\ c.region = a.region /\ c.scrollY = a.scrollY
    BY <2>2 DEF Tracker
  <2> HIDE DEF a, b
  <2>5. g \in Hand /\ g.t = b /\ g.q = told.q
    BY <2>2, <2>3, HandFacts
  <2> HIDE DEF g, last
  <2>6. last = [g EXCEPT !.t = c]
    BY <2>1, <2>5
  <2> HIDE DEF c
  <2>7. last \in Hand /\ last.t = c /\ last.q = told.q
    BY <2>3, <2>5, <2>6, HandFacts
  <2>8. Typed(c) /\ Anchored(w, c) /\ Waits(a, c)
    BY <2>2, <2>3, <2>4 DEF Typed, Anchored, Waits
  <2> QED BY <1>9, <2>4, <2>7, <2>8, FieldsGood DEF a
<1> HIDE DEF last
<1>11. _tryDiscover(h, w, e, s) = IF found.t.editor = None THEN found ELSE last
  BY DEF _tryDiscover, found, base, placed, told, last
<1>12. Waits(t, last.t)
  BY <1>5, <1>7, <1>8, <1>9, <1>10 DEF Waits
<1> QED BY <1>5, <1>6, <1>10, <1>11, <1>12

\* value-changed of a scrollbar of the process.
LEMMA ValueGood ==
  ASSUME kate \in [Window -> Kate], NEW w \in Window, NEW h, Good(h, w),
         NEW s \in Siblings(w), HasScrollbar(s)
  PROVE  Good(handleValueChanged(h, w, s), w)
<1> DEFINE t == h.t
           u == [t EXCEPT !.scrollbar = s]
           g == [h EXCEPT !.t.scrollbar = s]
<1>1. h \in Hand /\ t \in Tracker
  BY HandFacts DEF Good
<1>2. u \in Tracker
  BY <1>1 DEF Tracker, Siblings
<1>3. /\ u.scrollbar = s /\ u.sbBase = t.sbBase /\ u.timer = t.timer
      /\ u.tries = t.tries /\ u.region = t.region /\ u.scrollY = t.scrollY
  BY <1>1 DEF Tracker, Siblings
<1>4. s # None
  BY DEF HasScrollbar
<1>5. g = [h EXCEPT !.t = u]
  OBVIOUS
<1> HIDE DEF g, u
<1>6. g \in Hand /\ g.t = u /\ g.q = h.q
  BY <1>1, <1>2, <1>5, HandFacts
<1>7. Good(g, w)
  BY <1>3, <1>4, <1>6, ScrollbarGood DEF Waits
<1> QED BY <1>7, ScrollGood DEF handleValueChanged, g

\* bounds-changed.
LEMMA BoundsGood ==
  ASSUME kate \in [Window -> Kate], origin \in [Window -> Int \cup {None}],
         NEW w \in Tracked, w \in Window, NEW h, Good(h, w), NEW own \in BOOLEAN
  PROVE  Good(handleBoundsChanged(h, w, own), w)
<1>1. CASE own
  <2> DEFINE t == h.t
             u == [t EXCEPT !.region = None]
             g == [h EXCEPT !.t.region = None]
  <2>1. h \in Hand /\ t \in Tracker /\ Typed(t) /\ Anchored(w, t)
    BY HandFacts DEF Good
  <2>2. u \in Tracker
    BY <2>1 DEF Tracker
  <2>3. /\ u.scrollbar = t.scrollbar /\ u.sbBase = t.sbBase /\ u.timer = t.timer
        /\ u.tries = t.tries /\ u.region = None /\ u.scrollY = t.scrollY
    BY <2>1 DEF Tracker
  <2>4. g = [h EXCEPT !.t = u]
    OBVIOUS
  <2> HIDE DEF g, u
  <2>5. g \in Hand /\ g.t = u /\ g.q = h.q
    BY <2>1, <2>2, <2>4, HandFacts
  <2>6. Typed(u) /\ Anchored(w, u)
    BY <2>1, <2>2, <2>3 DEF Typed, Anchored
  <2>7. Good(g, w)
    BY <2>3, <2>5, <2>6, FieldsGood
  <2>8. handleBoundsChanged(h, w, own) = _republishRegion(g, w)
    BY <1>1 DEF handleBoundsChanged, g
  <2> QED BY <2>7, <2>8, RegionGood
<1>2. CASE ~own
  <2> DEFINE g == IF h.t.charBase = None THEN _captureBaseline(h) ELSE h
  <2>1. Good(g, w)
    BY BaselineGood
  <2> HIDE DEF g
  <2>2. handleBoundsChanged(h, w, own) = _republishScroll(g, w)
    BY <1>2 DEF handleBoundsChanged, g
  <2> QED BY <2>1, <2>2, ScrollGood
<1> QED BY <1>1, <1>2

-----------------------------------------------------------------------------
(* Callbacks of the trackers                                               *)

\* A tracked window's pair is good when its callback starts.
LEMMA HandlerGood ==
  ASSUME KateInv, NEW w \in Tracked
  PROVE  /\ w \in Window /\ Good(Handler(w), w)
         /\ Handler(w).t = tracker[w] /\ Handler(w).q = calls /\ Handler(w) \in Hand
<1>1. w \in Window
  BY ElementOfSeq, LenProperties DEF KateInv, Mapped, Tracked
<1>2. Handler(w).t = tracker[w] /\ Handler(w).q = calls
  BY DEF Handler
<1>3. Handler(w) \in Hand
  BY <1>1 DEF Handler, Hand, KateInv
<1>4. /\ Typed(tracker[w]) /\ Anchored(w, tracker[w])
      /\ \A v \in Window : Agreed(calls, v, tracker[v])
  BY <1>1 DEF KateInv
<1>5. \A v \in Window : Agreed(calls, v, IF v = w THEN tracker[w] ELSE tracker[v])
  BY <1>4
<1> QED BY <1>1, <1>2, <1>3, <1>4, <1>5 DEF Good

\* It keeps the invariant if the pair that it leaves is good.
LEMMA RunsKeeps ==
  ASSUME KateInv, NEW w \in Tracked, NEW h, Good(h, w), Runs(w, h)
  PROVE  KateInv'
<1>1. w \in Window
  BY HandlerGood
<1>2. h.t \in Tracker /\ h.q \in Seq(Valid) /\ Typed(h.t) /\ Anchored(w, h.t)
  BY HandFacts DEF Good
<1>3. /\ tracker' = [tracker EXCEPT ![w] = h.t] /\ calls' = h.q
      /\ UNCHANGED <<kate, trackers, up, comp, astray, origin>>
  BY DEF Runs
<1>4. tracker' \in [Window -> Tracker] /\ calls' \in Seq(Valid) /\ tracker'[w] = h.t
      /\ \A v \in Window \ {w} : tracker'[v] = tracker[v]
  BY <1>1, <1>2, <1>3 DEF KateInv
<1>5. Tracked' = Tracked /\ Managed' = Managed
  BY <1>3 DEF Tracked, Managed
<1>6. Mapped'
  BY <1>3, <1>5 DEF KateInv, Mapped
<1>7. ASSUME NEW v \in Window
      PROVE  /\ Typed(tracker[v])' /\ Agreed(calls, v, tracker[v])'
             /\ Anchored(v, tracker[v])'
             /\ v \notin Tracked' => tracker'[v] = NewTracker
             /\ v \notin Managed' => comp'.region[v] = None
  <2> DEFINE t == IF v = w THEN h.t ELSE tracker[v]
  <2>1. tracker'[v] = t
    BY <1>4
  <2>2. Typed(t) /\ Anchored(v, t) /\ Agreed(h.q, v, t)
    BY <1>2 DEF Good, KateInv
  <2>3. v \notin Tracked => tracker'[v] = NewTracker
    BY <1>4 DEF KateInv
  <2>4. v \notin Managed => comp.region[v] = None
    BY DEF KateInv
  <2> HIDE DEF t
  <2>5. Typed(tracker[v])'
    BY <2>1, <2>2 DEF Typed
  <2>6. HasScrollbar(v)' <=> HasScrollbar(v)
    BY <1>3, <1>5 DEF HasScrollbar
  <2>7. Alone(v)' <=> Alone(v)
    BY <1>5 DEF Alone, Siblings
  <2>8. Anchored(v, tracker[v])'
    BY <1>3, <1>5, <2>1, <2>2, <2>6, <2>7 DEF Anchored
  <2>9. Agreed(calls, v, tracker[v])'
    BY <1>3, <1>5, <2>1, <2>2 DEF Agreed, InForce, Regions, Scrolls
  <2> QED BY <1>3, <1>5, <2>3, <2>4, <2>5, <2>8, <2>9
<1> QED BY <1>3, <1>4, <1>6, <1>7 DEF KateInv

LEMMA DiscoverKeeps ==
  ASSUME KateInv, NEW w \in Window, Discover(w)
  PROVE  KateInv'
<1>1. w \in Tracked /\ tracker[w].timer
  BY DEF Discover
<1>2. PICK f \in Found(w) :
        LET h == _tryDiscover(Handler(w), w, f[1], f[2])
            tries == h.t.tries + 1
            done == Exhausted(tries) \/ (h.t.editor # None /\ h.t.scrollbar # None)
        IN Runs(w, [h EXCEPT !.t.tries = tries, !.t.timer = ~done])
  BY DEF Discover
<1>3. /\ f[1] \in Window \cup {None} /\ f[2] \in Siblings(w) \cup {None}
      /\ f[2] # None => HasScrollbar(f[2])
  <2>1. CASE f = <<None, None>>
    BY <2>1
  <2>2. ASSUME NEW e \in Siblings(w), NEW s, f = <<e, s>>,
               s = None \/ (s \in Siblings(w) /\ HasScrollbar(s))
        PROVE  /\ f[1] \in Window \cup {None} /\ f[2] \in Siblings(w) \cup {None}
               /\ f[2] # None => HasScrollbar(f[2])
    BY <2>2 DEF Siblings
  <2>3. f = <<None, None>> \/ \E e \in Siblings(w) : \E s :
          f = <<e, s>> /\ (s = None \/ (s \in Siblings(w) /\ HasScrollbar(s)))
    BY DEF Found
  <2> QED BY <2>1, <2>2, <2>3
<1> DEFINE h == _tryDiscover(Handler(w), w, f[1], f[2])
           k == h.t.tries + 1
           b == ~(Exhausted(k) \/ (h.t.editor # None /\ h.t.scrollbar # None))
           p == [h.t EXCEPT !.tries = k]
           u == [p EXCEPT !.timer = b]
           g == [h EXCEPT !.t.tries = k]
           r == [h EXCEPT !.t.tries = k, !.t.timer = b]
<1>4. Runs(w, r)
  BY <1>2
<1>5. Good(Handler(w), w) /\ Handler(w).t = tracker[w] /\ Typed(tracker[w])
  BY <1>1, HandlerGood DEF KateInv
<1>6. Good(h, w) /\ Waits(tracker[w], h.t)
  BY <1>3, <1>5, DiscoverGood DEF KateInv
<1>7. h \in Hand /\ h.t \in Tracker /\ Anchored(w, h.t)
  BY <1>6, HandFacts DEF Good
<1>8. b \in BOOLEAN /\ (b => ~Exhausted(k))
  OBVIOUS
<1>9. r = [g EXCEPT !.t.timer = b]
  OBVIOUS
<1> HIDE DEF h, b
<1>10. k \in 0 .. MaxRetry /\ (b => k < MaxRetry)
  <2>1. h.t.tries \in 0 .. MaxRetry /\ h.t.tries < MaxRetry /\ MaxRetry \in Nat
    BY <1>1, <1>5, <1>6, <1>7, KateAssumption DEF Waits, Typed, Tracker
  <2> QED BY <1>8, <2>1 DEF Exhausted
<1> HIDE DEF k
<1>11. p \in Tracker /\ u \in Tracker
  <2>1. p \in Tracker
    BY <1>7, <1>10 DEF Tracker
  <2> HIDE DEF p
  <2> QED BY <1>8, <2>1 DEF Tracker
<1>12. /\ u.scrollbar = h.t.scrollbar /\ u.sbBase = h.t.sbBase /\ u.timer = b
       /\ u.tries = k /\ u.region = h.t.region /\ u.scrollY = h.t.scrollY
  BY <1>7 DEF Tracker
<1> HIDE DEF p
<1>13. g \in Hand /\ g.t = p /\ g.q = h.q
  BY <1>7, <1>11, HandFacts DEF p
<1> HIDE DEF g, r
<1>14. r = [g EXCEPT !.t = u]
  BY <1>9, <1>13
<1> HIDE DEF u
<1>15. r \in Hand /\ r.t = u /\ r.q = h.q
  BY <1>11, <1>13, <1>14, HandFacts
<1>16. Typed(u) /\ Anchored(w, u)
  BY <1>7, <1>10, <1>11, <1>12 DEF Typed, Anchored
<1>17. Good(r, w)
  BY <1>6, <1>12, <1>15, <1>16, FieldsGood
<1> QED BY <1>1, <1>4, <1>17, RunsKeeps

LEMMA PollKeeps ==
  ASSUME KateInv, NEW w \in Window, Poll(w)
  PROVE  KateInv'
<1> DEFINE t == tracker[w]
           cur == kate[t.scrollbar].offset
           u == [t EXCEPT !.seen = cur]
           h == [Handler(w) EXCEPT !.t.seen = cur]
           g == IF t.sbBase = None THEN _captureBaseline(h) ELSE h
<1>1. w \in Tracked /\ HasScrollbar(t.scrollbar) /\ Runs(w, _republishScroll(g, w))
  BY DEF Poll
<1>2. /\ Good(Handler(w), w) /\ Handler(w) \in Hand /\ Handler(w).t = t
      /\ t \in Tracker /\ Typed(t) /\ Anchored(w, t)
  BY <1>1, HandlerGood DEF KateInv
<1>3. cur \in Offset
  BY <1>1, <1>2, ReadFacts DEF KateInv
<1> HIDE DEF cur
<1>4. u \in Tracker
  BY <1>2, <1>3 DEF Tracker
<1>5. /\ u.scrollbar = t.scrollbar /\ u.sbBase = t.sbBase /\ u.timer = t.timer
      /\ u.tries = t.tries /\ u.region = t.region /\ u.scrollY = t.scrollY
  BY <1>2 DEF Tracker
<1>6. h = [Handler(w) EXCEPT !.t = u]
  BY <1>2
<1> HIDE DEF h, u
<1>7. h \in Hand /\ h.t = u /\ h.q = Handler(w).q
  BY <1>2, <1>4, <1>6, HandFacts
<1>8. Typed(u) /\ Anchored(w, u)
  BY <1>2, <1>4, <1>5 DEF Typed, Anchored
<1>9. Good(h, w)
  BY <1>2, <1>5, <1>7, <1>8, FieldsGood
<1>10. Good(g, w)
  BY <1>9, BaselineGood DEF KateInv
<1> HIDE DEF g
<1>11. Good(_republishScroll(g, w), w)
  BY <1>10, ScrollGood DEF KateInv
<1> QED BY <1>1, <1>11, RunsKeeps

LEMMA FrameKeeps ==
  ASSUME KateInv, NEW w \in Window, FrameChanged(w)
  PROVE  KateInv'
<1>1. w \in Tracked /\ Runs(w, _republishRegion(Handler(w), w))
  BY DEF FrameChanged
<1>2. Good(_republishRegion(Handler(w), w), w)
  BY <1>1, HandlerGood, RegionGood DEF KateInv
<1> QED BY <1>1, <1>2, RunsKeeps

LEMMA ValueKeeps ==
  ASSUME KateInv, NEW s \in Window, ValueChanged(s)
  PROVE  KateInv'
<1>1. PICK w \in Window : /\ w \in Tracked \cap Siblings(s)
                          /\ Runs(w, handleValueChanged(Handler(w), w, s))
  BY DEF ValueChanged, Takes
<1>2. s \in Siblings(w) /\ HasScrollbar(s)
  BY <1>1 DEF Siblings, ValueChanged
<1>3. Good(handleValueChanged(Handler(w), w, s), w)
  BY <1>1, <1>2, HandlerGood, ValueGood DEF KateInv
<1> QED BY <1>1, <1>3, RunsKeeps

LEMMA BoundsKeeps ==
  ASSUME KateInv, NEW e \in Window, NEW editor \in BOOLEAN, BoundsChanged(e, editor)
  PROVE  KateInv'
<1>1. PICK w \in Window :
        /\ w \in Tracked
        /\ Runs(w, handleBoundsChanged(Handler(w), w, editor /\ tracker[w].editor = e))
  BY DEF BoundsChanged, Takes
<1> DEFINE own == editor /\ tracker[w].editor = e
<1>2. own \in BOOLEAN
  OBVIOUS
<1> HIDE DEF own
<1>3. Good(handleBoundsChanged(Handler(w), w, own), w)
  BY <1>1, <1>2, HandlerGood, BoundsGood DEF KateInv
<1> QED BY <1>1, <1>3, RunsKeeps DEF own

-----------------------------------------------------------------------------
(* The Map of trackers                                                     *)

\* A tracker is deleted from it.
LEMMA DeleteFacts ==
  ASSUME NEW S, NEW s \in Seq(S), NEW i \in 1 .. Len(s),
         \A j, k \in 1 .. Len(s) : s[j] = s[k] => j = k
  PROVE  LET r == RemoveAt(s, i)
         IN /\ r \in Seq(S)
            /\ \A j, k \in 1 .. Len(r) : r[j] = r[k] => j = k
            /\ {r[j] : j \in 1 .. Len(r)} = {s[j] : j \in 1 .. Len(s)} \ {s[i]}
<1> DEFINE l == Len(s)
           p == i + 1
           a == SubSeq(s, 1, i - 1)
           b == SubSeq(s, p, l)
           r == a \o b
<1>1. l \in Nat /\ i \in Nat \ {0} /\ i <= l /\ \A j \in 1 .. l : s[j] \in S
  BY LenProperties, ElementOfSeq
<1> HIDE DEF l
<1>2. a \in Seq(S) /\ Len(a) = i - 1 /\ \A j \in 1 .. i - 1 : a[j] = s[j]
  <2>1. /\ 1 \in Int /\ i - 1 \in Int /\ \A j \in 1 .. i - 1 : s[j] \in S
        /\ (i - 1) - 1 + 1 = i - 1 /\ \A j \in Int : 1 + j - 1 = j
        /\ (IF 1 <= i - 1 THEN (i - 1) - 1 + 1 ELSE 0) = i - 1
    BY <1>1
  <2>2. /\ a \in Seq(S) /\ Len(a) = IF 1 <= i - 1 THEN (i - 1) - 1 + 1 ELSE 0
        /\ \A j \in 1 .. (i - 1) - 1 + 1 : a[j] = s[1 + j - 1]
    BY <2>1, SubSeqProperties
  <2> HIDE DEF a
  <2> QED BY <2>1, <2>2
<1>3. b \in Seq(S) /\ Len(b) = l - i /\ \A j \in 1 .. l - i : b[j] = s[i + j]
  <2>1. p \in Int /\ l \in Int /\ p = i + 1 /\ \A j \in p .. l : s[j] \in S
    BY <1>1
  <2> HIDE DEF p
  <2>2. /\ b \in Seq(S) /\ Len(b) = IF p <= l THEN l - p + 1 ELSE 0
        /\ \A j \in 1 .. l - p + 1 : b[j] = s[p + j - 1]
    BY <2>1, SubSeqProperties
  <2> HIDE DEF b
  <2>3. Len(b) = l - i
    BY <1>1, <2>1, <2>2
  <2>4. ASSUME NEW j \in 1 .. l - i PROVE b[j] = s[i + j]
    <3>1. j \in 1 .. l - p + 1 /\ p + j - 1 = i + j
      BY <1>1, <2>1
    <3>2. b[j] = s[p + j - 1]
      BY <2>2, <3>1
    <3> QED BY <3>1, <3>2
  <2> QED BY <2>2, <2>3, <2>4
<1> HIDE DEF a, b
<1>4. /\ r \in Seq(S) /\ Len(r) = l - 1
      /\ \A j \in 1 .. l - 1 : r[j] = IF j <= i - 1 THEN a[j] ELSE b[j - (i - 1)]
  <2>1. (i - 1) + (l - i) = l - 1
    BY <1>1
  <2> QED BY <1>2, <1>3, <2>1, ConcatProperties
<1> HIDE DEF r
<1> DEFINE at(j) == IF j <= i - 1 THEN j ELSE j + 1
<1>5. \A j \in 1 .. l - 1 : /\ at(j) \in (1 .. l) \ {i} /\ r[j] = s[at(j)]
                            /\ \A k \in 1 .. l - 1 : at(j) = at(k) => j = k
  <2>1. \A j \in 1 .. l - 1 : j <= i - 1 => r[j] = s[j]
    BY <1>1, <1>2, <1>4
  <2>2. ASSUME NEW j \in 1 .. l - 1, ~(j <= i - 1) PROVE r[j] = s[j + 1]
    <3>1. j - (i - 1) \in 1 .. l - i /\ i + (j - (i - 1)) = j + 1
      BY <1>1, <2>2
    <3> QED BY <1>3, <1>4, <2>2, <3>1
  <2> QED BY <1>1, <2>1, <2>2
<1>6. \A j \in (1 .. l) \ {i} : \E k \in 1 .. l - 1 : at(k) = j
  <2> SUFFICES ASSUME NEW j \in (1 .. l) \ {i} PROVE \E k \in 1 .. l - 1 : at(k) = j
    OBVIOUS
  <2>1. CASE j < i
    <3>1. j \in 1 .. l - 1 /\ at(j) = j
      BY <1>1, <2>1
    <3> QED BY <3>1
  <2>2. CASE j > i
    <3>1. j - 1 \in 1 .. l - 1 /\ at(j - 1) = j
      BY <1>1, <2>2
    <3> QED BY <3>1
  <2> QED BY <1>1, <2>1, <2>2
<1> HIDE DEF at
<1>7. \A j, k \in 1 .. l - 1 : r[j] = r[k] => j = k
  BY <1>5 DEF l
<1>8. {r[j] : j \in 1 .. l - 1} = {s[j] : j \in 1 .. l} \ {s[i]}
  <2>1. \A j \in 1 .. l : s[j] = s[i] => j = i
    BY DEF l
  <2>2. \A j \in 1 .. l - 1 : r[j] \in {s[k] : k \in 1 .. l} \ {s[i]}
    BY <1>5, <2>1
  <2>3. \A j \in (1 .. l) \ {i} : \E k \in 1 .. l - 1 : r[k] = s[j]
    BY <1>5, <1>6
  <2> QED BY <2>2, <2>3
<1> QED BY <1>4, <1>7, <1>8 DEF RemoveAt, r, a, b, p, l

\* The calls of the trackers that are destroyed.
LEMMA DestroyFacts ==
  ASSUME NEW q \in Seq(Valid), NEW T \in Seq(Window), NEW v
  PROVE  LET r == destroy(q, T)
             G == {T[i] : i \in 1 .. Len(T)}
         IN /\ r \in Seq(Valid)
            /\ Silent(r, "SetWindowScroll", v) <=> Silent(q, "SetWindowScroll", v)
            /\ Silent(r, "SetWindowEditorRegion", v) <=>
                 Silent(q, "SetWindowEditorRegion", v) /\ v \notin G
            /\ \A V : /\ LastSays(q, "SetWindowScroll", v, V)
                           => LastSays(r, "SetWindowScroll", v, V)
                      /\ /\ v \in G => None \in V
                         /\ v \notin G => LastSays(q, "SetWindowEditorRegion", v, V)
                         => LastSays(r, "SetWindowEditorRegion", v, V)
<1> DEFINE k == Len(T)
           R == "SetWindowEditorRegion"
           N == "SetWindowScroll"
           d == [i \in 1 .. k |-> Msg(R, T[i], None)]
           G == {T[i] : i \in 1 .. k}
<1>0. R = "SetWindowEditorRegion" /\ N # R
  OBVIOUS
<1>1. k \in Nat /\ DOMAIN T = 1 .. k /\ \A i \in 1 .. k : T[i] \in Window
  BY LenProperties, ElementOfSeq
<1>2. destroy(q, T) = q \o d
  BY <1>1 DEF destroy, Msg
<1> HIDE DEF R, N
<1>3. \A i \in 1 .. k :
        /\ Msg(R, T[i], None) \in Valid /\ Msg(R, T[i], None).value = None
        /\ \A n : Own(Msg(R, T[i], None), n, v) <=> n = R /\ v = T[i]
  <2>1. ASSUME NEW w \in Window
        PROVE  /\ Msg(R, w, None) \in Valid /\ Msg(R, w, None).value = None
               /\ \A n : Own(Msg(R, w, None), n, v) <=> n = R /\ v = w
    <3> DEFINE m == Msg(R, w, None)
    <3>1. m.name = R /\ m.from = w /\ m.value = None
      BY DEF Msg
    <3>2. m \in Call
      BY <1>0 DEF Msg, Call
    <3> HIDE DEF m
    <3>3. m \in Valid
      BY <1>0, <3>1, <3>2 DEF Valid, Valued
    <3> QED BY <3>1, <3>3 DEF Own, m
  <2> QED BY <1>1, <2>1
<1>4. d \in [1 .. k -> Valid]
  BY <1>3
<1>5. \A i \in 1 .. k : /\ d[i].value = None
                        /\ \A n : Own(d[i], n, v) <=> n = R /\ v = T[i]
  BY <1>3
<1> HIDE DEF d
<1>6. d \in Seq(Valid) /\ Len(d) = k
  <2>1. d \in Seq(Valid)
    BY <1>1, <1>4, SeqDef
  <2>2. DOMAIN d = 1 .. k /\ DOMAIN d = 1 .. Len(d) /\ Len(d) \in Nat
    BY <1>4, <2>1, LenProperties
  <2>3. (k # 0 => k \in 1 .. k) /\ (Len(d) # 0 => Len(d) \in 1 .. Len(d))
    BY <1>1, <2>2
  <2> HIDE DEF k
  <2> QED BY <1>1, <2>1, <2>2, <2>3
<1> HIDE DEF k
<1>7. Silent(d, N, v) /\ (Silent(d, R, v) <=> v \notin G)
  BY <1>0, <1>5, <1>6 DEF Silent
<1>8. \A n : Silent(q \o d, n, v) <=> Silent(q, n, v) /\ Silent(d, n, v)
  BY <1>6, ConcatFacts
<1>9. ASSUME NEW V, LastSays(q, N, v, V)
      PROVE  LastSays(q \o d, N, v, V)
  <2>1. \A i \in 1 .. Len(d) : Own(d[i], N, v) => d[i].value \in V
    BY <1>0, <1>5, <1>6
  <2> QED BY <1>6, <1>9, <2>1, ConcatFacts
<1>10. ASSUME NEW V, v \in G => None \in V, v \notin G => LastSays(q, R, v, V)
       PROVE  LastSays(q \o d, R, v, V)
  <2>1. \A i \in 1 .. Len(d) : Own(d[i], R, v) => d[i].value \in V
    BY <1>5, <1>6, <1>10
  <2> QED BY <1>6, <1>7, <1>10, <2>1, ConcatFacts
<1> QED BY <1>2, <1>6, <1>7, <1>8, <1>9, <1>10, ConcatFacts DEF k, R, N

-----------------------------------------------------------------------------
(* The manager, and windows                                                *)

\* Nothing is sent or served, and a tracker may only be added.
LEMMA AgreedStays ==
  ASSUME NEW v \in Window, Agreed(calls, v, tracker[v]), UNCHANGED <<calls, comp, astray>>,
         tracker'[v] = tracker[v], v \in Tracked => v \in Tracked'
  PROVE  Agreed(calls, v, tracker[v])'
<1> DEFINE V == Regions(v, tracker[v])
           W == Regions(v, tracker[v])'
<1>1. V \subseteq W
  BY DEF Regions
<1>2. Scrolls(tracker[v])' = Scrolls(tracker[v])
  BY DEF Scrolls
<1> HIDE DEF V, W
<1>3. InForce(calls, "SetWindowEditorRegion", v, comp.region[v], V)
  BY DEF Agreed, V
<1>4. InForce(calls, "SetWindowEditorRegion", v, comp.region[v], W)
  BY <1>1, <1>3 DEF InForce, LastSays
<1> QED BY <1>2, <1>4 DEF Agreed, InForce, W

LEMMA AnchoredStays ==
  ASSUME NEW v \in Window, Anchored(v, tracker[v]), tracker'[v] = tracker[v],
         v \in Tracked => v \in Tracked', HasScrollbar(v) => HasScrollbar(v)',
         origin'[v] # None => origin'[v] = origin[v] /\ (Alone(v) => Alone(v)')
  PROVE  Anchored(v, tracker[v])'
  BY DEF Anchored

\* The trackers are those of all windows, in some order.
LEMMA EnableKeeps ==
  ASSUME KateInv, Enable
  PROVE  KateInv'
<1> DEFINE n == Cardinality(Managed)
<1>1. trackers = <<>> /\ Tracked = {}
  <2>1. trackers = <<>>
    BY DEF KateInv, Mapped, Enable
  <2>2. DOMAIN trackers = {}
    BY <2>1
  <2> QED BY <2>1, <2>2 DEF Tracked
<1>2. PICK order \in [1 .. n -> Managed] :
        (\A w \in Managed : \E i \in DOMAIN order : order[i] = w) /\ trackers' = order
  BY DEF Enable
<1>3. /\ up' = TRUE /\ UNCHANGED <<kate, tracker, calls, comp, astray, origin>>
      /\ Managed' = Managed
  BY DEF Enable, Managed
<1>4. n \in Nat /\ IsFiniteSet(Managed) /\ Managed \subseteq Window
  BY FS_CardinalityType DEF KateInv, Mapped, Managed
<1> HIDE DEF n
<1>5. order \in Surjection(1 .. n, Managed)
  BY <1>2 DEF Surjection
<1>6. IsFiniteSet(1 .. n) /\ Cardinality(1 .. n) = n
  <2>1. /\ IsFiniteSet(1 .. n)
        /\ Cardinality(1 .. n) = IF 1 > n THEN 0 ELSE n - 1 + 1
    BY <1>4, FS_Interval
  <2> QED BY <1>4, <2>1
<1>7. order \in Injection(1 .. n, Managed)
  BY <1>5, <1>6, FS_SurjSameCardinalityImpliesInj DEF n
<1>8. \A i, j \in 1 .. n : order[i] = order[j] => i = j
  BY <1>2, <1>7 DEF Injection, IsInjective
<1>9. order \in Seq(Window) /\ Len(order) = n /\ DOMAIN order = 1 .. n
  <2>1. order \in [1 .. n -> Window] /\ DOMAIN order = 1 .. n
    BY <1>2, <1>4
  <2>2. order \in Seq(Window)
    BY <1>4, <2>1, SeqDef
  <2>3. DOMAIN order = 1 .. Len(order) /\ Len(order) \in Nat
    BY <2>2, LenProperties
  <2>4. (n # 0 => n \in 1 .. n) /\ (Len(order) # 0 => Len(order) \in 1 .. Len(order))
    BY <1>4, <2>3
  <2>5. Len(order) = n
    BY <1>4, <2>1, <2>3, <2>4
  <2> QED BY <2>1, <2>2, <2>5
<1>10. Tracked' \subseteq Managed
  BY <1>2, <1>9 DEF Tracked
<1>11. Mapped'
  BY <1>2, <1>3, <1>4, <1>8, <1>9, <1>10 DEF Mapped
<1>12. ASSUME NEW v \in Window
       PROVE  /\ Typed(tracker[v])' /\ tracker'[v] = NewTracker
              /\ v \notin Managed' => comp'.region[v] = None
              /\ Agreed(calls, v, tracker[v])' /\ Anchored(v, tracker[v])'
  <2>1. /\ Typed(tracker[v]) /\ Agreed(calls, v, tracker[v])
        /\ Anchored(v, tracker[v]) /\ tracker[v] = NewTracker
        /\ v \notin Managed => comp.region[v] = None
    BY <1>1 DEF KateInv
  <2>2. Agreed(calls, v, tracker[v])'
    BY <1>1, <1>3, <2>1, AgreedStays
  <2>3. HasScrollbar(v)' <=> HasScrollbar(v)
    BY <1>3 DEF HasScrollbar
  <2>4. Alone(v)' <=> Alone(v)
    BY <1>3 DEF Alone, Siblings
  <2>5. Anchored(v, tracker[v])'
    BY <1>1, <1>3, <2>1, <2>3, <2>4, AnchoredStays
  <2> QED BY <1>3, <2>1, <2>2, <2>5 DEF Typed
<1> QED BY <1>3, <1>11, <1>12 DEF KateInv

\* A new tracker.
LEMMA NewFacts ==
  /\ NewTracker \in Tracker /\ Typed(NewTracker)
  /\ NewTracker.region = None /\ NewTracker.scrollY = None
  /\ \A w \in Window : NewTracker.scrollbar # w
  /\ Scrolls(NewTracker) = Delta
<1>1. /\ NewTracker.region = None /\ NewTracker.scrollY = None
      /\ NewTracker.scrollbar = None /\ NewTracker.tries = 0
  BY DEF NewTracker
<1>2. MaxRetry \in Nat \ {0} /\ None \notin Window
  BY KateAssumption
<1>3. NewTracker \in Tracker
  BY <1>2 DEF NewTracker, Tracker
<1>4. Scrolls(NewTracker) = Delta
  BY <1>1 DEF Scrolls
<1> QED BY <1>1, <1>2, <1>3, <1>4 DEF Typed

\* Window v has no tracker any more: it was cleared now, or had been before.
LEMMA GoneAgreed ==
  ASSUME KateInv, NEW v \in Window, NEW T, T \in Seq(Window), calls' = destroy(calls, T),
         v \in {T[i] : i \in 1 .. Len(T)} \/ v \notin Tracked,
         tracker'[v] = NewTracker, v \notin Tracked', comp'.scroll[v] \in Delta,
         \/ comp'.region[v] = None
         \/ comp'.region[v] = comp.region[v] /\ UNCHANGED astray
  PROVE  Agreed(calls, v, tracker[v])'
<1> DEFINE G == {T[i] : i \in 1 .. Len(T)}
           R == "SetWindowEditorRegion"
           N == "SetWindowScroll"
<1>1. Regions(v, tracker[v])' = {None} /\ Scrolls(tracker[v])' = Delta
  BY NewFacts DEF Regions, Scrolls
<1>2. /\ Agreed(calls, v, tracker[v]) /\ calls \in Seq(Valid)
      /\ v \notin Tracked => tracker[v] = NewTracker
  BY DEF KateInv
<1>3. v \notin G => Regions(v, tracker[v]) = {None}
  BY <1>2, NewFacts DEF Regions
<1>4. LastSays(calls, N, v, Delta)
  BY <1>2 DEF Agreed, InForce, LastSays, Scrolls
<1>5. /\ v \notin G => LastSays(calls, R, v, {None})
      /\ v \notin G /\ Silent(calls, R, v) /\ v \notin astray[R] => comp.region[v] = None
  <2> DEFINE V == Regions(v, tracker[v])
  <2>1. /\ LastSays(calls, R, v, V)
        /\ Silent(calls, R, v) /\ v \notin astray[R] => comp.region[v] \in V
    BY <1>2 DEF Agreed, InForce
  <2>2. v \notin G => V = {None}
    BY <1>3
  <2> HIDE DEF V, G, R
  <2> QED BY <2>1, <2>2 DEF LastSays
<1> HIDE DEF G
<1>6. /\ LastSays(calls', N, v, Delta) /\ LastSays(calls', R, v, {None})
      /\ Silent(calls', R, v) <=> Silent(calls, R, v) /\ v \notin G
  BY <1>2, <1>4, <1>5, DestroyFacts DEF G
<1>7. Silent(calls', R, v) /\ v \notin astray'[R] => comp'.region[v] = None
  BY <1>5, <1>6
<1>8. InForce(calls, R, v, comp.region[v], {None})'
  BY <1>6, <1>7 DEF InForce
<1>9. InForce(calls, N, v, comp.scroll[v], Delta)'
  BY <1>6 DEF InForce
<1> QED BY <1>1, <1>8, <1>9 DEF Agreed

\* All trackers go, and what they published is cleared.
LEMMA DisableKeeps ==
  ASSUME KateInv, Disable
  PROVE  KateInv'
<1>1. /\ up' = FALSE /\ trackers' = <<>> /\ tracker' = [w \in Window |-> NewTracker]
      /\ calls' = destroy(calls, trackers) /\ origin' = [w \in Window |-> None]
      /\ UNCHANGED <<kate, comp, astray>>
  BY DEF Disable
<1>2. trackers \in Seq(Window) /\ calls \in Seq(Valid) /\ DOMAIN trackers = 1 .. Len(trackers)
  BY LenProperties DEF KateInv, Mapped
<1>3. Managed' = Managed /\ Tracked' = {}
  <2>1. DOMAIN <<>> = {}
    OBVIOUS
  <2> QED BY <1>1, <2>1 DEF Managed, Tracked
<1>4. Mapped'
  <2>1. <<>> \in Seq(Window) /\ Len(<<>>) = 0 /\ 1 .. 0 = {}
    OBVIOUS
  <2> QED BY <1>1, <1>3, <2>1 DEF KateInv, Mapped
<1>5. calls' \in Seq(Valid)
  BY <1>1, <1>2, DestroyFacts
<1>6. tracker' \in [Window -> Tracker] /\ origin' \in [Window -> Int \cup {None}]
  BY <1>1, NewFacts
<1>7. ASSUME NEW v \in Window
      PROVE  /\ tracker'[v] = NewTracker /\ Typed(tracker[v])'
             /\ v \notin Managed' => comp'.region[v] = None
             /\ Agreed(calls, v, tracker[v])' /\ Anchored(v, tracker[v])'
  <2>1. tracker'[v] = NewTracker /\ v \notin Tracked' /\ origin'[v] = None
    BY <1>1, <1>3
  <2>2. v \in {trackers[i] : i \in 1 .. Len(trackers)} \/ v \notin Tracked
    BY <1>2 DEF Tracked
  <2>3. comp'.region[v] = comp.region[v] /\ comp'.scroll[v] \in Delta
    BY <1>1 DEF KateInv
  <2>4. Agreed(calls, v, tracker[v])'
    BY <1>1, <1>2, <2>1, <2>2, <2>3, GoneAgreed
  <2>5. Anchored(v, tracker[v])' /\ Typed(tracker[v])'
    BY <2>1, NewFacts DEF Anchored, Typed
  <2> QED BY <1>1, <1>3, <2>1, <2>4, <2>5 DEF KateInv
<1> QED BY <1>1, <1>4, <1>5, <1>6, <1>7 DEF KateInv

\* The compositor and the trackers keep what they have; ink over siblings of
\* the new window is out of the history.
LEMMA MapKeeps ==
  ASSUME KateInv, NEW w \in Window, MapWindow(w)
  PROVE  KateInv'
<1>1. PICK g \in Geometry, o \in IF w \in Restless THEN Offset ELSE {0} :
        kate' = [kate EXCEPT ![w] =
          [managed |-> TRUE, minimized |-> FALSE, geometry |-> g, offset |-> o,
           tree |-> IF w \in Restless THEN "none" ELSE "full"]]
  BY DEF MapWindow
<1>2. /\ ~kate[w].managed /\ UNCHANGED <<tracker, up, calls, comp, astray>>
      /\ trackers' = IF up THEN Append(trackers, w) ELSE trackers
      /\ origin' = [v \in Window |-> IF v \in Siblings(w) THEN None ELSE origin[v]]
  BY DEF MapWindow
<1> DEFINE k == [managed |-> TRUE, minimized |-> FALSE, geometry |-> g, offset |-> o,
                 tree |-> IF w \in Restless THEN "none" ELSE "full"]
<1>3. k \in Kate /\ k.managed
  BY KateAssumption DEF Kate
<1> HIDE DEF k
<1>4. /\ kate' \in [Window -> Kate] /\ kate'[w].managed
      /\ \A v \in Window \ {w} : kate'[v] = kate[v]
  BY <1>1, <1>3 DEF KateInv, k
<1>5. Managed' = Managed \cup {w} /\ w \notin Managed /\ IsFiniteSet(Managed)'
  <2>1. Managed' = Managed \cup {w}
    BY <1>4 DEF Managed
  <2>2. w \notin Managed
    BY <1>2 DEF Managed
  <2>3. IsFiniteSet(Managed)
    BY DEF KateInv, Mapped
  <2>4. IsFiniteSet(Managed \cup {w})
    BY <2>3, FS_AddElement
  <2> QED BY <2>1, <2>2, <2>4
<1>6. /\ trackers' \in Seq(Window) /\ Tracked \subseteq Tracked'
      /\ Tracked' \subseteq Tracked \cup {w} /\ (~up => trackers' = <<>>)
      /\ \A i, j \in 1 .. Len(trackers') : trackers'[i] = trackers'[j] => i = j
  <2>1. /\ trackers \in Seq(Window) /\ Len(trackers) \in Nat
        /\ DOMAIN trackers = 1 .. Len(trackers) /\ w \notin Tracked
        /\ \A i, j \in 1 .. Len(trackers) : trackers[i] = trackers[j] => i = j
        /\ ~up => trackers = <<>>
    BY <1>5, LenProperties DEF KateInv, Mapped
  <2>2. CASE ~up
    BY <1>2, <2>1, <2>2 DEF Tracked
  <2>3. CASE up
    <3> DEFINE r == Append(trackers, w)
               l == Len(trackers)
    <3>1. /\ r \in Seq(Window) /\ Len(r) = l + 1 /\ r[l + 1] = w
          /\ \A i \in 1 .. l : r[i] = trackers[i]
      BY <2>1, AppendProperties
    <3>2. DOMAIN r = 1 .. l + 1
      BY <3>1, LenProperties
    <3> HIDE DEF r, l
    <3>3. /\ \A i \in 1 .. l + 1 : i \in 1 .. l \/ i = l + 1
          /\ l + 1 \in 1 .. l + 1 /\ \A i \in 1 .. l : i \in 1 .. l + 1
      BY <2>1 DEF l
    <3>4. Tracked = {trackers[i] : i \in 1 .. l}
      BY <2>1 DEF Tracked, l
    <3>5. Tracked' = {r[i] : i \in 1 .. l + 1}
      BY <1>2, <2>3, <3>2 DEF Tracked, r
    <3>6. \A i, j \in 1 .. l + 1 : r[i] = r[j] => i = j
      BY <2>1, <3>1, <3>3, <3>4 DEF l
    <3>7. Tracked \subseteq Tracked' /\ Tracked' \subseteq Tracked \cup {w}
      BY <3>1, <3>3, <3>4, <3>5
    <3> QED BY <1>2, <2>3, <3>1, <3>6, <3>7 DEF r
  <2> QED BY <2>2, <2>3
<1>7. Mapped'
  BY <1>2, <1>5, <1>6 DEF KateInv, Mapped
<1>8. origin' \in [Window -> Int \cup {None}]
  BY <1>2 DEF KateInv
<1>9. ASSUME NEW v \in Window
      PROVE  /\ Typed(tracker[v])' /\ Agreed(calls, v, tracker[v])'
             /\ Anchored(v, tracker[v])'
             /\ v \notin Tracked' => tracker'[v] = NewTracker
             /\ v \notin Managed' => comp'.region[v] = None
  <2>1. /\ Typed(tracker[v]) /\ Agreed(calls, v, tracker[v])
        /\ Anchored(v, tracker[v]) /\ (v \notin Tracked => tracker[v] = NewTracker)
        /\ v \notin Managed => comp.region[v] = None
    BY DEF KateInv
  <2>2. Agreed(calls, v, tracker[v])'
    BY <1>2, <1>6, <2>1, AgreedStays
  <2>3. HasScrollbar(v) => HasScrollbar(v)'
    BY <1>4, <1>5 DEF HasScrollbar
  <2>4. ASSUME origin'[v] # None
        PROVE  origin'[v] = origin[v] /\ (Alone(v) => Alone(v)')
    <3>1. v \notin Siblings(w) /\ origin'[v] = origin[v]
      BY <1>2, <2>4
    <3>2. w \notin Siblings(v)
      BY <3>1 DEF Siblings
    <3>3. Siblings(v)' = Siblings(v)
      BY DEF Siblings
    <3> QED BY <1>5, <3>1, <3>2, <3>3 DEF Alone
  <2>5. Anchored(v, tracker[v])'
    BY <1>2, <1>6, <2>1, <2>3, <2>4, AnchoredStays
  <2> QED BY <1>2, <1>5, <1>6, <2>1, <2>2, <2>5 DEF Typed
<1> QED BY <1>2, <1>4, <1>7, <1>8, <1>9 DEF KateInv

\* The tracker of the window goes, if it has one, and so does its ink.
LEMMA UnmanageKeeps ==
  ASSUME KateInv, NEW w \in Window, UnmanageWindow(w)
  PROVE  KateInv'
<1>1. /\ w \in Managed /\ kate' = [kate EXCEPT ![w] = Gone]
      /\ comp' = [comp EXCEPT !.inked = @ \ {w}, !.region[w] = None, !.scroll[w] = 0]
      /\ tracker' = [tracker EXCEPT ![w] = NewTracker]
      /\ astray' = [n \in DOMAIN astray |-> astray[n] \ {w}]
      /\ origin' = [origin EXCEPT ![w] = None] /\ up' = up
  BY DEF UnmanageWindow
<1>2. 0 \in Delta /\ 0 \in Offset
  <2>1. 0 \in Offset /\ 0 - 0 = 0
    BY KateAssumption
  <2> QED BY <2>1 DEF Delta
<1>3. Gone \in Kate /\ ~Gone.managed
  BY <1>2, KateAssumption DEF Gone, Kate
<1>4. /\ kate' \in [Window -> Kate] /\ ~kate'[w].managed
      /\ \A v \in Window \ {w} : kate'[v] = kate[v]
  BY <1>1, <1>3 DEF KateInv
<1>5. Managed' = Managed \ {w} /\ IsFiniteSet(Managed)'
  <2>1. Managed' = Managed \ {w}
    BY <1>4 DEF Managed
  <2> QED BY <2>1, FS_RemoveElement DEF KateInv, Mapped
<1>6. /\ comp' \in [named : BOOLEAN, inked : SUBSET Window,
                    region : [Window -> Geometry \cup {None}], scroll : [Window -> Delta]]
      /\ comp'.region[w] = None /\ comp'.scroll[w] = 0
      /\ \A v \in Window \ {w} :
           comp'.region[v] = comp.region[v] /\ comp'.scroll[v] = comp.scroll[v]
  BY <1>1, <1>2 DEF KateInv
<1>7. /\ tracker' \in [Window -> Tracker] /\ tracker'[w] = NewTracker
      /\ \A v \in Window \ {w} : tracker'[v] = tracker[v]
  BY <1>1, NewFacts DEF KateInv
<1>8. /\ astray' \in [{"SetWindowEditorRegion", "SetWindowScroll"} -> SUBSET Window]
      /\ \A n \in {"SetWindowEditorRegion", "SetWindowScroll"} :
           astray'[n] = astray[n] \ {w}
  BY <1>1 DEF KateInv
<1>9. /\ origin' \in [Window -> Int \cup {None}] /\ origin'[w] = None
      /\ \A v \in Window \ {w} : origin'[v] = origin[v]
  BY <1>1 DEF KateInv
<1>10. /\ trackers \in Seq(Window) /\ DOMAIN trackers = 1 .. Len(trackers)
       /\ \A i, j \in 1 .. Len(trackers) : trackers[i] = trackers[j] => i = j
       /\ ~up => trackers = <<>>
  BY LenProperties DEF KateInv, Mapped
<1>11. /\ trackers' \in Seq(Window) /\ Tracked' = Tracked \ {w} /\ (~up => trackers' = <<>>)
       /\ \A i, j \in 1 .. Len(trackers') : trackers'[i] = trackers'[j] => i = j
  <2>1. CASE w \notin Tracked
    <3>1. trackers' = trackers
      BY <2>1 DEF UnmanageWindow
    <3> QED BY <1>10, <2>1, <3>1 DEF Tracked
  <2>2. CASE w \in Tracked
    <3>1. PICK i \in DOMAIN trackers : trackers[i] = w /\ trackers' = RemoveAt(trackers, i)
      BY <2>2 DEF UnmanageWindow
    <3> DEFINE r == RemoveAt(trackers, i)
    <3>2. /\ r \in Seq(Window)
          /\ \A j, k \in 1 .. Len(r) : r[j] = r[k] => j = k
          /\ {r[j] : j \in 1 .. Len(r)}
               = {trackers[j] : j \in 1 .. Len(trackers)} \ {trackers[i]}
      <4>1. /\ trackers \in Seq(Window) /\ i \in 1 .. Len(trackers)
            /\ \A j, k \in 1 .. Len(trackers) : trackers[j] = trackers[k] => j = k
        BY <1>10
      <4> QED BY <4>1, DeleteFacts, Zenon
    <3> HIDE DEF r
    <3>3. trackers' = r
      BY <3>1 DEF r
    <3>4. DOMAIN r = 1 .. Len(r)
      BY <3>2, LenProperties
    <3>5. Tracked' = Tracked \ {w}
      <4> DEFINE before == {trackers[j] : j \in 1 .. Len(trackers)}
                 after == {r[j] : j \in 1 .. Len(r)}
      <4>1. Tracked = before
        BY <1>10 DEF Tracked
      <4>2. Tracked' = after
        BY <3>3, <3>4 DEF Tracked
      <4>3. after = before \ {trackers[i]}
        BY <3>2
      <4> HIDE DEF before, after
      <4> QED BY <3>1, <4>1, <4>2, <4>3
    <3>6. up
      <4>1. ASSUME trackers = <<>> PROVE FALSE
        <5>1. DOMAIN <<>> = {}
          OBVIOUS
        <5> QED BY <4>1, <5>1, <3>1
      <4> QED BY <1>10, <4>1
    <3> QED BY <3>2, <3>3, <3>5, <3>6
  <2> QED BY <2>1, <2>2
<1>12. Mapped'
  BY <1>1, <1>5, <1>11 DEF KateInv, Mapped
<1>13. calls' \in Seq(Valid)
  <2>1. CASE w \notin Tracked
    BY <2>1 DEF UnmanageWindow, KateInv
  <2>2. CASE w \in Tracked
    <3>1. calls' = destroy(calls, <<w>>) /\ <<w>> \in Seq(Window) /\ calls \in Seq(Valid)
      BY <2>2 DEF UnmanageWindow, KateInv
    <3> QED BY <3>1, DestroyFacts
  <2> QED BY <2>1, <2>2
<1>14. Agreed(calls, w, tracker[w])'
  <2>1. w \notin Tracked'
    BY <1>11
  <2>2. CASE w \notin Tracked
    <3>1. /\ calls' = calls /\ tracker[w] = NewTracker /\ Agreed(calls, w, tracker[w])
      BY <2>2 DEF UnmanageWindow, KateInv
    <3>2. Regions(w, tracker[w])' = Regions(w, tracker[w])
      BY <1>7, <2>1, <2>2, <3>1 DEF Regions
    <3>3. Regions(w, tracker[w]) = {None} /\ Scrolls(tracker[w]) = Delta
      BY <2>2, <3>1, NewFacts DEF Regions
    <3>4. Scrolls(tracker[w])' = Scrolls(tracker[w])
      BY <1>7, <3>1 DEF Scrolls
    <3>5. comp'.region[w] \in Regions(w, tracker[w]) /\ comp'.scroll[w] \in Scrolls(tracker[w])
      BY <1>2, <1>6, <3>3
    <3> QED BY <3>1, <3>2, <3>4, <3>5 DEF Agreed, InForce
  <2>3. CASE w \in Tracked
    <3> DEFINE T == <<w>>
    <3>1. calls' = destroy(calls, T) /\ T \in Seq(Window)
      BY <2>3 DEF UnmanageWindow
    <3>2. Len(T) = 1 /\ T[1] = w
      OBVIOUS
    <3> HIDE DEF T
    <3>3. w \in {T[i] : i \in 1 .. Len(T)}
      BY <3>2
    <3> QED BY <1>2, <1>6, <1>7, <2>1, <3>1, <3>3, GoneAgreed
  <2> QED BY <2>2, <2>3
<1>15. ASSUME NEW v \in Window \ {w}
       PROVE  Agreed(calls, v, tracker[v])'
  <2> DEFINE V == Regions(v, tracker[v])
             X == Scrolls(tracker[v])
  <2>1. Regions(v, tracker[v])' = V /\ Scrolls(tracker[v])' = X
    BY <1>7, <1>11 DEF Regions, Scrolls
  <2>2. /\ InForce(calls, "SetWindowEditorRegion", v, comp.region[v], V)
        /\ InForce(calls, "SetWindowScroll", v, comp.scroll[v], X)
    BY DEF KateInv, Agreed
  <2> HIDE DEF V, X
  <2>3. /\ v \notin astray'["SetWindowEditorRegion"] => v \notin astray["SetWindowEditorRegion"]
        /\ v \notin astray'["SetWindowScroll"] => v \notin astray["SetWindowScroll"]
    BY <1>8
  <2>4. CASE w \notin Tracked
    <3>1. calls' = calls
      BY <2>4 DEF UnmanageWindow
    <3> QED BY <1>6, <2>1, <2>2, <2>3, <3>1 DEF Agreed, InForce
  <2>5. CASE w \in Tracked
    <3> DEFINE T == <<w>>
    <3>1. calls' = destroy(calls, T) /\ T \in Seq(Window) /\ calls \in Seq(Valid)
      BY <2>5 DEF UnmanageWindow, KateInv
    <3>2. \A i \in 1 .. Len(T) : T[i] = w
      OBVIOUS
    <3> HIDE DEF T
    <3>3. v \notin {T[i] : i \in 1 .. Len(T)}
      BY <3>2
    <3>4. /\ LastSays(calls', "SetWindowEditorRegion", v, V)
          /\ LastSays(calls', "SetWindowScroll", v, X)
          /\ Silent(calls', "SetWindowEditorRegion", v) =>
               Silent(calls, "SetWindowEditorRegion", v)
          /\ Silent(calls', "SetWindowScroll", v) => Silent(calls, "SetWindowScroll", v)
      BY <2>2, <3>1, <3>3, DestroyFacts DEF InForce
    <3> QED BY <1>6, <2>1, <2>2, <2>3, <3>4 DEF Agreed, InForce
  <2> QED BY <2>4, <2>5
<1>16. ASSUME NEW v \in Window
       PROVE  /\ Typed(tracker[v])' /\ Anchored(v, tracker[v])'
              /\ v \notin Tracked' => tracker'[v] = NewTracker
              /\ v \notin Managed' => comp'.region[v] = None
  <2>1. CASE v = w
    <3>1. Anchored(w, tracker[w])'
      BY <1>7, <1>9, NewFacts DEF Anchored
    <3> QED BY <1>6, <1>7, <2>1, <3>1, NewFacts DEF Typed
  <2>2. CASE v # w
    <3>1. /\ Typed(tracker[v]) /\ Anchored(v, tracker[v])
          /\ v \notin Tracked => tracker[v] = NewTracker
          /\ v \notin Managed => comp.region[v] = None
      BY DEF KateInv
    <3>2. HasScrollbar(v)' <=> HasScrollbar(v)
      BY <1>4, <1>5, <2>2 DEF HasScrollbar
    <3>3. Alone(v) => Alone(v)'
      <4>1. Siblings(v)' = Siblings(v)
        BY DEF Siblings
      <4> QED BY <1>5, <2>2, <4>1 DEF Alone
    <3>4. Anchored(v, tracker[v])'
      BY <1>7, <1>9, <1>11, <2>2, <3>1, <3>2, <3>3, AnchoredStays
    <3> QED BY <1>5, <1>6, <1>7, <1>11, <2>2, <3>1, <3>4 DEF Typed
  <2> QED BY <2>1, <2>2
<1> QED BY <1>4, <1>6, <1>7, <1>8, <1>9, <1>12, <1>13, <1>14, <1>15, <1>16 DEF KateInv

\* What Kate does to a window that stays managed; accessibles once published
\* stay.
LEMMA KatesKeeps ==
  ASSUME KateInv, NEW w \in Window, NEW k \in Kate, k.managed,
         kate[w].tree = "full" => k.tree = "full", Kates(w, k)
  PROVE  KateInv'
<1>1. /\ w \in Managed /\ kate' = [kate EXCEPT ![w] = k]
      /\ UNCHANGED <<trackers, tracker, up, calls, comp, astray, origin>>
  BY DEF Kates
<1>2. kate' \in [Window -> Kate] /\ kate'[w] = k /\ \A v \in Window \ {w} : kate'[v] = kate[v]
  BY <1>1 DEF KateInv
<1>3. Managed' = Managed
  BY <1>1, <1>2 DEF Managed
<1>4. Tracked' = Tracked
  BY <1>1 DEF Tracked
<1>5. Mapped'
  BY <1>1, <1>3, <1>4 DEF KateInv, Mapped
<1>6. ASSUME NEW v \in Window
      PROVE  Agreed(calls, v, tracker[v])' /\ Anchored(v, tracker[v])'
  <2>1. Agreed(calls, v, tracker[v]) /\ Anchored(v, tracker[v])
    BY DEF KateInv
  <2>2. HasScrollbar(v) => HasScrollbar(v)'
    BY <1>2, <1>3 DEF HasScrollbar
  <2>3. Alone(v)' <=> Alone(v)
    BY <1>3 DEF Alone, Siblings
  <2>4. tracker'[v] = tracker[v] /\ origin'[v] = origin[v]
    BY <1>1
  <2> QED BY <1>1, <1>4, <2>1, <2>2, <2>3, <2>4, AgreedStays, AnchoredStays
<1> QED BY <1>1, <1>2, <1>3, <1>4, <1>5, <1>6 DEF KateInv, Typed

LEMMA UserKeeps ==
  ASSUME KateInv, NEW w \in Window,
         PublishTree(w) \/ ScrollDocument(w) \/ MoveEditor(w) \/ Minimize(w)
  PROVE  KateInv'
<1> DEFINE k == kate[w]
<1>1. k \in Kate
  BY DEF KateInv
<1>2. w \in Managed => k.managed
  BY DEF Managed
<1>3. ASSUME NEW x \in Kate, x.managed = k.managed, k.tree = "full" => x.tree = "full",
             Kates(w, x)
      PROVE  KateInv'
  BY <1>2, <1>3, KatesKeeps DEF Kates
<1>4. CASE PublishTree(w)
  <2>1. ASSUME k.tree = "none", Kates(w, [k EXCEPT !.tree = "editor"]) PROVE KateInv'
    <3> DEFINE x == [k EXCEPT !.tree = "editor"]
    <3>1. x \in Kate /\ x.managed = k.managed
      BY <1>1 DEF Kate
    <3> HIDE DEF x
    <3> QED BY <1>3, <2>1, <3>1 DEF x
  <2>2. ASSUME Kates(w, [k EXCEPT !.tree = "full"]) PROVE KateInv'
    <3> DEFINE x == [k EXCEPT !.tree = "full"]
    <3>1. x \in Kate /\ x.managed = k.managed /\ x.tree = "full"
      BY <1>1 DEF Kate
    <3> HIDE DEF x
    <3> QED BY <1>3, <2>2, <3>1 DEF x
  <2> QED BY <1>4, <2>1, <2>2 DEF PublishTree
<1>5. ASSUME NEW o \in Offset, Kates(w, [k EXCEPT !.offset = o]) PROVE KateInv'
  <2> DEFINE x == [k EXCEPT !.offset = o]
  <2>1. x \in Kate /\ x.managed = k.managed /\ x.tree = k.tree
    BY <1>1 DEF Kate
  <2> HIDE DEF x
  <2> QED BY <1>3, <1>5, <2>1 DEF x
<1>6. ASSUME NEW g \in Geometry, Kates(w, [k EXCEPT !.geometry = g]) PROVE KateInv'
  <2> DEFINE x == [k EXCEPT !.geometry = g]
  <2>1. x \in Kate /\ x.managed = k.managed /\ x.tree = k.tree
    BY <1>1 DEF Kate
  <2> HIDE DEF x
  <2> QED BY <1>3, <1>6, <2>1 DEF x
<1>7. ASSUME NEW m \in BOOLEAN, Kates(w, [k EXCEPT !.minimized = m]) PROVE KateInv'
  <2> DEFINE x == [k EXCEPT !.minimized = m]
  <2>1. x \in Kate /\ x.managed = k.managed /\ x.tree = k.tree
    BY <1>1 DEF Kate
  <2> HIDE DEF x
  <2> QED BY <1>3, <1>7, <2>1 DEF x
<1> QED BY <1>4, <1>5, <1>6, <1>7 DEF ScrollDocument, MoveEditor, Minimize

\* A window at rest is scrolled by what its scrollbar says.
LEMMA RestedFacts ==
  ASSUME KateInv, NEW w \in Window, Rested(w), w \notin astray.SetWindowScroll,
         tracker[w].scrollbar = w, tracker[w].sbBase # None
  PROVE  /\ kate[w].offset \in Int /\ tracker[w].sbBase \in Int
         /\ comp.scroll[w] = kate[w].offset - tracker[w].sbBase
<1> DEFINE t == tracker[w]
           x == kate[w].offset - t.sbBase
<1>1. HasScrollbar(w) /\ Agreed(calls, w, t) /\ t \in Tracker
  BY DEF KateInv, Anchored
<1>2. kate[w].offset \in Int /\ t.sbBase \in Int
  <2>1. Offset \subseteq Int
    BY KateAssumption
  <2>2. kate[w].offset \in Offset
    BY DEF KateInv, Kate
  <2>3. t.sbBase \in Offset
    BY <1>1 DEF Tracker
  <2> QED BY <2>1, <2>2, <2>3
<1>3. Measure(t) = x
  BY <1>1 DEF Measure
<1>4. t.scrollY = x /\ calls = <<>>
  BY <1>3 DEF Rested
<1>5. x # None
  BY <1>2, KateAssumption
<1>6. Silent(calls, "SetWindowScroll", w)
  BY <1>4 DEF Silent
<1>7. comp.scroll[w] \in Scrolls(t)
  BY <1>1, <1>6 DEF Agreed, InForce
<1> QED BY <1>2, <1>4, <1>5, <1>7 DEF Scrolls

\* Ink is drawn: the line it hangs on is that of the scrollbar's baseline.
LEMMA DrawKeeps ==
  ASSUME KateInv, NEW w \in Window, Draw(w)
  PROVE  KateInv'
<1>1. /\ Rested(w) /\ Alone(w) /\ w \notin astray.SetWindowScroll
      /\ tracker[w].scrollbar = w /\ tracker[w].sbBase # None
      /\ origin' = [origin EXCEPT ![w] = kate[w].offset - comp.scroll[w]]
      /\ UNCHANGED <<kate, trackers, tracker, up, calls, comp, astray>>
  BY DEF Draw
<1>2. kate[w].offset - comp.scroll[w] = tracker[w].sbBase /\ tracker[w].sbBase \in Int
  BY <1>1, RestedFacts
<1>3. /\ origin' \in [Window -> Int \cup {None}] /\ origin'[w] = tracker[w].sbBase
      /\ \A v \in Window \ {w} : origin'[v] = origin[v]
  BY <1>1, <1>2 DEF KateInv
<1>4. Managed' = Managed /\ Tracked' = Tracked
  BY <1>1 DEF Managed, Tracked
<1>5. Mapped'
  BY <1>1, <1>4 DEF KateInv, Mapped
<1>6. ASSUME NEW v \in Window
      PROVE  Agreed(calls, v, tracker[v])' /\ Anchored(v, tracker[v])'
  <2>1. Agreed(calls, v, tracker[v]) /\ Anchored(v, tracker[v]) /\ tracker'[v] = tracker[v]
    BY <1>1 DEF KateInv
  <2>2. Agreed(calls, v, tracker[v])'
    BY <1>1, <1>4, <2>1, AgreedStays
  <2>3. HasScrollbar(v)' <=> HasScrollbar(v)
    BY <1>1, <1>4 DEF HasScrollbar
  <2>4. Alone(v)' <=> Alone(v)
    BY <1>4 DEF Alone, Siblings
  <2>5. CASE v = w
    <3>1. w \in Tracked
      BY <1>1 DEF Rested
    <3> QED BY <1>1, <1>3, <1>4, <2>1, <2>2, <2>3, <2>4, <2>5, <3>1 DEF Anchored
  <2>6. CASE v # w
    BY <1>3, <1>4, <2>1, <2>2, <2>3, <2>4, <2>6, AnchoredStays
  <2> QED BY <2>5, <2>6
<1> QED BY <1>1, <1>3, <1>4, <1>5, <1>6 DEF KateInv, Typed

-----------------------------------------------------------------------------
(* The compositor                                                          *)

LEMMA NameKeeps ==
  ASSUME KateInv, NameAcquired
  PROVE  KateInv'
<1>1. /\ comp' = [comp EXCEPT !.named = TRUE]
      /\ UNCHANGED <<kate, trackers, tracker, up, calls, astray, origin>>
  BY DEF NameAcquired
<1>2. /\ comp' \in [named : BOOLEAN, inked : SUBSET Window,
                    region : [Window -> Geometry \cup {None}], scroll : [Window -> Delta]]
      /\ comp'.region = comp.region /\ comp'.scroll = comp.scroll
  BY <1>1 DEF KateInv
<1>3. Managed' = Managed /\ Tracked' = Tracked
  BY <1>1 DEF Managed, Tracked
<1>4. Mapped'
  BY <1>1, <1>3 DEF KateInv, Mapped
<1>5. ASSUME NEW v \in Window
      PROVE  Agreed(calls, v, tracker[v])' /\ Anchored(v, tracker[v])'
  <2>1. Agreed(calls, v, tracker[v]) /\ Anchored(v, tracker[v]) /\ tracker'[v] = tracker[v]
    BY <1>1 DEF KateInv
  <2>2. Regions(v, tracker[v])' = Regions(v, tracker[v])
    BY <1>1, <1>3 DEF Regions
  <2>3. Agreed(calls, v, tracker[v])'
    BY <1>1, <1>2, <2>1, <2>2 DEF Agreed, InForce, Scrolls
  <2>4. HasScrollbar(v)' <=> HasScrollbar(v)
    BY <1>1, <1>3 DEF HasScrollbar
  <2>5. Alone(v)' <=> Alone(v)
    BY <1>3 DEF Alone, Siblings
  <2> QED BY <1>1, <1>3, <2>1, <2>3, <2>4, <2>5, AnchoredStays
<1> QED BY <1>1, <1>2, <1>3, <1>4, <1>5 DEF KateInv, Typed

\* The windows call m is for, and those it reaches.
Meant(m) == Siblings(m.from) \cap Managed

Reached(m) == IF m.name = "SetWindowScroll" THEN Meant(m) \cap comp.inked ELSE Meant(m)

\* The first call is served: what it does to the x of window v, which is y then.
LEMMA ServeForce ==
  ASSUME KateInv, Serve, NEW v \in Window,
         NEW n \in {"SetWindowEditorRegion", "SetWindowScroll"},
         NEW x, NEW y, NEW V, InForce(calls, n, v, x, V), v \notin Managed => x \in V,
         LET m == Head(calls)
         IN /\ m.name = n /\ Told(n, v) = m.value => m.value \in V
            /\ y = IF comp.named /\ m.name = n /\ v \in Reached(m) THEN m.value ELSE x
  PROVE  LastSays(calls', n, v, V) /\ (Silent(calls', n, v) /\ v \notin astray'[n] => y \in V)
<1> DEFINE m == Head(calls)
           W == Meant(m)
           R == Reached(m)
<1>1. /\ calls # <<>> /\ calls' = Tail(calls)
      /\ astray' = [astray EXCEPT ![m.name] = Astray(m, W, R)]
  BY DEF Serve, Meant, Reached
<1>2. /\ calls \in Seq(Valid)
      /\ astray \in [{"SetWindowEditorRegion", "SetWindowScroll"} -> SUBSET Window]
  BY DEF KateInv
<1>3. /\ Silent(calls, n, v) <=> Silent(calls', n, v) /\ ~Own(m, n, v)
      /\ LastSays(calls', n, v, V)
      /\ Silent(calls', n, v) /\ Own(m, n, v) => m.value \in V
      /\ m \in Valid
  <2>1. LastSays(calls, n, v, V)
    BY DEF InForce
  <2> QED BY <1>1, <1>2, <2>1, TailFacts
<1>4. astray'[n] = IF m.name = n THEN Astray(m, W, R) ELSE astray[n]
  BY <1>1, <1>2
<1>5. R \subseteq W /\ (v \in W => v \in Managed) /\ (m.from = v /\ v \in Managed => v \in W)
  BY DEF Reached, Meant, Siblings
<1>6. y = IF comp.named /\ m.name = n /\ v \in R THEN m.value ELSE x
  OBVIOUS
<1>7. m.name = n /\ Told(n, v) = m.value => m.value \in V
  OBVIOUS
<1>8. Silent(calls, n, v) /\ v \notin astray[n] => x \in V
  BY DEF InForce
<1> HIDE DEF m, W, R
<1>9. ASSUME Silent(calls', n, v), v \notin astray'[n]
      PROVE  y \in V
  <2>1. CASE m.name # n
    <3>1. ~Own(m, n, v)
      BY <2>1 DEF Own
    <3> QED BY <1>3, <1>4, <1>6, <1>8, <1>9, <2>1, <3>1
  <2>2. CASE m.name = n /\ ~comp.named
    <3>1. v \notin astray[n] /\ v \notin W /\ y = x
      BY <1>4, <1>6, <1>9, <2>2 DEF Astray
    <3>2. CASE m.from = v
      BY <1>5, <3>1, <3>2
    <3>3. CASE m.from # v
      BY <1>3, <1>8, <1>9, <3>1, <3>3 DEF Own
    <3> QED BY <3>2, <3>3
  <2>3. CASE m.name = n /\ comp.named /\ v \in R
    <3>1. y = m.value
      BY <1>6, <2>3
    <3>2. v = m.from \/ Told(n, v) = m.value
      BY <1>4, <1>5, <1>9, <2>3 DEF Astray
    <3> QED BY <1>3, <1>7, <1>9, <2>3, <3>1, <3>2 DEF Own
  <2>4. CASE m.name = n /\ comp.named /\ v \notin R
    <3>1. v \notin astray[n] /\ (v \in W => v # m.from) /\ y = x
      BY <1>4, <1>6, <1>9, <2>4 DEF Astray
    <3>2. CASE m.from = v
      BY <1>5, <3>1, <3>2
    <3>3. CASE m.from # v
      BY <1>3, <1>8, <1>9, <3>1, <3>3 DEF Own
    <3> QED BY <3>2, <3>3
  <2> QED BY <2>1, <2>2, <2>3, <2>4
<1> QED BY <1>3, <1>9

\* What Serve does to the compositor and to the history.
LEMMA ServeFacts ==
  ASSUME KateInv, Serve
  PROVE  LET m == Head(calls)
         IN /\ m \in Valid /\ calls' \in Seq(Valid)
            /\ comp' \in [named : BOOLEAN, inked : SUBSET Window,
                          region : [Window -> Geometry \cup {None}],
                          scroll : [Window -> Delta]]
            /\ astray' \in [{"SetWindowEditorRegion", "SetWindowScroll"} -> SUBSET Window]
            /\ \A v \in Window :
                 /\ comp'.region[v] =
                      IF comp.named /\ m.name = "SetWindowEditorRegion" /\ v \in Reached(m)
                        THEN m.value ELSE comp.region[v]
                 /\ comp'.scroll[v] =
                      IF comp.named /\ m.name = "SetWindowScroll" /\ v \in Reached(m)
                        THEN m.value ELSE comp.scroll[v]
<1> DEFINE m == Head(calls)
           R == Reached(m)
           set(f) == [w \in Window |-> IF w \in R THEN m.value ELSE f[w]]
<1>1. /\ calls # <<>> /\ calls' = Tail(calls)
      /\ comp' = IF comp.named THEN Sets(m, R) ELSE comp
      /\ astray' = [astray EXCEPT ![m.name] = Astray(m, Meant(m), R)]
  BY DEF Serve, Meant, Reached
<1>2. /\ calls \in Seq(Valid)
      /\ comp \in [named : BOOLEAN, inked : SUBSET Window,
                   region : [Window -> Geometry \cup {None}], scroll : [Window -> Delta]]
      /\ astray \in [{"SetWindowEditorRegion", "SetWindowScroll"} -> SUBSET Window]
  BY DEF KateInv
<1>3. m \in Valid /\ calls' \in Seq(Valid)
  BY <1>1, <1>2, HeadTailProperties
<1>4. R \subseteq Window /\ Meant(m) \subseteq Window
  BY DEF Reached, Meant, Siblings
<1> HIDE DEF m, R
<1>5. /\ m.name \in {"SetWindowEditorRegion", "SetWindowScroll"}
      /\ m.value \in IF m.name = "SetWindowEditorRegion" THEN Geometry \cup {None} ELSE Delta
  BY <1>3 DEF Valid, Valued, Call
<1>6. Astray(m, Meant(m), R) \subseteq Window
  BY <1>2, <1>4, <1>5 DEF Astray
<1>7. astray' \in [{"SetWindowEditorRegion", "SetWindowScroll"} -> SUBSET Window]
  BY <1>1, <1>2, <1>5, <1>6
<1>8. CASE ~comp.named
  BY <1>1, <1>2, <1>3, <1>7, <1>8 DEF m
<1>9. CASE comp.named /\ m.name = "SetWindowScroll"
  <2>1. comp' = [comp EXCEPT !.scroll = set(comp.scroll)]
    BY <1>1, <1>9 DEF Sets
  <2>2. set(comp.scroll) \in [Window -> Delta]
    BY <1>2, <1>5, <1>9
  <2>3. \A v \in Window : set(comp.scroll)[v] = IF v \in R THEN m.value ELSE comp.scroll[v]
    OBVIOUS
  <2> HIDE DEF set
  <2>4. /\ comp' \in [named : BOOLEAN, inked : SUBSET Window,
                      region : [Window -> Geometry \cup {None}], scroll : [Window -> Delta]]
        /\ comp'.scroll = set(comp.scroll) /\ comp'.region = comp.region
    BY <1>2, <2>1, <2>2
  <2> QED BY <1>3, <1>7, <1>9, <2>3, <2>4 DEF m, R
<1>10. CASE comp.named /\ m.name = "SetWindowEditorRegion"
  <2>1. comp' = [comp EXCEPT !.inked = @ \cup R, !.region = set(comp.region)]
    BY <1>1, <1>10 DEF Sets
  <2>2. set(comp.region) \in [Window -> Geometry \cup {None}]
    BY <1>2, <1>5, <1>10
  <2>3. \A v \in Window : set(comp.region)[v] = IF v \in R THEN m.value ELSE comp.region[v]
    OBVIOUS
  <2> HIDE DEF set
  <2>4. /\ comp' \in [named : BOOLEAN, inked : SUBSET Window,
                      region : [Window -> Geometry \cup {None}], scroll : [Window -> Delta]]
        /\ comp'.scroll = comp.scroll /\ comp'.region = set(comp.region)
    BY <1>2, <1>4, <2>1, <2>2
  <2> QED BY <1>3, <1>7, <1>10, <2>3, <2>4 DEF m, R
<1> QED BY <1>5, <1>8, <1>9, <1>10

LEMMA ServeKeeps ==
  ASSUME KateInv, Serve
  PROVE  KateInv'
<1> DEFINE m == Head(calls)
<1>1. UNCHANGED <<kate, trackers, tracker, up, origin>>
  BY DEF Serve
<1>2. Managed' = Managed /\ Tracked' = Tracked
  BY <1>1 DEF Managed, Tracked
<1>3. Mapped'
  BY <1>1, <1>2 DEF KateInv, Mapped
<1>4. m \in Valid /\ Tracked \subseteq Managed
  BY ServeFacts DEF KateInv, Mapped
<1>5. m.name = "SetWindowEditorRegion" => m.value \in Geometry \cup {None}
  BY <1>4 DEF Valid, Valued
<1>6. m.name = "SetWindowScroll" => m.value \in Delta
  BY <1>4 DEF Valid, Valued
<1> HIDE DEF m
<1>7. ASSUME NEW v \in Window
      PROVE  /\ Agreed(calls, v, tracker[v])' /\ Anchored(v, tracker[v])'
             /\ v \notin Managed' => comp'.region[v] = None
  <2> DEFINE V == Regions(v, tracker[v])
             X == Scrolls(tracker[v])
  <2>1. /\ Agreed(calls, v, tracker[v]) /\ Anchored(v, tracker[v])
        /\ v \notin Managed => tracker[v] = NewTracker /\ comp.region[v] = None
        /\ comp.scroll[v] \in Delta /\ comp.region[v] \in Geometry \cup {None}
    BY <1>4 DEF KateInv
  <2>2. V' = V /\ X' = X
    BY <1>1, <1>2 DEF Regions, Scrolls
  <2>3. v \notin Managed => comp.region[v] \in V /\ comp.scroll[v] \in X
    BY <2>1, NewFacts DEF Regions
  <2>4. m.name = "SetWindowEditorRegion" /\ Told("SetWindowEditorRegion", v) = m.value
          => m.value \in V
    BY <1>5 DEF Told, Regions
  <2>5. m.name = "SetWindowScroll" /\ Told("SetWindowScroll", v) = m.value => m.value \in X
    BY <1>6 DEF Told, Scrolls
  <2>6. /\ InForce(calls, "SetWindowEditorRegion", v, comp.region[v], V)
        /\ InForce(calls, "SetWindowScroll", v, comp.scroll[v], X)
    BY <2>1 DEF Agreed
  <2> HIDE DEF V, X
  <2>7. /\ LastSays(calls', "SetWindowEditorRegion", v, V)
        /\ Silent(calls', "SetWindowEditorRegion", v) /\ v \notin astray'["SetWindowEditorRegion"]
             => comp'.region[v] \in V
    BY <2>3, <2>4, <2>6, ServeForce, ServeFacts DEF m
  <2>8. /\ LastSays(calls', "SetWindowScroll", v, X)
        /\ Silent(calls', "SetWindowScroll", v) /\ v \notin astray'["SetWindowScroll"]
             => comp'.scroll[v] \in X
    BY <2>3, <2>5, <2>6, ServeForce, ServeFacts DEF m
  <2>9. Agreed(calls, v, tracker[v])'
    BY <1>1, <2>2, <2>7, <2>8 DEF Agreed, InForce, V, X
  <2>10. HasScrollbar(v)' <=> HasScrollbar(v)
    BY <1>1, <1>2 DEF HasScrollbar
  <2>11. Alone(v)' <=> Alone(v)
    BY <1>2 DEF Alone, Siblings
  <2>12. Anchored(v, tracker[v])'
    BY <1>1, <1>2, <2>1, <2>10, <2>11, AnchoredStays
  <2>13. v \notin Managed => comp'.region[v] = None
    <3>1. v \notin Managed => v \notin Reached(m)
      BY DEF Reached, Meant
    <3> QED BY <2>1, <3>1, ServeFacts DEF m
  <2> QED BY <1>2, <2>9, <2>12, <2>13
<1> QED BY <1>1, <1>2, <1>3, <1>7, ServeFacts DEF KateInv, Typed

-----------------------------------------------------------------------------
(* The theorems                                                            *)

LEMMA InitKeeps == KateInit => KateInv
<1> SUFFICES ASSUME KateInit PROVE KateInv
  OBVIOUS
<1>1. /\ kate = [w \in Window |-> Gone]
      /\ trackers = <<>> /\ tracker = [w \in Window |-> NewTracker] /\ up = FALSE
      /\ calls = <<>>
      /\ comp = [named |-> FALSE, inked |-> {}, region |-> [w \in Window |-> None],
                 scroll |-> [w \in Window |-> 0]]
      /\ astray = [n \in {"SetWindowEditorRegion", "SetWindowScroll"} |-> {}]
      /\ origin = [w \in Window |-> None]
  BY DEF KateInit
<1>2. 0 \in Delta /\ 0 \in Offset
  <2>1. 0 \in Offset /\ 0 - 0 = 0
    BY KateAssumption
  <2> QED BY <2>1 DEF Delta
<1>3. Gone \in Kate /\ ~Gone.managed
  BY <1>2, KateAssumption DEF Gone, Kate
<1>4. kate \in [Window -> Kate] /\ Managed = {}
  BY <1>1, <1>3 DEF Managed
<1>5. Tracked = {} /\ <<>> \in Seq(Window) /\ <<>> \in Seq(Valid) /\ Len(<<>>) = 0
  <2>1. DOMAIN <<>> = {}
    OBVIOUS
  <2> QED BY <1>1, <2>1 DEF Tracked
<1>6. Mapped
  <2>1. IsFiniteSet(Managed)
    BY <1>4, FS_EmptySet
  <2>2. \A i \in 1 .. Len(trackers) : FALSE
    BY <1>1, <1>5
  <2> QED BY <1>1, <1>4, <1>5, <2>1, <2>2 DEF Mapped
<1>7. comp \in [named : BOOLEAN, inked : SUBSET Window,
                region : [Window -> Geometry \cup {None}], scroll : [Window -> Delta]]
  BY <1>1, <1>2
<1>8. tracker \in [Window -> Tracker] /\ origin \in [Window -> Int \cup {None}]
  BY <1>1, NewFacts
<1>9. astray \in [{"SetWindowEditorRegion", "SetWindowScroll"} -> SUBSET Window]
  BY <1>1
<1>10. ASSUME NEW v \in Window
       PROVE  /\ tracker[v] = NewTracker /\ Typed(tracker[v]) /\ comp.region[v] = None
              /\ Agreed(calls, v, tracker[v]) /\ Anchored(v, tracker[v])
  <2>1. /\ tracker[v] = NewTracker /\ origin[v] = None
        /\ comp.region[v] = None /\ comp.scroll[v] = 0
    BY <1>1
  <2>2. \A n, V : LastSays(calls, n, v, V)
    BY <1>1, <1>5 DEF LastSays
  <2>3. None \in Regions(v, tracker[v]) /\ Scrolls(tracker[v]) = Delta
    BY <2>1, NewFacts DEF Regions
  <2>4. Agreed(calls, v, tracker[v])
    BY <1>2, <2>1, <2>2, <2>3 DEF Agreed, InForce
  <2>5. Typed(tracker[v]) /\ Anchored(v, tracker[v])
    BY <2>1, NewFacts DEF Anchored
  <2> QED BY <2>1, <2>4, <2>5
<1> QED BY <1>1, <1>4, <1>5, <1>6, <1>7, <1>8, <1>9, <1>10 DEF KateInv

LEMMA StutterKeeps ==
  ASSUME KateInv, UNCHANGED kateVars
  PROVE  KateInv'
<1>1. UNCHANGED <<kate, trackers, tracker, up, calls, comp, astray, origin>>
  BY DEF kateVars
<1>2. Managed' = Managed /\ Tracked' = Tracked
  BY <1>1 DEF Managed, Tracked
<1>3. Mapped'
  BY <1>1, <1>2 DEF KateInv, Mapped
<1>4. ASSUME NEW v \in Window
      PROVE  Agreed(calls, v, tracker[v])' /\ Anchored(v, tracker[v])'
  <2>1. /\ Agreed(calls, v, tracker[v]) /\ Anchored(v, tracker[v])
        /\ tracker'[v] = tracker[v] /\ origin'[v] = origin[v]
    BY <1>1 DEF KateInv
  <2>2. HasScrollbar(v)' <=> HasScrollbar(v)
    BY <1>1, <1>2 DEF HasScrollbar
  <2>3. Alone(v)' <=> Alone(v)
    BY <1>2 DEF Alone, Siblings
  <2> QED BY <1>1, <1>2, <2>1, <2>2, <2>3, AgreedStays, AnchoredStays
<1> QED BY <1>1, <1>2, <1>3, <1>4 DEF KateInv, Typed

\* Whatever the trackers, Kate and the compositor do, calls in flight are what
\* stands between what a tracker remembers to have sent and what the compositor
\* keeps (dbusCall and its callers, kateTracker.js).
THEOREM KateInvariance == KateSpec => []KateInv
<1>1. KateInv /\ [KateNext]_kateVars => KateInv'
  <2> SUFFICES ASSUME KateInv, [KateNext]_kateVars PROVE KateInv'
    OBVIOUS
  <2>1. CASE Enable
    BY <2>1, EnableKeeps
  <2>2. CASE Disable
    BY <2>2, DisableKeeps
  <2>3. CASE NameAcquired
    BY <2>3, NameKeeps
  <2>4. CASE Serve
    BY <2>4, ServeKeeps
  <2>5. ASSUME NEW w \in Window, Discover(w) PROVE KateInv'
    BY <2>5, DiscoverKeeps
  <2>6. ASSUME NEW w \in Window, Poll(w) PROVE KateInv'
    BY <2>6, PollKeeps
  <2>7. ASSUME NEW w \in Window, FrameChanged(w) PROVE KateInv'
    BY <2>7, FrameKeeps
  <2>8. ASSUME NEW w \in Window, ValueChanged(w) PROVE KateInv'
    BY <2>8, ValueKeeps
  <2>9. ASSUME NEW w \in Window, NEW editor \in BOOLEAN, BoundsChanged(w, editor)
        PROVE  KateInv'
    BY <2>9, BoundsKeeps
  <2>10. ASSUME NEW w \in Window, MapWindow(w) PROVE KateInv'
    BY <2>10, MapKeeps
  <2>11. ASSUME NEW w \in Window, UnmanageWindow(w) PROVE KateInv'
    BY <2>11, UnmanageKeeps
  <2>12. ASSUME NEW w \in Window, Draw(w) PROVE KateInv'
    BY <2>12, DrawKeeps
  <2>13. ASSUME NEW w \in Window,
                PublishTree(w) \/ ScrollDocument(w) \/ MoveEditor(w) \/ Minimize(w)
         PROVE  KateInv'
    BY <2>13, UserKeeps
  <2>14. CASE UNCHANGED kateVars
    BY <2>14, StutterKeeps
  <2> QED BY <2>1, <2>2, <2>3, <2>4, <2>5, <2>6, <2>7, <2>8, <2>9, <2>10, <2>11,
             <2>12, <2>13, <2>14 DEF KateNext
<1> QED BY <1>1, InitKeeps, PTL DEF KateSpec

\* Every field of a tracker, every call and the compositor's side keep their
\* types: no attempt past the table of delays, no offset that is not one.
THEOREM KateTypeCorrect == KateSpec => []KateTypeOK
<1>1. KateInv => KateTypeOK
  <2> SUFFICES ASSUME KateInv PROVE KateTypeOK
    OBVIOUS
  <2>1. /\ calls \in Seq(Valid) /\ Valid \subseteq Call
        /\ trackers \in Seq(Window) /\ up \in BOOLEAN
    BY DEF KateInv, Mapped, Valid
  <2>2. calls \in Seq(Call)
    <3>1. Len(calls) \in Nat /\ calls \in [1 .. Len(calls) -> Valid]
      BY <2>1, LenProperties
    <3>2. calls \in [1 .. Len(calls) -> Call]
      BY <2>1, <3>1
    <3> QED BY <3>1, <3>2, SeqDef
  <2> QED BY <2>1, <2>2 DEF KateInv, KateTypeOK
<1> QED BY <1>1, KateInvariance, PTL

\* When the calls have settled, a tracked window has the region its tracker
\* last sent, and an untracked one none: destroy and _republishRegion leave no
\* region behind that no tracker stands for.
THEOREM RegionsAreTracked == KateSpec => []RegionAsTracked
<1>1. KateInv => RegionAsTracked
  <2> SUFFICES ASSUME KateInv, calls = <<>>,
                      NEW w \in Managed \ astray.SetWindowEditorRegion
               PROVE  \/ comp.region[w] = tracker[w].region
                      \/ w \in Tracked /\ tracker[w].region = None
    BY DEF RegionAsTracked
  <2>1. w \in Window
    BY DEF Managed
  <2>2. Agreed(calls, w, tracker[w])
    BY <2>1 DEF KateInv
  <2>3. Silent(calls, "SetWindowEditorRegion", w)
    BY DEF Silent
  <2>4. comp.region[w] \in Regions(w, tracker[w])
    BY <2>2, <2>3 DEF Agreed, InForce
  <2> QED BY <2>4 DEF Regions
<1> QED BY <1>1, KateInvariance, PTL

\* Over the text of a window alone in its process, ink stays on its line: the
\* baseline of the scrollbar is taken once (_captureBaseline), and the tracker
\* of that window finds no other scrollbar.
THEOREM InkIsOnText == KateSpec => []InkStaysOnText
<1>1. KateInv => InkStaysOnText
  <2> SUFFICES ASSUME KateInv, NEW w \in Window, origin[w] # None, Rested(w),
                      w \notin astray.SetWindowScroll
               PROVE  kate[w].offset - comp.scroll[w] = origin[w]
    BY DEF InkStaysOnText
  <2>1. tracker[w].scrollbar = w /\ tracker[w].sbBase = origin[w]
    BY DEF KateInv, Anchored
  <2>2. /\ kate[w].offset \in Int /\ tracker[w].sbBase \in Int
        /\ comp.scroll[w] = kate[w].offset - tracker[w].sbBase
    BY <2>1, RestedFacts
  <2> QED BY <2>1, <2>2
<1> QED BY <1>1, KateInvariance, PTL
=============================================================================
