------------------------------ MODULE DockProofs ------------------------------
(***************************************************************************)
(* What is in flight between the dock extension and Mutter.  A call that   *)
(* sets a flag matters only if it is the last of its name on its way; the  *)
(* invariant says what that call carries, what holds of the flag once none *)
(* is on its way, and which reply still to come will send one.  Calls that *)
(* got lost are in missed, and the invariant leaves their flag out until   *)
(* something sets it right.                                                *)
(***************************************************************************)
EXTENDS DockExtension, SequenceTheorems, TLAPS

-----------------------------------------------------------------------------
(* Queues                                                                  *)

\* No call of name n is on its way.
Absent(q, n) == \A i \in 1 .. Len(q) : q[i].name # n

\* The last call of name n, if one is on its way, carries a value of V.
LastIn(q, n, V) ==
  \/ Absent(q, n)
  \/ \E i \in 1 .. Len(q) : /\ q[i].name = n /\ q[i].value \in V
                            /\ \A j \in i + 1 .. Len(q) : q[j].name # n

\* The flag x will be in V, as far as the calls of name n get through.
InForce(q, n, lost, x, V) ==
  LastIn(q, n, V) /\ (Absent(q, n) /\ n \notin lost => x \in V)

\* A message of name n whose part by that name is TRUE.
Carries(q, n, part) == \E i \in 1 .. Len(q) : q[i].name = n /\ q[i][part] = TRUE

\* A reply to SetActive that reports success is on its way: the extension
\* will publish its regions and its colour.
Republish(q) == Carries(q, "SetActive", "ok")

\* SetActive(true) is on its way.
Activating(q) == Carries(q, "SetActive", "value")

-----------------------------------------------------------------------------
(* The invariant                                                           *)

\* What each method takes.
Valued(m) ==
  /\ m.name \in {"SetActive", "SetPaused"} => m.value \in BOOLEAN
  /\ m.name = "SetColor" => m.value \in Colour
  /\ m.name = "SetChromeRegions" => m.value \in Geometry \cup {NoGeometry}
  /\ m.name = "RegionActivated" => m.value \in Button
  /\ m.name = "SetActive" /\ m.value = TRUE => m.reply
  /\ m.reply => m.name \in {"SetActive", "SetPaused", "SetChromeRegions"}

Call == {m \in Message : Valued(m) /\ m.name # "RegionActivated"}

Answer == {m \in Message : Valued(m) /\ (m.reply \/ m.name = "RegionActivated")}

\* Types of the fields e and the messages, and what a disabled extension has
\* given up.
Typed(e, q, r) ==
  /\ e \in Extension /\ q \in Seq(Call) /\ r \in Seq(Answer)
  /\ ~e.enabled =>
       /\ ~e.shown /\ ~e.place /\ ~e.retryTimer /\ ~e.appeared
       /\ e.geometry = NoGeometry /\ e.pausedRetry = NoRetry

ActiveSent(e, q) == InForce(q, "SetActive", missed, comp.active, {e.enabled})

\* The intent in force.
Hides(e) == IF e.enabled THEN e.overview ELSE FALSE

\* A SetPaused of this session whose failure would be retried is of this
\* intent, or of an earlier epoch.
Superseded(e, q) ==
  \A i \in 1 .. Len(q) :
    q[i].name = "SetPaused" /\ q[i].reply /\ ~q[i].stale =>
      /\ e.enabled /\ q[i].epoch <= e.epoch
      /\ q[i].epoch = e.epoch => q[i].value = e.overview

\* The last SetPaused says what is meant, and so would the retry.
PausedSent(e, q) ==
  /\ InForce(q, "SetPaused", missed, comp.paused, {Hides(e)})
  /\ e.pausedRetry # NoRetry => e.pausedRetry.value = e.overview

\* The regions that suit the extension: nowhere if it is disabled or was never
\* laid out, else those of a dock that is shown, with a primary monitor, and has
\* nothing to publish.
Suits(e) ==
  IF ~e.enabled \/ e.geometry = NoGeometry THEN {NoGeometry}
  ELSE IF e.shown /\ e.monitor /\ ~e.place THEN {e.geometry}
  ELSE Geometry \cup {NoGeometry}

\* Those that suit it once it has published what it has.
Tolerates(e) ==
  IF ~e.enabled \/ e.geometry = NoGeometry THEN {NoGeometry}
  ELSE Geometry \cup {NoGeometry}

\* Before a reply that is on its way makes the extension publish again, the
\* regions of Mutter need only be tolerable.
RegionsSent(e, q, r) ==
  /\ LastIn(q, "SetChromeRegions", Suits(e))
  /\ Absent(q, "SetChromeRegions") /\ "SetChromeRegions" \notin missed =>
       /\ comp.chrome \in Tolerates(e)
       /\ Republish(r) \/ comp.chrome \in Suits(e)

\* Regions that got lost before Mutter had its name were never there.
RegionsLost ==
  bus = "unowned" \/ (bus = "served" /\ "SetChromeRegions" \in missed)
    => comp.chrome = NoGeometry

\* The colour was sent, or will be when Mutter says that it is active.
ColourSent(e, q, r) ==
  e.enabled =>
    \/ Activating(q) \/ Republish(r) \/ "SetActive" \in missed
    \/ InForce(q, "SetColor", missed, comp.colour, {e.colour})

Sent(e, q, r) == ActiveSent(e, q) /\ RegionsSent(e, q, r) /\ ColourSent(e, q, r)

DockInv ==
  /\ Typed(ext, calls, inbox)
  /\ comp \in [active : BOOLEAN, paused : BOOLEAN,
               chrome : Geometry \cup {NoGeometry},
               colour : Colour \cup {BootColour}]
  /\ bus \in {"unowned", "served", "taken", "deaf"}
  /\ missed \subseteq Flag /\ crossed \in BOOLEAN
  /\ Superseded(ext, calls) /\ Superseded(ext, inbox)
  /\ ~crossed => PausedSent(ext, calls)
  /\ Sent(ext, calls, inbox) /\ RegionsLost

-----------------------------------------------------------------------------
(* Queues                                                                  *)

\* A message at the end.
LEMMA PushFacts ==
  ASSUME NEW S, NEW q \in Seq(S), NEW m \in S, NEW n
  PROVE  /\ Append(q, m) \in Seq(S)
         /\ Absent(Append(q, m), n) <=> Absent(q, n) /\ m.name # n
         /\ \A part : Carries(Append(q, m), n, part) <=>
              Carries(q, n, part) \/ (m.name = n /\ m[part] = TRUE)
         /\ \A V : LastIn(q, n, V) /\ m.name # n => LastIn(Append(q, m), n, V)
         /\ \A V : m.name = n /\ m.value \in V => LastIn(Append(q, m), n, V)
         /\ \A e : Superseded(e, q) /\
              (m.name = "SetPaused" /\ m.reply /\ ~m.stale =>
                 /\ e.enabled /\ m.epoch <= e.epoch
                 /\ m.epoch = e.epoch => m.value = e.overview)
              => Superseded(e, Append(q, m))
<1> DEFINE r == Append(q, m)
           k == Len(q)
<1>1. /\ r \in Seq(S) /\ Len(r) = k + 1 /\ r[k + 1] = m /\ k \in Nat
      /\ \A i \in 1 .. k : r[i] = q[i]
  BY AppendProperties
<1>2. \A i \in 1 .. k + 1 : i \in 1 .. k \/ i = k + 1
  BY <1>1
<1>3. k + 1 \in 1 .. k + 1 /\ \A i \in 1 .. k : i \in 1 .. k + 1
  BY <1>1
<1> HIDE DEF r, k
<1>4. Absent(r, n) <=> Absent(q, n) /\ m.name # n
  BY <1>1, <1>2, <1>3 DEF Absent, k
<1>5. ASSUME NEW part
      PROVE  Carries(r, n, part) <=> Carries(q, n, part) \/ (m.name = n /\ m[part] = TRUE)
  BY <1>1, <1>2, <1>3 DEF Carries, k
<1>6. ASSUME NEW V, LastIn(q, n, V), m.name # n
      PROVE  LastIn(r, n, V)
  <2>1. CASE Absent(q, n)
    BY <1>4, <1>6, <2>1 DEF LastIn
  <2>2. ASSUME NEW i \in 1 .. k, q[i].name = n, q[i].value \in V,
               \A j \in i + 1 .. k : q[j].name # n
        PROVE  LastIn(r, n, V)
    <3>1. \A j \in i + 1 .. k + 1 : j \in i + 1 .. k \/ j = k + 1
      BY <1>1
    <3>2. i + 1 .. k \subseteq 1 .. k
      BY <1>1
    <3>3. \A j \in i + 1 .. k + 1 : r[j].name # n
      BY <1>1, <1>6, <2>2, <3>1, <3>2
    <3> QED BY <1>1, <1>3, <2>2, <3>3 DEF LastIn
  <2> QED BY <1>6, <2>1, <2>2 DEF LastIn, k
<1>7. ASSUME NEW V, m.name = n, m.value \in V
      PROVE  LastIn(r, n, V)
  <2>1. \A j \in (k + 1) + 1 .. k + 1 : FALSE
    BY <1>1
  <2> QED BY <1>1, <1>3, <1>7, <2>1 DEF LastIn
<1>8. ASSUME NEW e, Superseded(e, q),
             m.name = "SetPaused" /\ m.reply /\ ~m.stale =>
               /\ e.enabled /\ m.epoch <= e.epoch
               /\ m.epoch = e.epoch => m.value = e.overview
      PROVE  Superseded(e, r)
  <2> SUFFICES ASSUME NEW i \in 1 .. Len(r),
                      r[i].name = "SetPaused", r[i].reply, ~r[i].stale
               PROVE  /\ e.enabled /\ r[i].epoch <= e.epoch
                      /\ r[i].epoch = e.epoch => r[i].value = e.overview
    BY DEF Superseded
  <2>1. CASE i \in 1 .. k
    BY <1>1, <1>8, <2>1 DEF Superseded, k
  <2>2. CASE i = k + 1
    BY <1>1, <1>8, <2>2
  <2> QED BY <1>1, <1>2, <2>1, <2>2
<1> QED BY <1>1, <1>4, <1>5, <1>6, <1>7, <1>8 DEF r

\* The first message goes.
LEMMA TailFacts ==
  ASSUME NEW S, NEW q \in Seq(S), q # <<>>, NEW n
  PROVE  /\ Head(q) \in S /\ Tail(q) \in Seq(S)
         /\ Absent(q, n) <=> Absent(Tail(q), n) /\ Head(q).name # n
         /\ \A part : Carries(q, n, part) <=>
              Carries(Tail(q), n, part) \/ (Head(q).name = n /\ Head(q)[part] = TRUE)
         /\ \A V : LastIn(q, n, V) =>
              /\ LastIn(Tail(q), n, V)
              /\ Absent(Tail(q), n) /\ Head(q).name = n => Head(q).value \in V
         /\ \A e : Superseded(e, q) =>
              /\ Superseded(e, Tail(q))
              /\ Head(q).name = "SetPaused" /\ Head(q).reply /\ ~Head(q).stale =>
                   /\ e.enabled /\ Head(q).epoch <= e.epoch
                   /\ Head(q).epoch = e.epoch => Head(q).value = e.overview
<1> DEFINE r == Tail(q)
           k == Len(q)
           m == Head(q)
<1>1. /\ r \in Seq(S) /\ Len(r) = k - 1 /\ k \in Nat \ {0}
      /\ m = q[1] /\ m \in S
      /\ \A i \in 1 .. k - 1 : r[i] = q[i + 1]
  <2>1. k \in Nat \ {0}
    BY EmptySeq, LenProperties
  <2> QED BY <2>1, HeadTailProperties, ElementOfSeq
<1>2. /\ 1 \in 1 .. k
      /\ \A i \in 1 .. k - 1 : i + 1 \in 1 .. k
      /\ \A i \in 1 .. k : i = 1 \/ (i - 1 \in 1 .. k - 1 /\ (i - 1) + 1 = i)
  BY <1>1
<1> HIDE DEF r, k, m
<1>3. \A i \in 1 .. k : q[i] = m \/ (i - 1 \in 1 .. k - 1 /\ q[i] = r[i - 1])
  BY <1>1, <1>2
<1>4. Absent(q, n) <=> Absent(r, n) /\ m.name # n
  BY <1>1, <1>2, <1>3 DEF Absent, k
<1>5. ASSUME NEW part
      PROVE  Carries(q, n, part) <=> Carries(r, n, part) \/ (m.name = n /\ m[part] = TRUE)
  BY <1>1, <1>2, <1>3 DEF Carries, k
<1>6. ASSUME NEW V, LastIn(q, n, V)
      PROVE  /\ LastIn(r, n, V)
             /\ Absent(r, n) /\ m.name = n => m.value \in V
  <2>1. CASE Absent(q, n)
    BY <1>4, <2>1 DEF LastIn
  <2>2. ASSUME NEW i \in 1 .. k, q[i].name = n, q[i].value \in V,
               \A j \in i + 1 .. k : q[j].name # n
        PROVE  /\ LastIn(r, n, V)
               /\ Absent(r, n) /\ m.name = n => m.value \in V
    <3>1. CASE i = 1
      <4>1. \A j \in 1 .. k - 1 : j + 1 \in i + 1 .. k
        BY <1>1, <3>1
      <4>2. Absent(r, n)
        BY <1>1, <2>2, <4>1 DEF Absent
      <4> QED BY <1>1, <2>2, <3>1, <4>2 DEF LastIn
    <3>2. CASE i - 1 \in 1 .. k - 1 /\ (i - 1) + 1 = i
      <4>1. \A j \in (i - 1) + 1 .. k - 1 : j + 1 \in i + 1 .. k /\ j \in 1 .. k - 1
        BY <1>1, <3>2
      <4>2. r[i - 1] = q[i]
        BY <1>1, <3>2
      <4>3. \A j \in (i - 1) + 1 .. k - 1 : r[j].name # n
        BY <1>1, <2>2, <4>1
      <4>4. LastIn(r, n, V)
        BY <1>1, <2>2, <3>2, <4>2, <4>3 DEF LastIn
      <4>5. ~Absent(r, n)
        BY <1>1, <2>2, <3>2, <4>2 DEF Absent
      <4> QED BY <4>4, <4>5
    <3> QED BY <1>2, <3>1, <3>2
  <2> QED BY <1>6, <2>1, <2>2 DEF LastIn, k
<1>7. ASSUME NEW e, Superseded(e, q)
      PROVE  /\ Superseded(e, r)
             /\ m.name = "SetPaused" /\ m.reply /\ ~m.stale =>
                  /\ e.enabled /\ m.epoch <= e.epoch
                  /\ m.epoch = e.epoch => m.value = e.overview
  BY <1>1, <1>2, <1>7 DEF Superseded, k
<1> QED BY <1>1, <1>4, <1>5, <1>6, <1>7 DEF r, m

\* Messages of an old session are marked, and are else as they were.
LEMMA AgedFacts ==
  ASSUME NEW S \in {Call, Answer}, NEW q \in Seq(S)
  PROVE  /\ Aged(q) \in Seq(S)
         /\ \A e : Superseded(e, Aged(q))
         /\ \A n : Absent(Aged(q), n) <=> Absent(q, n)
         /\ \A n, V : LastIn(q, n, V) => LastIn(Aged(q), n, V)
         /\ Republish(Aged(q)) <=> Republish(q)
<1> DEFINE r == Aged(q)
           k == Len(q)
<1>1. k \in Nat /\ DOMAIN q = 1 .. k /\ \A i \in 1 .. k : q[i] \in S
  BY LenProperties, ElementOfSeq
<1>2. \A m \in S : [m EXCEPT !.stale = TRUE] \in S
  <2>1. ASSUME NEW m \in Message PROVE [m EXCEPT !.stale = TRUE] \in Message
    BY DEF Message
  <2>2. ASSUME NEW m \in Message
        PROVE  LET o == [m EXCEPT !.stale = TRUE]
               IN o.name = m.name /\ o.value = m.value /\ o.reply = m.reply
    BY DEF Message
  <2>3. ASSUME NEW m \in Message, Valued(m)
        PROVE  Valued([m EXCEPT !.stale = TRUE])
    BY <2>2, <2>3 DEF Valued
  <2>4. S \subseteq {m \in Message : Valued(m)}
    BY DEF Call, Answer
  <2> QED BY <2>1, <2>2, <2>3, <2>4 DEF Call, Answer
<1>3. \A m \in S :
        LET o == [m EXCEPT !.stale = TRUE]
        IN o.name = m.name /\ o.value = m.value /\ o.ok = m.ok /\ o.stale = TRUE
  BY DEF Call, Answer, Message
<1>4. r = [i \in 1 .. k |-> [q[i] EXCEPT !.stale = TRUE]]
  BY <1>1 DEF Aged
<1>5. \A i \in 1 .. k : r[i] \in S
  BY <1>1, <1>2, <1>4
<1>6. r \in Seq(S) /\ Len(r) = k
  <2>1. r \in [1 .. k -> S]
    BY <1>4, <1>5
  <2>2. r \in Seq(S)
    BY <1>1, <2>1, SeqDef
  <2>3. DOMAIN r = 1 .. k /\ DOMAIN r = 1 .. Len(r) /\ Len(r) \in Nat
    BY <2>1, <2>2, LenProperties
  <2>4. (k # 0 => k \in 1 .. k) /\ (Len(r) # 0 => Len(r) \in 1 .. Len(r))
    BY <1>1, <2>3
  <2> HIDE DEF r, k
  <2>5. Len(r) = k
    BY <1>1, <2>3, <2>4
  <2> QED BY <2>2, <2>5
<1>7. \A i \in 1 .. k : /\ r[i].name = q[i].name /\ r[i].value = q[i].value
                        /\ r[i].ok = q[i].ok /\ r[i].stale = TRUE
  <2>1. \A i \in 1 .. k : r[i] = [q[i] EXCEPT !.stale = TRUE] /\ q[i] \in S
    BY <1>1, <1>4
  <2> HIDE DEF r, k
  <2> QED BY <1>3, <2>1
<1> HIDE DEF r, k
<1>8. \A e : Superseded(e, r)
  BY <1>6, <1>7 DEF Superseded
<1>9. \A n : Absent(r, n) <=> Absent(q, n)
  BY <1>6, <1>7 DEF Absent, k
<1>10. ASSUME NEW n, NEW V, LastIn(q, n, V)
       PROVE  LastIn(r, n, V)
  <2>1. ASSUME NEW i \in 1 .. k, q[i].name = n, q[i].value \in V,
               \A j \in i + 1 .. k : q[j].name # n
        PROVE  LastIn(r, n, V)
    <3>1. i + 1 .. k \subseteq 1 .. k
      BY <1>1 DEF k
    <3> QED BY <1>6, <1>7, <2>1, <3>1 DEF LastIn
  <2> QED BY <1>9, <1>10, <2>1 DEF LastIn, k
<1>11. Republish(r) <=> Republish(q)
  BY <1>6, <1>7 DEF Republish, Carries, k
<1> QED BY <1>6, <1>8, <1>9, <1>10, <1>11 DEF r

-----------------------------------------------------------------------------
(* Calls                                                                   *)

\* The pair that handlers work on.
Hand == [e : Extension, q : Seq(Call)]

Msg(n, v, r, p) ==
  [name |-> n, value |-> v, epoch |-> p, reply |-> r, ok |-> FALSE, stale |-> FALSE]

\* The calls of the extension.
LEMMA MsgFacts ==
  ASSUME NEW n, NEW v, NEW r \in BOOLEAN, NEW p \in 0 .. MaxEpoch,
         \/ n = "SetActive" /\ v \in BOOLEAN /\ (v = TRUE => r)
         \/ n = "SetPaused" /\ v \in BOOLEAN
         \/ n = "SetChromeRegions" /\ v \in Geometry \cup {NoGeometry}
         \/ n = "SetColor" /\ v \in Colour /\ ~r
         \/ n = "Clear" /\ v = NoGeometry /\ ~r
  PROVE  /\ Msg(n, v, r, p) \in Call
         /\ Msg(n, v, r, p).name = n /\ Msg(n, v, r, p).value = v
         /\ Msg(n, v, r, p).reply = r /\ Msg(n, v, r, p).epoch = p
         /\ Msg(n, v, r, p).stale = FALSE
<1> DEFINE m == Msg(n, v, r, p)
<1>1. /\ m.name = n /\ m.value = v /\ m.reply = r /\ m.epoch = p
      /\ m.ok = FALSE /\ m.stale = FALSE
  BY DEF Msg
<1>2. m \in Message
  BY DEF Msg, Message, Flag
<1> HIDE DEF m
<1>3. Valued(m)
  BY <1>1 DEF Valued
<1> QED BY <1>1, <1>2, <1>3 DEF Call, m

\* A handler that sets fields, and one that sends.
LEMMA HandFacts ==
  ASSUME NEW h \in Hand
  PROVE  /\ h.e \in Extension /\ h.q \in Seq(Call)
         /\ \A f \in Extension :
              Sets(h, f) \in Hand /\ Sets(h, f).e = f /\ Sets(h, f).q = h.q
<1>1. h.e \in Extension /\ h.q \in Seq(Call)
  BY DEF Hand
<1>2. ASSUME NEW f \in Extension
      PROVE  Sets(h, f) \in Hand /\ Sets(h, f).e = f /\ Sets(h, f).q = h.q
  BY <1>2 DEF Hand, Sets
<1> QED BY <1>1, <1>2

Send(h, m) == [h EXCEPT !.q = Append(@, m)]

LEMMA SendFacts ==
  ASSUME NEW h \in Hand, NEW m \in Call
  PROVE  Send(h, m) \in Hand /\ Send(h, m).e = h.e /\ Send(h, m).q = Append(h.q, m)
<1>1. h.q \in Seq(Call) /\ Append(h.q, m) \in Seq(Call)
  BY AppendProperties DEF Hand
<1> QED BY <1>1 DEF Hand, Send

\* A call more leaves in force what it does not contradict.
LEMMA PushForce ==
  ASSUME NEW q \in Seq(Call), NEW m \in Call, NEW n, NEW lost, NEW x, NEW V,
         \/ m.name # n /\ InForce(q, n, lost, x, V)
         \/ m.name = n /\ m.value \in V
  PROVE  InForce(Append(q, m), n, lost, x, V)
  BY PushFacts DEF InForce

LEMMA AgedForce ==
  ASSUME NEW q \in Seq(Call), NEW n, NEW lost, NEW x, NEW V,
         InForce(q, n, lost, x, V)
  PROVE  InForce(Aged(q), n, lost, x, V)
  BY AgedFacts DEF InForce

\* The first call is served: the flag y that it may have set.
LEMMA ServeForce ==
  ASSUME NEW q \in Seq(Call), q # <<>>, NEW n, NEW lost, NEW less, NEW x, NEW y, NEW V,
         InForce(q, n, lost, x, V),
         Head(q).name # n => y = x /\ (n \notin less => n \notin lost),
         Head(q).name = n /\ n \notin less => y = Head(q).value
  PROVE  InForce(Tail(q), n, less, y, V)
<1>1. /\ LastIn(Tail(q), n, V)
      /\ Absent(Tail(q), n) /\ Head(q).name = n => Head(q).value \in V
      /\ Absent(q, n) <=> Absent(Tail(q), n) /\ Head(q).name # n
  BY TailFacts DEF InForce
<1> QED BY <1>1 DEF InForce

\* What the parts of the invariant look at.
SameDock(e, f) ==
  /\ f.enabled = e.enabled /\ f.colour = e.colour
  /\ f.shown = e.shown /\ f.geometry = e.geometry /\ f.place = e.place
  /\ f.monitor = e.monitor \/ ~e.enabled

SamePause(e, f) ==
  /\ f.enabled = e.enabled /\ f.overview = e.overview
  /\ f.epoch = e.epoch /\ f.pausedRetry = e.pausedRetry

\* A change of other fields disturbs nothing.
LEMMA SameKeeps ==
  ASSUME NEW e, NEW f, NEW q, NEW r
  PROVE  /\ SameDock(e, f) =>
              /\ ActiveSent(e, q) => ActiveSent(f, q)
              /\ RegionsSent(e, q, r) => RegionsSent(f, q, r)
              /\ ColourSent(e, q, r) => ColourSent(f, q, r)
         /\ SamePause(e, f) =>
              /\ Superseded(e, q) => Superseded(f, q)
              /\ PausedSent(e, q) => PausedSent(f, q)
<1>1. ASSUME SameDock(e, f)
      PROVE  /\ ActiveSent(e, q) => ActiveSent(f, q)
             /\ RegionsSent(e, q, r) => RegionsSent(f, q, r)
             /\ ColourSent(e, q, r) => ColourSent(f, q, r)
  <2>1. Suits(f) = Suits(e) /\ Tolerates(f) = Tolerates(e)
    BY <1>1 DEF SameDock, Suits, Tolerates
  <2> QED BY <1>1, <2>1 DEF SameDock, ActiveSent, RegionsSent, ColourSent
<1>2. ASSUME SamePause(e, f)
      PROVE  /\ Superseded(e, q) => Superseded(f, q)
             /\ PausedSent(e, q) => PausedSent(f, q)
  <2>1. Hides(f) = Hides(e)
    BY <1>2 DEF SamePause, Hides
  <2>2. ASSUME Superseded(e, q) PROVE Superseded(f, q)
    BY <1>2, <2>2 DEF SamePause, Superseded
  <2>3. ASSUME PausedSent(e, q) PROVE PausedSent(f, q)
    BY <1>2, <2>1, <2>3 DEF SamePause, PausedSent
  <2> QED BY <2>2, <2>3
<1> QED BY <1>1, <1>2

\* A later epoch supersedes every call on its way; and a session that is over
\* has none.
LEMMA LaterSupersedes ==
  ASSUME NEW S \in {Call, Answer}, NEW q \in Seq(S), NEW e, NEW f, Superseded(e, q),
         \/ ~e.enabled
         \/ f.enabled /\ e.epoch \in Int /\ f.epoch \in Int /\ f.epoch > e.epoch
  PROVE  Superseded(f, q)
<1> SUFFICES ASSUME NEW i \in 1 .. Len(q),
                    q[i].name = "SetPaused", q[i].reply, ~q[i].stale
             PROVE  f.enabled /\ q[i].epoch <= f.epoch /\ q[i].epoch # f.epoch
  BY DEF Superseded
<1>1. q[i] \in S
  BY ElementOfSeq
<1>2. q[i].epoch \in 0 .. MaxEpoch
  BY <1>1 DEF Call, Answer, Message
<1>3. e.enabled /\ q[i].epoch <= e.epoch
  BY DEF Superseded
<1> QED BY <1>2, <1>3, DockAssumption

\* Nor does a call that says what is meant.
LEMMA CallKeeps ==
  ASSUME NEW e, NEW q \in Seq(Call), NEW r, NEW m \in Call
  PROVE  /\ Superseded(e, q) /\ (m.name = "SetPaused" => ~m.reply)
              => Superseded(e, Append(q, m))
         /\ PausedSent(e, q) /\ (m.name = "SetPaused" => m.value = Hides(e))
              => PausedSent(e, Append(q, m))
         /\ ActiveSent(e, q) /\ (m.name = "SetActive" => m.value = e.enabled)
              => ActiveSent(e, Append(q, m))
         /\ RegionsSent(e, q, r) /\ m.name # "SetChromeRegions"
              => RegionsSent(e, Append(q, m), r)
         /\ m.name = "SetChromeRegions" /\ m.value \in Suits(e)
              => RegionsSent(e, Append(q, m), r)
         /\ ColourSent(e, q, r) /\ (m.name = "SetColor" => m.value = e.colour)
              => ColourSent(e, Append(q, m), r)
<1>1. Superseded(e, q) /\ (m.name = "SetPaused" => ~m.reply)
        => Superseded(e, Append(q, m))
  BY PushFacts
<1>2. PausedSent(e, q) /\ (m.name = "SetPaused" => m.value = Hides(e))
        => PausedSent(e, Append(q, m))
  BY PushForce DEF PausedSent
<1>3. ActiveSent(e, q) /\ (m.name = "SetActive" => m.value = e.enabled)
        => ActiveSent(e, Append(q, m))
  BY PushForce DEF ActiveSent
<1>4. RegionsSent(e, q, r) /\ m.name # "SetChromeRegions"
        => RegionsSent(e, Append(q, m), r)
  BY PushFacts DEF RegionsSent
<1>5. m.name = "SetChromeRegions" /\ m.value \in Suits(e)
        => RegionsSent(e, Append(q, m), r)
  BY PushFacts DEF RegionsSent
<1>6. ColourSent(e, q, r) /\ (m.name = "SetColor" => m.value = e.colour)
        => ColourSent(e, Append(q, m), r)
  <2>1. Activating(q) => Activating(Append(q, m))
    BY PushFacts DEF Activating
  <2> QED BY <2>1, PushForce DEF ColourSent
<1> QED BY <1>1, <1>2, <1>3, <1>4, <1>5, <1>6

-----------------------------------------------------------------------------
(* Publishing the regions                                                  *)

\* Where the dock is.
Spot(e) == IF e.shown /\ e.geometry # NoGeometry THEN e.geometry ELSE NoGeometry

\* There are regions that positioning the dock publishes.
Placed(e) == e.enabled /\ e.monitor /\ Spot(e) # NoGeometry

\* From e and q a publication makes f and t: it tells where the dock is, or
\* has nothing to tell or to take back.
Published(e, q, f, t) ==
  /\ f = e \/ f = [e EXCEPT !.published = FALSE]
  /\ \/ t = q /\ ~Placed(e)
     \/ \E b \in BOOLEAN :
          e.enabled /\ t = Append(q, Msg("SetChromeRegions", Spot(e), b, 0))

\* Spots are regions, and suit.
LEMMA SpotFacts ==
  ASSUME NEW e \in Extension
  PROVE  /\ Spot(e) \in Geometry \cup {NoGeometry}
         /\ e.enabled => Spot(e) \in Suits(e)
         /\ \A b \in BOOLEAN : Msg("SetChromeRegions", Spot(e), b, 0) \in Call
<1>1. e.geometry \in Geometry \cup {NoGeometry}
  BY DEF Extension
<1>2. Spot(e) \in Geometry \cup {NoGeometry}
  BY <1>1 DEF Spot
<1>3. e.enabled => Spot(e) \in Suits(e)
  BY <1>1 DEF Spot, Suits
<1>4. 0 \in 0 .. MaxEpoch
  BY DockAssumption
<1> QED BY <1>2, <1>3, <1>4, MsgFacts

LEMMA ClearEffect ==
  ASSUME NEW h \in Hand, h.e.enabled, Spot(h.e) = NoGeometry
  PROVE  /\ _clearChromeRegions(h) \in Hand
         /\ Published(h.e, h.q, _clearChromeRegions(h).e, _clearChromeRegions(h).q)
<1> DEFINE f == [h.e EXCEPT !.published = FALSE]
           k == Sets(h, f)
           m == Msg("SetChromeRegions", NoGeometry, FALSE, 0)
           d == Send(k, m)
<1>1. CASE ~h.e.published
  <2>1. _clearChromeRegions(h) = h
    BY <1>1 DEF _clearChromeRegions
  <2> QED BY <2>1 DEF Published, Placed
<1>2. CASE h.e.published
  <2>1. _clearChromeRegions(h) = d
    BY <1>2 DEF _clearChromeRegions, dbusCall, Send, Msg
  <2>2. f \in Extension
    <3>1. h.e \in Extension
      BY HandFacts
    <3> QED BY <3>1 DEF Extension
  <2> HIDE DEF f
  <2>3. k \in Hand /\ k.e = f /\ k.q = h.q
    BY <2>2, HandFacts
  <2>4. m = Msg("SetChromeRegions", Spot(h.e), FALSE, 0) /\ m \in Call
    BY HandFacts, SpotFacts
  <2> HIDE DEF k, m
  <2>5. d \in Hand /\ d.e = k.e /\ d.q = Append(k.q, m)
    BY <2>3, <2>4, SendFacts
  <2> HIDE DEF d
  <2>6. d.e = f /\ d.q = Append(h.q, m)
    BY <2>3, <2>5
  <2>7. Published(h.e, h.q, d.e, d.q)
    BY <2>4, <2>6 DEF Published, f
  <2> QED BY <2>1, <2>5, <2>7
<1> QED BY <1>1, <1>2

LEMMA PublishEffect ==
  ASSUME NEW h \in Hand
  PROVE  /\ _publishChromeRegions(h) \in Hand
         /\ Published(h.e, h.q, _publishChromeRegions(h).e, _publishChromeRegions(h).q)
<1> DEFINE m == Msg("SetChromeRegions", h.e.geometry, TRUE, 0)
           d == Send(h, m)
<1>1. CASE ~h.e.enabled
  <2>1. _publishChromeRegions(h) = h
    BY <1>1 DEF _publishChromeRegions
  <2> QED BY <1>1, <2>1 DEF Published, Placed
<1>2. CASE h.e.enabled /\ h.e.shown /\ h.e.geometry # NoGeometry
  <2>1. _publishChromeRegions(h) = d
    BY <1>2 DEF _publishChromeRegions, dbusCall, Send, Msg
  <2>2. Spot(h.e) = h.e.geometry
    BY <1>2 DEF Spot
  <2>3. m = Msg("SetChromeRegions", Spot(h.e), TRUE, 0) /\ m \in Call
    BY <2>2, HandFacts, SpotFacts
  <2> HIDE DEF m
  <2>4. d \in Hand /\ d.e = h.e /\ d.q = Append(h.q, m)
    BY <2>3, SendFacts
  <2> HIDE DEF d
  <2>5. Published(h.e, h.q, d.e, d.q)
    BY <1>2, <2>3, <2>4 DEF Published
  <2> QED BY <2>1, <2>4, <2>5
<1>3. CASE h.e.enabled /\ ~(h.e.shown /\ h.e.geometry # NoGeometry)
  <2>1. _publishChromeRegions(h) = _clearChromeRegions(h)
    BY <1>3 DEF _publishChromeRegions
  <2>2. Spot(h.e) = NoGeometry
    BY <1>3 DEF Spot
  <2> QED BY <1>3, <2>1, <2>2, ClearEffect
<1> QED BY <1>1, <1>2, <1>3

LEMMA PositionEffect ==
  ASSUME NEW h \in Hand
  PROVE  /\ _positionDock(h) \in Hand
         /\ Published(h.e, h.q, _positionDock(h).e, _positionDock(h).q)
<1>1. CASE h.e.enabled /\ h.e.monitor
  <2>1. _positionDock(h) = _publishChromeRegions(h)
    BY <1>1 DEF _positionDock
  <2> QED BY <2>1, PublishEffect
<1>2. CASE ~(h.e.enabled /\ h.e.monitor)
  <2>1. _positionDock(h) = h
    BY <1>2 DEF _positionDock
  <2> QED BY <1>2, <2>1 DEF Published, Placed
<1> QED BY <1>1, <1>2

\* A publication keeps types and all that is not about regions; and regions,
\* unless something was amiss that it does not tell.
LEMMA PublishKeeps ==
  ASSUME NEW e, NEW q, NEW r, NEW f, NEW t, Typed(e, q, r), Published(e, q, f, t)
  PROVE  /\ Typed(f, t, r) /\ SameDock(e, f) /\ SamePause(e, f)
         /\ \A g : Superseded(g, q) => Superseded(g, t)
         /\ PausedSent(e, q) => PausedSent(f, t)
         /\ ActiveSent(e, q) => ActiveSent(f, t)
         /\ ColourSent(e, q, r) => ColourSent(f, t, r)
         /\ Placed(e) \/ RegionsSent(e, q, r)
              => RegionsSent(f, t, r)
<1>1. /\ e \in Extension /\ q \in Seq(Call) /\ r \in Seq(Answer)
      /\ e.enabled \in BOOLEAN /\ e.geometry \in Geometry \cup {NoGeometry}
  BY DEF Typed, Extension
<1>2. /\ f \in Extension /\ SameDock(e, f) /\ SamePause(e, f)
      /\ f.retryTimer = e.retryTimer /\ f.appeared = e.appeared
  <2>1. CASE f = e
    BY <1>1, <2>1 DEF SamePause, SameDock
  <2>2. CASE f = [e EXCEPT !.published = FALSE]
    BY <1>1, <2>2 DEF SamePause, SameDock, Extension
  <2> QED BY <2>1, <2>2 DEF Published
<1>3. /\ PausedSent(e, q) => PausedSent(f, q)
      /\ ActiveSent(e, q) => ActiveSent(f, q)
      /\ ColourSent(e, q, r) => ColourSent(f, q, r)
      /\ RegionsSent(e, q, r) => RegionsSent(f, q, r)
  BY <1>2, SameKeeps
<1>4. f.enabled = e.enabled /\ Suits(f) = Suits(e)
  BY <1>2 DEF SamePause, SameDock, Suits
<1>5. Typed(f, q, r)
  BY <1>1, <1>2 DEF Typed, SamePause, SameDock
<1>6. CASE t = q /\ ~Placed(e)
  BY <1>2, <1>3, <1>5, <1>6
<1>7. ASSUME NEW b \in BOOLEAN, e.enabled,
             t = Append(q, Msg("SetChromeRegions", Spot(e), b, 0))
      PROVE  /\ Typed(f, t, r)
             /\ \A g : Superseded(g, q) => Superseded(g, t)
             /\ PausedSent(e, q) => PausedSent(f, t)
             /\ ActiveSent(e, q) => ActiveSent(f, t)
             /\ ColourSent(e, q, r) => ColourSent(f, t, r)
             /\ RegionsSent(f, t, r)
  <2> DEFINE m == Msg("SetChromeRegions", Spot(e), b, 0)
  <2>1. Spot(e) \in Suits(f)
    BY <1>1, <1>4, <1>7, SpotFacts
  <2>2. m \in Call /\ m.name = "SetChromeRegions" /\ m.value = Spot(e)
    <3>1. m.name = "SetChromeRegions" /\ m.value = Spot(e)
      BY DEF Msg
    <3> QED BY <1>1, <3>1, SpotFacts
  <2> HIDE DEF m
  <2>3. t = Append(q, m)
    BY <1>7 DEF m
  <2>4. Typed(f, t, r)
    BY <1>1, <1>5, <2>2, <2>3, AppendProperties DEF Typed
  <2>5. RegionsSent(f, t, r)
    BY <1>1, <2>1, <2>2, <2>3, CallKeeps
  <2>6. /\ \A g : Superseded(g, q) => Superseded(g, t)
        /\ PausedSent(f, q) => PausedSent(f, t)
        /\ ActiveSent(f, q) => ActiveSent(f, t)
        /\ ColourSent(f, q, r) => ColourSent(f, t, r)
    BY <1>1, <2>2, <2>3, CallKeeps
  <2> QED BY <1>3, <2>4, <2>5, <2>6
<1> QED BY <1>2, <1>6, <1>7 DEF Published

-----------------------------------------------------------------------------
(* Actions                                                                 *)

\* What an action has to show that leaves Mutter and the bus alone.
LEMMA Unserved ==
  ASSUME DockInv, UNCHANGED <<comp, bus, missed>>, crossed' \in BOOLEAN,
         Typed(ext', calls', inbox'),
         Superseded(ext', calls'), Superseded(ext', inbox'),
         ~crossed' => PausedSent(ext', calls'),
         ActiveSent(ext', calls'), RegionsSent(ext', calls', inbox'),
         ColourSent(ext', calls', inbox')
  PROVE  DockInv'
<1>1. /\ Typed(ext, calls, inbox)' /\ Superseded(ext, calls)' /\ Superseded(ext, inbox)'
  BY DEF Typed, Superseded
<1>2. (~crossed => PausedSent(ext, calls))'
  BY DEF PausedSent, InForce
<1>3. ActiveSent(ext, calls)' /\ RegionsSent(ext, calls, inbox)'
      /\ ColourSent(ext, calls, inbox)'
  BY DEF ActiveSent, RegionsSent, ColourSent, InForce
<1>4. RegionsLost'
  BY DEF DockInv, RegionsLost
<1> QED BY <1>1, <1>2, <1>3, <1>4 DEF DockInv, Sent

\* The parts of the invariant at hand.
LEMMA DockFacts ==
  ASSUME DockInv
  PROVE  /\ Typed(ext, calls, inbox)
         /\ ext \in Extension /\ calls \in Seq(Call) /\ inbox \in Seq(Answer)
         /\ Handler(ext) \in Hand
         /\ Superseded(ext, calls) /\ Superseded(ext, inbox)
         /\ ~crossed => PausedSent(ext, calls)
         /\ ActiveSent(ext, calls) /\ RegionsSent(ext, calls, inbox)
         /\ ColourSent(ext, calls, inbox)
  BY DEF DockInv, Sent, Typed, Handler, Hand

\* A new start for a handler.
LEMMA HandlerFacts ==
  ASSUME DockInv, NEW e \in Extension
  PROVE  Handler(e) \in Hand /\ Handler(e).e = e /\ Handler(e).q = calls
  BY DockFacts DEF Handler, Hand

\* Layout, and the idles and timers that publish it.
LEMMA AllocateKeeps ==
  ASSUME DockInv, NEW g \in Geometry, Allocate(g)
  PROVE  DockInv'
<1>1. /\ ext.enabled /\ ext.shown
      /\ ext' = [ext EXCEPT !.geometry = g, !.place = TRUE]
      /\ calls' = calls /\ inbox' = inbox /\ crossed' = crossed
      /\ UNCHANGED <<comp, bus, missed>>
  BY DEF Allocate
<1>2. /\ ext' \in Extension /\ SamePause(ext, ext') /\ ext'.colour = ext.colour
      /\ ext'.enabled /\ ext'.place /\ ext'.geometry = g
  BY <1>1, DockFacts DEF Extension, SamePause
<1>3. Typed(ext', calls', inbox')
  BY <1>1, <1>2, DockFacts DEF Typed
<1>4. Suits(ext') = Geometry \cup {NoGeometry} /\ Tolerates(ext') = Geometry \cup {NoGeometry}
  BY <1>2, DockAssumption DEF Suits, Tolerates
<1>5. RegionsSent(ext', calls', inbox')
  <2>1. Suits(ext) \subseteq Suits(ext')
    BY <1>4, DockFacts DEF Suits, Extension
  <2>2. comp.chrome \in Geometry \cup {NoGeometry}
    BY DEF DockInv
  <2>3. LastIn(calls, "SetChromeRegions", Suits(ext))
    BY DockFacts DEF RegionsSent
  <2>4. LastIn(calls, "SetChromeRegions", Suits(ext'))
    BY <2>1, <2>3 DEF LastIn
  <2> QED BY <1>1, <1>4, <2>2, <2>4 DEF RegionsSent
<1>6. ActiveSent(ext', calls') /\ ColourSent(ext', calls', inbox')
  BY <1>1, <1>2, DockFacts DEF ActiveSent, ColourSent
<1>7. /\ Superseded(ext', calls') /\ Superseded(ext', inbox')
      /\ ~crossed' => PausedSent(ext', calls')
  BY <1>1, <1>2, DockFacts, SameKeeps
<1>8. crossed' \in BOOLEAN
  BY <1>1 DEF DockInv
<1> QED BY <1>1, <1>3, <1>5, <1>6, <1>7, <1>8, Unserved

\* Where nothing is published, what was published before is not amiss.
LEMMA Unpublished ==
  ASSUME DockInv, ext.enabled, NEW e \in Extension,
         e.enabled, e.geometry = ext.geometry, ~Placed(e)
  PROVE  RegionsSent(e, calls, inbox)
<1>1. Suits(e) = Tolerates(e) /\ Tolerates(e) = Tolerates(ext)
  BY DEF Suits, Tolerates, Placed, Spot
<1>2. Suits(ext) \subseteq Tolerates(ext)
  BY DockFacts DEF Suits, Tolerates, Extension
<1>3. LastIn(calls, "SetChromeRegions", Suits(e))
  BY <1>1, <1>2, DockFacts DEF RegionsSent, LastIn
<1> QED BY <1>1, <1>3, DockFacts DEF RegionsSent

\* Positioning from e keeps the invariant.
LEMMA PositionInv ==
  ASSUME DockInv, NEW e \in Extension,
         SamePause(ext, e), e.colour = ext.colour, e.enabled,
         e.geometry = ext.geometry,
         Becomes(_positionDock(Handler(e))),
         UNCHANGED <<inbox, comp, bus, missed, crossed>>
  PROVE  DockInv'
<1> DEFINE h == Handler(e)
           k == _positionDock(h)
<1>1. ext' = k.e /\ calls' = k.q
  BY DEF Becomes
<1>2. h \in Hand /\ h.e = e /\ h.q = calls
  BY HandlerFacts
<1> HIDE DEF h
<1>3. k \in Hand /\ Published(h.e, h.q, k.e, k.q)
  BY <1>2, PositionEffect
<1> HIDE DEF k
<1>4. Published(e, calls, ext', calls')
  BY <1>1, <1>2, <1>3
<1>5. Typed(e, calls, inbox)
  BY DockFacts DEF Typed
<1>6. /\ Superseded(e, calls) /\ Superseded(e, inbox)
      /\ ~crossed => PausedSent(e, calls)
  BY DockFacts, SameKeeps
<1>7. ActiveSent(e, calls) /\ ColourSent(e, calls, inbox)
  BY DockFacts DEF ActiveSent, ColourSent, SamePause
<1>8. Placed(e) \/ RegionsSent(e, calls, inbox)
  BY Unpublished DEF SamePause
<1>9. /\ Typed(ext', calls', inbox) /\ SameDock(e, ext') /\ SamePause(e, ext')
      /\ Superseded(e, calls')
      /\ PausedSent(e, calls) => PausedSent(ext', calls')
      /\ ActiveSent(ext', calls') /\ ColourSent(ext', calls', inbox)
      /\ RegionsSent(ext', calls', inbox)
  BY <1>4, <1>5, <1>6, <1>7, <1>8, PublishKeeps
<1>10. Superseded(ext', calls') /\ Superseded(ext', inbox)
  BY <1>6, <1>9, SameKeeps
<1>11. crossed' \in BOOLEAN
  BY DEF DockInv
<1> QED BY <1>6, <1>9, <1>10, <1>11, Unserved

LEMMA PositionKeeps == DockInv /\ (PositionIdle \/ PositionRetry) => DockInv'
<1> SUFFICES ASSUME DockInv, PositionIdle \/ PositionRetry PROVE DockInv'
  OBVIOUS
<1>1. CASE PositionIdle
  <2> DEFINE e == [ext EXCEPT !.place = FALSE]
  <2>1. /\ e \in Extension /\ SamePause(ext, e) /\ e.colour = ext.colour
        /\ e.geometry = ext.geometry
    BY DockFacts DEF Extension, SamePause
  <2>2. ext.enabled
    BY <1>1, DockFacts DEF Typed, PositionIdle
  <2>3. e.enabled
    BY <2>1, <2>2 DEF SamePause
  <2>4. /\ Becomes(_positionDock(Handler(e)))
        /\ UNCHANGED <<inbox, comp, bus, missed, crossed>>
    BY <1>1 DEF PositionIdle
  <2> HIDE DEF e
  <2> QED BY <2>1, <2>3, <2>4, PositionInv
<1>2. CASE PositionRetry
  <2>1. SamePause(ext, ext)
    BY DEF SamePause
  <2> QED BY <1>2, <2>1, DockFacts, PositionInv DEF PositionRetry
<1> QED BY <1>1, <1>2

\* A button of the dock: Clear, or a colour that is armed and sent.
LEMMA ActivateKeeps ==
  ASSUME NEW h \in Hand, NEW id \in Button, NEW r, Typed(h.e, h.q, r), h.e.enabled
  PROVE  LET k == _activateRegion(h, id)
         IN /\ Typed(k.e, k.q, r)
            /\ \A g : Superseded(g, h.q) => Superseded(g, k.q)
            /\ SamePause(h.e, k.e)
            /\ PausedSent(h.e, h.q) => PausedSent(k.e, k.q)
            /\ ActiveSent(h.e, h.q) => ActiveSent(k.e, k.q)
            /\ RegionsSent(h.e, h.q, r) => RegionsSent(k.e, k.q, r)
            /\ ColourSent(h.e, h.q, r) => ColourSent(k.e, k.q, r)
<1> DEFINE k == _activateRegion(h, id)
           e == h.e
           q == h.q
<1>1. e \in Extension /\ q \in Seq(Call) /\ 0 \in 0 .. MaxEpoch
  BY HandFacts, DockAssumption
<1>2. CASE id = ClearId
  <2> DEFINE m == Msg("Clear", NoGeometry, FALSE, 0)
  <2>1. k = Send(h, m)
    BY <1>2 DEF _activateRegion, dbusCall, Send, Msg
  <2>2. m \in Call
    BY <1>1, MsgFacts
  <2>3. m.name = "Clear"
    BY DEF Msg
  <2> HIDE DEF m, k
  <2>4. k.e = e /\ k.q = Append(q, m)
    BY <2>1, <2>2, SendFacts
  <2> HIDE DEF e, q
  <2>5. Typed(k.e, k.q, r)
    BY <1>1, <2>2, <2>4, AppendProperties DEF Typed, e, q
  <2>6. SamePause(e, k.e)
    BY <2>4 DEF SamePause
  <2> QED BY <1>1, <2>2, <2>3, <2>4, <2>5, <2>6, CallKeeps DEF e, q, k
<1>3. CASE id # ClearId
  <2> DEFINE f == [h.e EXCEPT !.colour = id]
             m == Msg("SetColor", id, FALSE, 0)
             s == Sets(h, f)
  <2>1. k = Send(s, m)
    BY <1>3 DEF _activateRegion, dbusCall, Send, Msg
  <2>2. id \in Colour
    BY <1>3, DockAssumption
  <2>3. m \in Call
    BY <1>1, <2>2, MsgFacts
  <2>4. m.name = "SetColor" /\ m.value = id
    BY DEF Msg
  <2>5. /\ f \in Extension /\ SamePause(e, f) /\ f.colour = id
        /\ f.enabled = e.enabled /\ f.shown = e.shown /\ f.geometry = e.geometry
        /\ f.monitor = e.monitor
        /\ f.place = e.place /\ f.retryTimer = e.retryTimer /\ f.appeared = e.appeared
    BY <1>1, <2>2 DEF Extension, SamePause
  <2> HIDE DEF m, k, f
  <2>6. s \in Hand /\ s.e = f /\ s.q = q
    BY <2>5, HandFacts
  <2> HIDE DEF s
  <2>7. k.e = s.e /\ k.q = Append(s.q, m)
    BY <2>1, <2>3, <2>6, SendFacts
  <2> HIDE DEF e, q
  <2>8. k.e = f /\ k.q = Append(q, m)
    BY <2>6, <2>7
  <2>9. Typed(f, q, r)
    BY <2>5, <1>1 DEF Typed, e, q
  <2>10. Typed(k.e, k.q, r)
    BY <1>1, <2>3, <2>8, <2>9, AppendProperties DEF Typed
  <2>11. ActiveSent(e, q) => ActiveSent(f, q)
    BY <2>5 DEF ActiveSent
  <2>12. RegionsSent(e, q, r) => RegionsSent(f, q, r)
    <3>1. Suits(f) = Suits(e) /\ Tolerates(f) = Tolerates(e)
      BY <2>5 DEF Suits, Tolerates
    <3> QED BY <3>1 DEF RegionsSent
  <2>13. PausedSent(e, q) => PausedSent(f, q)
    BY <2>5, SameKeeps
  <2>14. ColourSent(f, Append(q, m), r)
    <3>1. InForce(Append(q, m), "SetColor", missed, comp.colour, {f.colour})
      BY <1>1, <2>3, <2>4, <2>5, PushForce
    <3> QED BY <3>1 DEF ColourSent
  <2>15. /\ \A g : Superseded(g, q) => Superseded(g, Append(q, m))
         /\ PausedSent(f, q) => PausedSent(f, Append(q, m))
         /\ ActiveSent(f, q) => ActiveSent(f, Append(q, m))
         /\ RegionsSent(f, q, r) => RegionsSent(f, Append(q, m), r)
    BY <1>1, <2>3, <2>4, CallKeeps
  <2>16. SamePause(e, k.e)
    BY <2>5, <2>8
  <2> QED BY <2>8, <2>10, <2>11, <2>12, <2>13, <2>14, <2>15, <2>16 DEF e, q, k
<1> QED BY <1>2, <1>3

LEMMA ClickKeeps ==
  ASSUME DockInv, NEW id \in Button, Click(id)
  PROVE  DockInv'
<1> DEFINE h == Handler(ext)
           k == _activateRegion(h, id)
<1>1. /\ ext' = k.e /\ calls' = k.q /\ ext.enabled
      /\ UNCHANGED <<inbox, comp, bus, missed, crossed>>
  BY DEF Click, Becomes
<1>2. h \in Hand /\ h.e = ext /\ h.q = calls
  BY DockFacts, HandlerFacts
<1>3. Typed(h.e, h.q, inbox)
  BY <1>2, DockFacts
<1> HIDE DEF h
<1>4. /\ Typed(k.e, k.q, inbox)
      /\ \A g : Superseded(g, h.q) => Superseded(g, k.q)
      /\ SamePause(h.e, k.e)
      /\ PausedSent(h.e, h.q) => PausedSent(k.e, k.q)
      /\ ActiveSent(h.e, h.q) => ActiveSent(k.e, k.q)
      /\ RegionsSent(h.e, h.q, inbox) => RegionsSent(k.e, k.q, inbox)
      /\ ColourSent(h.e, h.q, inbox) => ColourSent(k.e, k.q, inbox)
  BY <1>1, <1>2, <1>3, ActivateKeeps
<1> HIDE DEF k
<1>5. SamePause(ext, ext')
  BY <1>1, <1>2, <1>4
<1>6. Superseded(ext', calls) /\ Superseded(ext', inbox)
  BY <1>5, DockFacts, SameKeeps
<1>7. crossed' \in BOOLEAN
  BY <1>1 DEF DockInv
<1> QED BY <1>1, <1>2, <1>4, <1>6, <1>7, DockFacts, Unserved

\* What a reply promises, another makes no worse.
LEMMA RepublishKeeps ==
  ASSUME NEW e, NEW q, NEW r, NEW s, Republish(r) => Republish(s)
  PROVE  /\ RegionsSent(e, q, r) => RegionsSent(e, q, s)
         /\ ColourSent(e, q, r) => ColourSent(e, q, s)
  BY DEF RegionsSent, ColourSent

LEMMA RegionActivatedKeeps ==
  ASSUME DockInv, NEW id \in Button, RegionActivated(id)
  PROVE  DockInv'
<1> DEFINE m == [name |-> "RegionActivated", value |-> id, epoch |-> 0,
                 reply |-> FALSE, ok |-> TRUE, stale |-> FALSE]
<1>1. /\ inbox' = Append(inbox, m) /\ ext' = ext /\ calls' = calls
      /\ UNCHANGED <<comp, bus, missed, crossed>>
  BY DEF RegionActivated
<1>2. m \in Answer /\ m.name = "RegionActivated"
  <2>1. id \in Colour \cup {ClearId} /\ 0 \in 0 .. MaxEpoch
    BY DockAssumption
  <2>2. m \in Message
    BY <2>1 DEF Message
  <2>3. m.name = "RegionActivated" /\ m.value = id /\ m.reply = FALSE
    OBVIOUS
  <2> HIDE DEF m
  <2> QED BY <2>2, <2>3 DEF Answer, Valued
<1> HIDE DEF m
<1>3. /\ inbox' \in Seq(Answer) /\ Superseded(ext, inbox')
      /\ Republish(inbox) => Republish(inbox')
  BY <1>1, <1>2, DockFacts, PushFacts DEF Republish
<1>4. Typed(ext', calls', inbox')
  BY <1>1, <1>3, DockFacts DEF Typed
<1>5. RegionsSent(ext, calls, inbox') /\ ColourSent(ext, calls, inbox')
  BY <1>3, DockFacts, RepublishKeeps
<1>6. crossed' \in BOOLEAN
  BY <1>1 DEF DockInv
<1> QED BY <1>1, <1>3, <1>4, <1>5, <1>6, DockFacts, Unserved

\* SetActive(true) is sent again.
LEMMA ActiveAgain ==
  ASSUME DockInv, NEW e \in Extension, SamePause(ext, e), SameDock(ext, e), e.enabled,
         Becomes(_trySetAnnotationActive(Handler(e))),
         UNCHANGED <<inbox, comp, bus, missed, crossed>>
  PROVE  DockInv'
<1> DEFINE m == Msg("SetActive", TRUE, TRUE, 0)
           h == Handler(e)
<1>1. ext' = Send(h, m).e /\ calls' = Send(h, m).q
  BY DEF Becomes, _trySetAnnotationActive, dbusCall, Send, Msg
<1>2. m \in Call
  <2>1. 0 \in 0 .. MaxEpoch
    BY DockAssumption
  <2> QED BY <2>1, MsgFacts
<1>3. m.name = "SetActive" /\ m.value = TRUE
  BY DEF Msg
<1> HIDE DEF m
<1>4. h \in Hand /\ h.e = e /\ h.q = calls
  BY HandlerFacts
<1> HIDE DEF h
<1>5. ext' = h.e /\ calls' = Append(h.q, m)
  BY <1>1, <1>2, <1>4, SendFacts
<1>6. ext' = e /\ calls' = Append(calls, m)
  BY <1>4, <1>5
<1>7. Typed(e, Append(calls, m), inbox)
  BY <1>2, DockFacts, AppendProperties DEF Typed
<1>8. /\ Superseded(e, calls) /\ Superseded(e, inbox)
      /\ ~crossed => PausedSent(e, calls)
      /\ ActiveSent(e, calls) /\ RegionsSent(e, calls, inbox)
      /\ ColourSent(e, calls, inbox)
  BY DockFacts, SameKeeps
<1>9. m.value = e.enabled
  <2>1. e.enabled \in BOOLEAN
    BY DEF Extension
  <2> QED BY <1>3, <2>1
<1>10. /\ Superseded(e, Append(calls, m))
       /\ ~crossed => PausedSent(e, Append(calls, m))
       /\ ActiveSent(e, Append(calls, m)) /\ RegionsSent(e, Append(calls, m), inbox)
       /\ ColourSent(e, Append(calls, m), inbox)
  BY <1>2, <1>3, <1>8, <1>9, DockFacts, CallKeeps
<1>11. crossed' \in BOOLEAN
  BY DEF DockInv
<1> QED BY <1>6, <1>7, <1>8, <1>10, <1>11, Unserved

\* A change that nothing depends on.
LEMMA FieldsKeep ==
  ASSUME DockInv, NEW e \in Extension, SamePause(ext, e), SameDock(ext, e),
         ~e.enabled => ~e.retryTimer /\ ~e.appeared,
         ext' = e, UNCHANGED <<calls, inbox, comp, bus, missed, crossed>>
  PROVE  DockInv'
<1>1. Typed(e, calls, inbox)
  BY DockFacts DEF Typed, SamePause, SameDock
<1>2. /\ Superseded(e, calls) /\ Superseded(e, inbox)
      /\ ~crossed => PausedSent(e, calls)
      /\ ActiveSent(e, calls) /\ RegionsSent(e, calls, inbox)
      /\ ColourSent(e, calls, inbox)
  BY DockFacts, SameKeeps
<1>3. crossed' \in BOOLEAN
  BY DEF DockInv
<1> QED BY <1>1, <1>2, <1>3, Unserved

LEMMA RetrySetActiveKeeps == DockInv /\ RetrySetActive => DockInv'
<1> SUFFICES ASSUME DockInv, RetrySetActive PROVE DockInv'
  OBVIOUS
<1>1. ext.enabled
  BY DockFacts DEF Typed, RetrySetActive
<1>2. UNCHANGED <<inbox, comp, bus, missed, crossed>>
  BY DEF RetrySetActive
<1>3. CASE GivesUp(ext)
  <2> DEFINE e == [ext EXCEPT !.retryTimer = FALSE]
  <2>1. ext' = e /\ calls' = calls
    BY <1>3 DEF RetrySetActive
  <2>2. e \in Extension /\ SamePause(ext, e) /\ SameDock(ext, e) /\ e.enabled
    BY <1>1, DockFacts DEF Extension, SamePause, SameDock
  <2> HIDE DEF e
  <2> QED BY <1>2, <2>1, <2>2, FieldsKeep
<1>4. CASE ~GivesUp(ext)
  <2> DEFINE e == [ext EXCEPT !.retries = @ + 1]
  <2>1. Becomes(_trySetAnnotationActive(Handler(e)))
    BY <1>4 DEF RetrySetActive
  <2>2. ext.retries + 1 \in 0 .. MaxRetry
    BY <1>4, DockFacts, DockAssumption DEF GivesUp, Extension
  <2>3. e \in Extension /\ SamePause(ext, e) /\ SameDock(ext, e) /\ e.enabled
    BY <1>1, <2>2, DockFacts DEF Extension, SamePause, SameDock
  <2> HIDE DEF e
  <2> QED BY <1>2, <2>1, <2>3, ActiveAgain
<1> QED BY <1>3, <1>4

LEMMA NameAppearedKeeps == DockInv /\ NameAppeared => DockInv'
<1> SUFFICES ASSUME DockInv, NameAppeared PROVE DockInv'
  OBVIOUS
<1> DEFINE e == [ext EXCEPT !.appeared = FALSE]
<1>1. ext.enabled
  BY DockFacts DEF Typed, NameAppeared
<1>2. /\ Becomes(_trySetAnnotationActive(Handler(e)))
      /\ UNCHANGED <<inbox, comp, bus, missed, crossed>>
  BY DEF NameAppeared, WatchCallback
<1>3. e \in Extension /\ SamePause(ext, e) /\ SameDock(ext, e) /\ e.enabled
  BY <1>1, DockFacts DEF Extension, SamePause, SameDock
<1> HIDE DEF e
<1> QED BY <1>2, <1>3, ActiveAgain

\* The retry of SetPaused is of the present intent.
LEMMA RetrySetPausedKeeps == DockInv /\ RetrySetPaused => DockInv'
<1> SUFFICES ASSUME DockInv, RetrySetPaused PROVE DockInv'
  OBVIOUS
<1> DEFINE r == ext.pausedRetry
           e == [ext EXCEPT !.pausedRetry = NoRetry]
           h == Handler(e)
           m == Msg("SetPaused", r.value, FALSE, r.epoch)
<1>1. /\ r # NoRetry /\ UNCHANGED <<inbox, comp, bus, missed, crossed>>
      /\ r.epoch # ext.epoch => ext' = h.e /\ calls' = h.q
      /\ r.epoch = ext.epoch => ext' = Send(h, m).e /\ calls' = Send(h, m).q
  BY DEF RetrySetPaused, Becomes, dbusCall, Send, Msg
<1>2. ext.enabled /\ r \in Retry
  BY <1>1, DockFacts DEF Typed, Extension
<1>3. /\ e \in Extension /\ SameDock(ext, e) /\ e.pausedRetry = NoRetry
      /\ e.overview = ext.overview /\ e.epoch = ext.epoch /\ e.enabled
  BY <1>2, DockFacts DEF Extension, SameDock
<1>4. m \in Call
  BY <1>2, MsgFacts DEF Retry
<1>5. m.name = "SetPaused" /\ m.value = r.value /\ m.reply = FALSE
  BY DEF Msg
<1> HIDE DEF e, m
<1>6. h \in Hand /\ h.e = e /\ h.q = calls
  BY <1>3, HandlerFacts
<1> HIDE DEF h
<1>7. Send(h, m).e = h.e /\ Send(h, m).q = Append(h.q, m)
  BY <1>4, <1>6, SendFacts
<1>8. ext' = e /\ calls' \in {calls, Append(calls, m)}
  BY <1>1, <1>6, <1>7
<1>9. /\ Superseded(e, calls) /\ Superseded(e, inbox)
      /\ ActiveSent(e, calls) /\ RegionsSent(e, calls, inbox)
      /\ ColourSent(e, calls, inbox)
  <2>1. Superseded(e, calls) /\ Superseded(e, inbox)
    BY <1>2, <1>3, DockFacts DEF Superseded
  <2> QED BY <1>3, <2>1, DockFacts, SameKeeps
<1>10. Hides(e) = Hides(ext) /\ Hides(e) = ext.overview
  BY <1>2, <1>3 DEF Hides
<1>11. ~crossed => PausedSent(e, calls) /\ r.value = Hides(e)
  BY <1>1, <1>3, <1>10, DockFacts DEF PausedSent
<1>12. /\ Superseded(e, Append(calls, m))
       /\ ~crossed => PausedSent(e, Append(calls, m))
       /\ ActiveSent(e, Append(calls, m)) /\ RegionsSent(e, Append(calls, m), inbox)
       /\ ColourSent(e, Append(calls, m), inbox)
  BY <1>4, <1>5, <1>9, <1>11, DockFacts, CallKeeps
<1>13. Typed(e, calls, inbox) /\ Typed(e, Append(calls, m), inbox)
  BY <1>3, <1>4, DockFacts, AppendProperties DEF Typed
<1>14. crossed' \in BOOLEAN /\ crossed' = crossed
  BY <1>1 DEF DockInv
<1>15. CASE calls' = calls
  BY <1>1, <1>8, <1>9, <1>11, <1>13, <1>14, <1>15, Unserved
<1>16. CASE calls' = Append(calls, m)
  BY <1>1, <1>8, <1>9, <1>12, <1>13, <1>14, <1>16, Unserved
<1> QED BY <1>8, <1>15, <1>16

\* A new intent is the last on its way, and no retry is left of another.
LEMMA IntentKeeps ==
  ASSUME NEW h \in Hand, NEW b \in BOOLEAN, NEW r, Typed(h.e, h.q, r),
         h.e.enabled, h.e.overview = b, h.e.epoch < MaxEpoch
  PROVE  LET k == _setPaused(h, b)
         IN /\ k \in Hand /\ Typed(k.e, k.q, r) /\ SameDock(h.e, k.e)
            /\ k.e.epoch = h.e.epoch + 1
            /\ Superseded(k.e, h.q) => Superseded(k.e, k.q)
            /\ PausedSent(k.e, k.q)
            /\ ActiveSent(h.e, h.q) => ActiveSent(k.e, k.q)
            /\ RegionsSent(h.e, h.q, r) => RegionsSent(k.e, k.q, r)
            /\ ColourSent(h.e, h.q, r) => ColourSent(k.e, k.q, r)
<1> DEFINE e == h.e
           q == h.q
           f == [h.e EXCEPT !.pausedRetry = NoRetry, !.epoch = @ + 1]
           m == Msg("SetPaused", b, TRUE, h.e.epoch + 1)
           s == Sets(h, f)
           k == _setPaused(h, b)
<1>1. k = Send(s, m)
  BY DEF _setPaused, dbusCall, Send, Msg
<1>2. e \in Extension /\ q \in Seq(Call) /\ e.epoch + 1 \in 0 .. MaxEpoch /\ e.epoch \in Nat
  BY HandFacts, DockAssumption DEF Extension
<1>3. m \in Call
  BY <1>2, MsgFacts
<1>4. /\ m.name = "SetPaused" /\ m.value = b /\ m.reply = TRUE /\ m.epoch = e.epoch + 1
  BY DEF Msg
<1>5. /\ f \in Extension /\ SameDock(e, f) /\ f.pausedRetry = NoRetry
      /\ f.epoch = e.epoch + 1 /\ f.enabled /\ f.overview = b
  BY <1>2 DEF Extension, SameDock
<1> HIDE DEF f, m
<1>6. s \in Hand /\ s.e = f /\ s.q = q
  BY <1>5, HandFacts
<1> HIDE DEF s, k
<1>7. k \in Hand /\ k.e = s.e /\ k.q = Append(s.q, m)
  BY <1>1, <1>3, <1>6, SendFacts
<1> HIDE DEF e, q
<1>8. k.e = f /\ k.q = Append(q, m)
  BY <1>6, <1>7
<1>9. Typed(f, Append(q, m), r)
  BY <1>2, <1>3, <1>5, AppendProperties DEF Typed, e, q
<1>10. ASSUME Superseded(f, q)
       PROVE  Superseded(f, Append(q, m))
  <2>1. f.enabled /\ m.epoch <= f.epoch /\ m.value = f.overview
    BY <1>2, <1>4, <1>5
  <2> QED BY <1>2, <1>3, <1>10, <2>1, PushFacts
<1>11. PausedSent(f, Append(q, m))
  <2>1. m.value = Hides(f)
    BY <1>4, <1>5 DEF Hides
  <2>2. InForce(Append(q, m), "SetPaused", missed, comp.paused, {Hides(f)})
    BY <1>2, <1>3, <1>4, <2>1, PushForce
  <2> QED BY <1>5, <2>2 DEF PausedSent
<1>12. /\ ActiveSent(e, q) => ActiveSent(f, q)
       /\ RegionsSent(e, q, r) => RegionsSent(f, q, r)
       /\ ColourSent(e, q, r) => ColourSent(f, q, r)
  BY <1>5, SameKeeps
<1>13. /\ ActiveSent(f, q) => ActiveSent(f, Append(q, m))
       /\ RegionsSent(f, q, r) => RegionsSent(f, Append(q, m), r)
       /\ ColourSent(f, q, r) => ColourSent(f, Append(q, m), r)
  BY <1>2, <1>3, <1>4, CallKeeps
<1> QED BY <1>5, <1>7, <1>8, <1>9, <1>10, <1>11, <1>12, <1>13 DEF e, q, k

\* The overview shows or hides: regions are published, and the intent sent.
LEMMA OverviewInv ==
  ASSUME DockInv, ext.enabled, ext.epoch < MaxEpoch, NEW b \in BOOLEAN,
         NEW e \in Extension,
         e.enabled /\ e.overview = b /\ e.epoch = ext.epoch /\ e.colour = ext.colour,
         Placed(e) \/ RegionsSent(e, calls, inbox),
         NEW k \in Hand, Published(e, calls, k.e, k.q),
         Becomes(_setPaused(k, b)), crossed' = FALSE,
         UNCHANGED <<inbox, comp, bus, missed>>
  PROVE  DockInv'
<1> DEFINE l == _setPaused(k, b)
<1>1. ext' = l.e /\ calls' = l.q
  BY DEF Becomes
<1>2. Typed(e, calls, inbox)
  BY DockFacts DEF Typed
<1>3. ActiveSent(e, calls) /\ ColourSent(e, calls, inbox)
  <2>1. ext.enabled = TRUE /\ e.enabled = TRUE
    BY DockFacts DEF Extension
  <2> QED BY <2>1, DockFacts DEF ActiveSent, ColourSent
<1>4. /\ Typed(k.e, k.q, inbox) /\ SameDock(e, k.e) /\ SamePause(e, k.e)
      /\ \A g : Superseded(g, calls) => Superseded(g, k.q)
      /\ ActiveSent(k.e, k.q) /\ ColourSent(k.e, k.q, inbox)
      /\ RegionsSent(k.e, k.q, inbox)
  BY <1>2, <1>3, PublishKeeps
<1>5. k.e.enabled /\ k.e.overview = b /\ k.e.epoch = ext.epoch
  BY <1>4 DEF SamePause
<1>6. /\ Typed(l.e, l.q, inbox) /\ SameDock(k.e, l.e) /\ l.e.epoch = ext.epoch + 1
      /\ Superseded(l.e, k.q) => Superseded(l.e, l.q)
      /\ PausedSent(l.e, l.q) /\ ActiveSent(l.e, l.q)
      /\ RegionsSent(l.e, l.q, inbox) /\ ColourSent(l.e, l.q, inbox)
  BY <1>4, <1>5, IntentKeeps
<1> HIDE DEF l
<1>7. Superseded(l.e, calls) /\ Superseded(l.e, inbox)
  <2>1. l.e.enabled
    BY <1>5, <1>6 DEF SameDock
  <2>2. ext.epoch \in Int /\ l.e.epoch \in Int /\ l.e.epoch > ext.epoch
    BY <1>6, DockFacts DEF Extension
  <2>3. ext.enabled
    OBVIOUS
  <2> QED BY <2>1, <2>2, DockFacts, LaterSupersedes
<1> QED BY <1>1, <1>4, <1>6, <1>7, Unserved

\* With no dock of its own an overview or a monitor changes nothing.
LEMMA ShellAlone ==
  ASSUME DockInv, ~ext.enabled, NEW b \in BOOLEAN, NEW c \in BOOLEAN,
         ext' \in {[ext EXCEPT !.overview = b], [ext EXCEPT !.monitor = c]},
         UNCHANGED <<calls, inbox, comp, bus, missed, crossed>>
  PROVE  DockInv'
<1> DEFINE e == ext'
<1>1. /\ e \in Extension /\ SameDock(ext, e) /\ ~e.enabled
      /\ e.pausedRetry = ext.pausedRetry /\ e.retryTimer = ext.retryTimer
      /\ e.appeared = ext.appeared
  <2>1. CASE e = [ext EXCEPT !.overview = b]
    BY <2>1, DockFacts DEF Extension, SameDock
  <2>2. CASE e = [ext EXCEPT !.monitor = c]
    BY <2>2, DockFacts DEF Extension, SameDock
  <2> QED BY <2>1, <2>2
<1>2. ext' = e
  OBVIOUS
<1> HIDE DEF e
<1>3. Typed(e, calls, inbox)
  BY <1>1, DockFacts DEF Typed, SameDock
<1>4. Superseded(e, calls) /\ Superseded(e, inbox)
  BY DockFacts, LaterSupersedes
<1>5. ~crossed => PausedSent(e, calls)
  <2>1. Hides(e) = FALSE /\ Hides(ext) = FALSE /\ e.pausedRetry = NoRetry
    BY <1>1, DockFacts DEF Hides, Typed
  <2> QED BY <2>1, DockFacts DEF PausedSent
<1>6. ActiveSent(e, calls) /\ RegionsSent(e, calls, inbox) /\ ColourSent(e, calls, inbox)
  BY <1>1, DockFacts, SameKeeps
<1>7. crossed' \in BOOLEAN
  BY DEF DockInv
<1> QED BY <1>2, <1>3, <1>4, <1>5, <1>6, <1>7, Unserved

LEMMA OverviewShowingKeeps == DockInv /\ OverviewShowing => DockInv'
<1> SUFFICES ASSUME DockInv, OverviewShowing PROVE DockInv'
  OBVIOUS
<1>1. CASE ~ext.enabled
  BY <1>1, ShellAlone DEF OverviewShowing
<1>2. CASE ext.enabled
  <2> DEFINE e == [ext EXCEPT !.overview = TRUE, !.shown = FALSE]
             h == Handler(e)
             k == _clearChromeRegions(h)
  <2>1. /\ ext.epoch < MaxEpoch /\ Becomes(_setPaused(k, TRUE)) /\ crossed' = FALSE
        /\ UNCHANGED <<inbox, comp, bus, missed>>
    BY <1>2 DEF OverviewShowing
  <2>2. /\ e \in Extension /\ e.enabled /\ e.overview = TRUE /\ e.epoch = ext.epoch
        /\ e.colour = ext.colour /\ ~e.shown /\ e.geometry = ext.geometry
    BY <1>2, DockFacts DEF Extension
  <2> HIDE DEF e
  <2>3. h \in Hand /\ h.e = e /\ h.q = calls
    BY <2>2, HandlerFacts
  <2>4. Spot(e) = NoGeometry
    BY <2>2 DEF Spot
  <2> HIDE DEF h
  <2>5. k \in Hand /\ Published(h.e, h.q, k.e, k.q)
    BY <2>2, <2>3, <2>4, ClearEffect
  <2> HIDE DEF k
  <2>6. Published(e, calls, k.e, k.q)
    BY <2>3, <2>5
  <2>7. RegionsSent(e, calls, inbox)
    BY <1>2, <2>2, <2>4, Unpublished DEF Placed
  <2> QED BY <1>2, <2>1, <2>2, <2>5, <2>6, <2>7, OverviewInv
<1> QED BY <1>1, <1>2

LEMMA OverviewHiddenKeeps == DockInv /\ OverviewHidden => DockInv'
<1> SUFFICES ASSUME DockInv, OverviewHidden PROVE DockInv'
  OBVIOUS
<1>1. CASE ~ext.enabled
  BY <1>1, ShellAlone DEF OverviewHidden
<1>2. CASE ext.enabled
  <2> DEFINE e == [ext EXCEPT !.overview = FALSE, !.shown = TRUE]
             h == Handler(e)
             k == _positionDock(h)
  <2>1. /\ ext.epoch < MaxEpoch /\ Becomes(_setPaused(k, FALSE)) /\ crossed' = FALSE
        /\ UNCHANGED <<inbox, comp, bus, missed>>
    BY <1>2 DEF OverviewHidden
  <2>2. /\ e \in Extension /\ e.enabled /\ e.overview = FALSE /\ e.epoch = ext.epoch
        /\ e.colour = ext.colour /\ e.shown /\ e.geometry = ext.geometry
    BY <1>2, DockFacts DEF Extension
  <2> HIDE DEF e
  <2>3. h \in Hand /\ h.e = e /\ h.q = calls
    BY <2>2, HandlerFacts
  <2> HIDE DEF h
  <2>4. k \in Hand /\ Published(h.e, h.q, k.e, k.q)
    BY <2>3, PositionEffect
  <2> HIDE DEF k
  <2>5. Published(e, calls, k.e, k.q)
    BY <2>3, <2>4
  <2>6. Placed(e) \/ RegionsSent(e, calls, inbox)
    BY <1>2, <2>2, Unpublished
  <2> QED BY <1>2, <2>1, <2>2, <2>4, <2>5, <2>6, OverviewInv
<1> QED BY <1>1, <1>2

\* The primary monitor goes, or comes and the dock is positioned.
LEMMA MonitorsChangedKeeps == DockInv /\ MonitorsChanged => DockInv'
<1> SUFFICES ASSUME DockInv, MonitorsChanged PROVE DockInv'
  OBVIOUS
<1>1. {TRUE, ~Unplugs} \subseteq BOOLEAN
  OBVIOUS
<1>2. PICK c \in {TRUE, ~Unplugs} :
        Becomes(_positionDock(Handler([ext EXCEPT !.monitor = c])))
  BY DEF MonitorsChanged
<1>3. c \in BOOLEAN /\ UNCHANGED <<inbox, comp, bus, missed, crossed>>
  BY <1>1, <1>2 DEF MonitorsChanged
<1> DEFINE e == [ext EXCEPT !.monitor = c]
<1>4. /\ e \in Extension /\ SamePause(ext, e) /\ e.colour = ext.colour
      /\ e.enabled = ext.enabled /\ e.geometry = ext.geometry
  BY <1>3, DockFacts DEF Extension, SamePause
<1>5. CASE ext.enabled
  <2> HIDE DEF e
  <2> QED BY <1>2, <1>3, <1>4, <1>5, PositionInv DEF e
<1>6. CASE ~ext.enabled
  <2>1. Handler(e).e = e /\ Handler(e).q = calls
    BY <1>4, HandlerFacts
  <2>2. ext' = e /\ calls' = calls
    BY <1>2, <1>4, <1>6, <2>1 DEF Becomes, _positionDock
  <2> QED BY <1>3, <1>6, <2>2, ShellAlone
<1> QED BY <1>5, <1>6

\* A session starts: everything before it is superseded, and Mutter is told.
LEMMA EnableKeeps == DockInv /\ Enable => DockInv'
<1> SUFFICES ASSUME DockInv, Enable PROVE DockInv'
  OBVIOUS
<1> DEFINE e == [ext EXCEPT
                   !.enabled = TRUE, !.shown = ~ext.overview, !.geometry = NoGeometry,
                   !.place = TRUE, !.published = FALSE, !.activeOk = FALSE,
                   !.retryTimer = TRUE, !.retries = 0, !.appeared = (bus # "unowned"),
                   !.epoch = 0, !.colour = FirstColour]
           h == Sets(Handler(ext), e)
           k == _setPaused(h, ext.overview)
           m == Msg("SetActive", TRUE, TRUE, 0)
<1>1. Handler(ext).e = ext
  BY DockFacts, HandlerFacts
<1>2. /\ ~ext.enabled /\ UNCHANGED <<inbox, comp, bus, missed, crossed>>
      /\ ext' = Send(k, m).e /\ calls' = Send(k, m).q
  <2>1. Becomes(enable(Handler(ext)))
    BY DEF Enable
  <2>2. enable(Handler(ext)) = Send(k, m)
    BY <1>1 DEF enable, _trySetAnnotationActive, dbusCall, Send, Msg
  <2> QED BY <2>1, <2>2 DEF Enable, Becomes
<1>3. m \in Call
  <2>1. 0 \in 0 .. MaxEpoch
    BY DockAssumption
  <2> QED BY <2>1, MsgFacts
<1>4. m.name = "SetActive" /\ m.value = TRUE
  BY DEF Msg
<1>5. /\ e \in Extension /\ e.enabled = TRUE /\ e.overview = ext.overview
      /\ e.geometry = NoGeometry /\ e.epoch = 0 /\ 0 < MaxEpoch
      /\ ext.overview \in BOOLEAN
  <2>1. 0 \in 0 .. MaxEpoch /\ 0 < MaxEpoch /\ 0 \in 0 .. MaxRetry /\ FirstColour \in Colour
    BY DockAssumption
  <2>2. ext \in Extension /\ ext.overview \in BOOLEAN /\ (~ext.overview) \in BOOLEAN
    BY DockFacts DEF Extension
  <2>3. (bus # "unowned") \in BOOLEAN
    OBVIOUS
  <2> DEFINE o(x, y) == [ext EXCEPT
                           !.enabled = TRUE, !.shown = x, !.geometry = NoGeometry,
                           !.place = TRUE, !.published = FALSE, !.activeOk = FALSE,
                           !.retryTimer = TRUE, !.retries = 0, !.appeared = y,
                           !.epoch = 0, !.colour = FirstColour]
  <2>4. ASSUME NEW x \in BOOLEAN, NEW y \in BOOLEAN
        PROVE  /\ o(x, y) \in Extension /\ o(x, y).enabled = TRUE
               /\ o(x, y).overview = ext.overview
               /\ o(x, y).geometry = NoGeometry /\ o(x, y).epoch = 0
    <3>1. o(x, y) \in Extension
      BY <2>1, <2>2 DEF Extension
    <3>2. /\ o(x, y).enabled = TRUE /\ o(x, y).overview = ext.overview
          /\ o(x, y).geometry = NoGeometry /\ o(x, y).epoch = 0
      BY <2>2 DEF Extension
    <3> QED BY <3>1, <3>2
  <2>5. e = o(~ext.overview, bus # "unowned")
    OBVIOUS
  <2> HIDE DEF e, o
  <2> QED BY <2>1, <2>2, <2>3, <2>4, <2>5
<1> HIDE DEF e, m
<1>6. h \in Hand /\ h.e = e /\ h.q = calls
  <2>1. Handler(ext) \in Hand /\ Handler(ext).q = calls
    BY DockFacts, HandlerFacts
  <2> QED BY <1>5, <2>1, HandFacts
<1> HIDE DEF h
<1>7. Typed(h.e, h.q, inbox)
  BY <1>5, <1>6, DockFacts DEF Typed
<1>8. RegionsSent(h.e, h.q, inbox)
  <2>1. Suits(e) = Suits(ext) /\ Tolerates(e) = Tolerates(ext)
    BY <1>2, <1>5 DEF Suits, Tolerates
  <2>2. RegionsSent(e, calls, inbox)
    BY <2>1, DockFacts DEF RegionsSent
  <2> QED BY <1>6, <2>2
<1>9. h.e.enabled /\ h.e.overview = ext.overview /\ h.e.epoch < MaxEpoch
  BY <1>5, <1>6
<1>10. /\ k \in Hand /\ Typed(k.e, k.q, inbox) /\ SameDock(h.e, k.e)
       /\ Superseded(k.e, h.q) => Superseded(k.e, k.q)
       /\ PausedSent(k.e, k.q) /\ RegionsSent(k.e, k.q, inbox)
  BY <1>5, <1>6, <1>7, <1>8, <1>9, IntentKeeps
<1> HIDE DEF k
<1>11. ext' = k.e /\ calls' = Append(k.q, m)
  BY <1>2, <1>3, <1>10, SendFacts
<1>12. Superseded(k.e, k.q) /\ Superseded(k.e, inbox)
  BY <1>2, <1>6, <1>10, DockFacts, LaterSupersedes
<1>13. k.e \in Extension /\ k.q \in Seq(Call) /\ k.e.enabled = TRUE
  BY <1>5, <1>6, <1>10 DEF Typed, SameDock
<1>14. Typed(k.e, Append(k.q, m), inbox)
  BY <1>3, <1>10, AppendProperties DEF Typed
<1>15. /\ Superseded(k.e, Append(k.q, m)) /\ PausedSent(k.e, Append(k.q, m))
       /\ RegionsSent(k.e, Append(k.q, m), inbox)
  BY <1>3, <1>4, <1>10, <1>12, <1>13, CallKeeps
<1>16. ActiveSent(k.e, Append(k.q, m))
  BY <1>3, <1>4, <1>13, PushForce DEF ActiveSent
<1>17. ColourSent(k.e, Append(k.q, m), inbox)
  BY <1>3, <1>4, <1>13, PushFacts DEF ColourSent, Activating
<1>18. crossed' \in BOOLEAN
  BY <1>2 DEF DockInv
<1> QED BY <1>2, <1>11, <1>12, <1>14, <1>15, <1>16, <1>17, <1>18, Unserved

\* A session ends: its messages are marked, and three calls undo what it did.
LEMMA DisableKeeps == DockInv /\ Disable => DockInv'
<1> SUFFICES ASSUME DockInv, Disable PROVE DockInv'
  OBVIOUS
<1> DEFINE e == [ext EXCEPT
                   !.enabled = FALSE, !.shown = FALSE, !.geometry = NoGeometry,
                   !.place = FALSE, !.published = FALSE, !.retryTimer = FALSE,
                   !.appeared = FALSE, !.pausedRetry = NoRetry]
           b == [e |-> ext, q |-> Aged(calls)]
           h == Sets(b, e)
           m == Msg("SetChromeRegions", NoGeometry, FALSE, 0)
           n == Msg("SetPaused", FALSE, FALSE, 0)
           o == Msg("SetActive", FALSE, FALSE, 0)
           j == Send(h, m)
           k == Send(j, n)
           l == Send(k, o)
<1>1. /\ inbox' = Aged(inbox) /\ crossed' = FALSE /\ UNCHANGED <<comp, bus, missed>>
      /\ ext' = l.e /\ calls' = l.q
  <2>1. Becomes(disable(b))
    BY DEF Disable
  <2>2. b.e = ext
    OBVIOUS
  <2>3. disable(b) = l
    BY <2>2 DEF disable, LeaveClean, dbusCall, Send, Msg
  <2> QED BY <2>1, <2>3 DEF Disable, Becomes
<1>2. m \in Call /\ n \in Call /\ o \in Call
  <2>1. 0 \in 0 .. MaxEpoch
    BY DockAssumption
  <2> QED BY <2>1, MsgFacts
<1>3. /\ m.name = "SetChromeRegions" /\ m.value = NoGeometry
      /\ n.name = "SetPaused" /\ n.value = FALSE /\ n.reply = FALSE
      /\ o.name = "SetActive" /\ o.value = FALSE
  BY DEF Msg
<1>4. /\ e \in Extension /\ e.enabled = FALSE /\ ~e.shown /\ e.geometry = NoGeometry
      /\ ~e.place /\ ~e.retryTimer /\ ~e.appeared /\ e.pausedRetry = NoRetry
  BY DockFacts DEF Extension
<1>5. Aged(calls) \in Seq(Call) /\ Aged(inbox) \in Seq(Answer)
  BY DockFacts, AgedFacts
<1> HIDE DEF e, m, n, o
<1>6. b \in Hand /\ b.q = Aged(calls)
  BY <1>5, DockFacts DEF Hand
<1> HIDE DEF b
<1>7. h \in Hand /\ h.e = e /\ h.q = Aged(calls)
  BY <1>4, <1>6, HandFacts
<1> HIDE DEF h
<1>8. j \in Hand /\ j.e = h.e /\ j.q = Append(h.q, m)
  BY <1>2, <1>7, SendFacts
<1> HIDE DEF j
<1>9. k \in Hand /\ k.e = j.e /\ k.q = Append(j.q, n)
  BY <1>2, <1>8, SendFacts
<1> HIDE DEF k
<1>10. l \in Hand /\ l.e = k.e /\ l.q = Append(k.q, o)
  BY <1>2, <1>9, SendFacts
<1> HIDE DEF l
<1>11. /\ l.e = e /\ h.q \in Seq(Call) /\ j.q \in Seq(Call) /\ k.q \in Seq(Call)
       /\ l.q \in Seq(Call)
  BY <1>5, <1>7, <1>8, <1>9, <1>10, HandFacts
<1>12. Typed(e, l.q, Aged(inbox))
  BY <1>4, <1>5, <1>11 DEF Typed
<1>13. Superseded(e, l.q) /\ Superseded(e, Aged(inbox))
  <2>1. Superseded(e, h.q) /\ Superseded(e, Aged(inbox))
    BY <1>7, DockFacts, AgedFacts
  <2>2. Superseded(e, j.q)
    BY <1>2, <1>3, <1>8, <1>11, <2>1, CallKeeps
  <2>3. Superseded(e, k.q)
    BY <1>2, <1>3, <1>9, <1>11, <2>2, CallKeeps
  <2> QED BY <1>2, <1>3, <1>10, <1>11, <2>1, <2>3, CallKeeps
<1>14. PausedSent(e, l.q)
  <2>1. n.value = Hides(e)
    BY <1>3, <1>4 DEF Hides
  <2>2. InForce(k.q, "SetPaused", missed, comp.paused, {Hides(e)})
    BY <1>2, <1>3, <1>9, <1>11, <2>1, PushForce
  <2>3. PausedSent(e, k.q)
    BY <1>4, <2>2 DEF PausedSent
  <2>4. o \in Call /\ k.q \in Seq(Call) /\ o.name # "SetPaused"
    BY <1>2, <1>3, <1>11
  <2>5. PausedSent(e, Append(k.q, o))
    BY <2>3, <2>4, CallKeeps
  <2> QED BY <1>10, <2>5
<1>15. ActiveSent(e, l.q)
  <2>1. o.value \in {e.enabled}
    BY <1>3, <1>4
  <2>2. InForce(Append(k.q, o), "SetActive", missed, comp.active, {e.enabled})
    BY <1>2, <1>3, <1>11, <2>1, PushForce
  <2> QED BY <1>10, <2>2 DEF ActiveSent
<1>16. RegionsSent(e, l.q, Aged(inbox))
  <2>1. m.value \in Suits(e)
    BY <1>3, <1>4 DEF Suits
  <2>2. RegionsSent(e, j.q, Aged(inbox))
    BY <1>2, <1>3, <1>8, <1>11, <2>1, CallKeeps
  <2>3. RegionsSent(e, k.q, Aged(inbox))
    BY <1>2, <1>3, <1>9, <1>11, <2>2, CallKeeps
  <2> QED BY <1>2, <1>3, <1>10, <1>11, <2>3, CallKeeps
<1>17. ColourSent(e, l.q, Aged(inbox))
  BY <1>4 DEF ColourSent
<1> QED BY <1>1, <1>11, <1>12, <1>13, <1>14, <1>15, <1>16, <1>17, Unserved

\* The name is acquired while Mutter has no regions.
LEMMA NameOwnerChangedKeeps == DockInv /\ NameOwnerChanged => DockInv'
<1> SUFFICES ASSUME DockInv, NameOwnerChanged PROVE DockInv'
  OBVIOUS
<1> DEFINE e == [ext EXCEPT !.appeared = ext.enabled]
<1>1. ext' = e /\ UNCHANGED <<calls, inbox, comp, missed, crossed>>
  BY DEF NameOwnerChanged
<1>2. /\ e \in Extension /\ SamePause(ext, e) /\ SameDock(ext, e)
      /\ e.retryTimer = ext.retryTimer /\ e.appeared = ext.enabled
  BY DockFacts DEF Extension, SamePause, SameDock
<1> HIDE DEF e
<1>3. Typed(e, calls, inbox)
  BY <1>2, DockFacts DEF Typed, SamePause, SameDock
<1>4. /\ Superseded(e, calls) /\ Superseded(e, inbox)
      /\ ~crossed => PausedSent(e, calls)
      /\ ActiveSent(e, calls) /\ RegionsSent(e, calls, inbox)
      /\ ColourSent(e, calls, inbox)
  BY <1>2, DockFacts, SameKeeps
<1>5. /\ bus' \in {"unowned", "served", "taken", "deaf"} /\ bus' # "unowned"
      /\ bus' = "served" => bus = "unowned"
  BY DEF NameOwnerChanged
<1>6. RegionsLost'
  BY <1>1, <1>5 DEF DockInv, RegionsLost
<1>7. /\ Typed(ext, calls, inbox)' /\ Superseded(ext, calls)' /\ Superseded(ext, inbox)'
  BY <1>1, <1>3, <1>4 DEF Typed, Superseded
<1>8. (~crossed => PausedSent(ext, calls))'
  BY <1>1, <1>4 DEF PausedSent, InForce
<1>9. /\ ActiveSent(ext, calls)' /\ RegionsSent(ext, calls, inbox)'
      /\ ColourSent(ext, calls, inbox)'
  BY <1>1, <1>4 DEF ActiveSent, RegionsSent, ColourSent, InForce
<1> QED BY <1>1, <1>5, <1>6, <1>7, <1>8, <1>9 DEF DockInv, Sent

-----------------------------------------------------------------------------
(* Replies and signals                                                     *)

\* The first message of the inbox, and what is left without it.
LEMMA InboxFacts ==
  ASSUME DockInv, inbox # <<>>
  PROVE  LET m == Head(inbox)
             r == Tail(inbox)
         IN /\ m \in Answer /\ r \in Seq(Answer) /\ Typed(ext, calls, r)
            /\ Superseded(ext, r)
            /\ m.name = "SetPaused" /\ m.reply /\ ~m.stale =>
                 (m.epoch = ext.epoch => m.value = ext.overview)
            /\ ~(m.name = "SetActive" /\ m.ok) =>
                 RegionsSent(ext, calls, r) /\ ColourSent(ext, calls, r)
            /\ ~Placed(ext) => RegionsSent(ext, calls, r)
<1> DEFINE m == Head(inbox)
           r == Tail(inbox)
<1>1. /\ m \in Answer /\ r \in Seq(Answer) /\ Superseded(ext, r)
      /\ m.name = "SetPaused" /\ m.reply /\ ~m.stale =>
           (m.epoch = ext.epoch => m.value = ext.overview)
      /\ Carries(inbox, "SetActive", "ok") <=>
           Carries(r, "SetActive", "ok") \/ (m.name = "SetActive" /\ m["ok"] = TRUE)
  BY DockFacts, TailFacts
<1> HIDE DEF m, r
<1>2. m.ok \in BOOLEAN
  BY <1>1 DEF Answer, Message
<1>3. Typed(ext, calls, r)
  BY <1>1, DockFacts DEF Typed
<1>4. ASSUME ~(m.name = "SetActive" /\ m.ok)
      PROVE  RegionsSent(ext, calls, r) /\ ColourSent(ext, calls, r)
  <2>1. Republish(inbox) => Republish(r)
    BY <1>1, <1>2, <1>4 DEF Republish
  <2> QED BY <2>1, DockFacts, RepublishKeeps
<1>5. ASSUME ~Placed(ext)
      PROVE  RegionsSent(ext, calls, r)
  <2>1. Tolerates(ext) = Suits(ext)
    BY <1>5 DEF Tolerates, Suits, Placed, Spot
  <2> QED BY <2>1, DockFacts DEF RegionsSent
<1> QED BY <1>1, <1>3, <1>4, <1>5 DEF m, r

\* A message that changes but a few fields.
LEMMA DeliverFields ==
  ASSUME DockInv, inbox # <<>>, inbox' = Tail(inbox),
         ~(Head(inbox).name = "SetActive" /\ Head(inbox).ok),
         NEW e \in Extension, ext' = e, calls' = calls,
         SameDock(ext, e), e.overview = ext.overview, e.epoch = ext.epoch,
         e.retryTimer = ext.retryTimer, e.appeared = ext.appeared,
         ~e.enabled => e.pausedRetry = NoRetry,
         ~crossed' => PausedSent(e, calls),
         crossed' \in BOOLEAN, UNCHANGED <<comp, bus, missed>>
  PROVE  DockInv'
<1>1. /\ Typed(ext, calls, Tail(inbox)) /\ Superseded(ext, Tail(inbox))
      /\ RegionsSent(ext, calls, Tail(inbox)) /\ ColourSent(ext, calls, Tail(inbox))
  BY InboxFacts
<1>2. Typed(e, calls, Tail(inbox))
  BY <1>1 DEF Typed, SameDock
<1>3. Superseded(e, calls) /\ Superseded(e, Tail(inbox))
  BY <1>1, DockFacts DEF Superseded, SameDock
<1>4. /\ ActiveSent(e, calls) /\ RegionsSent(e, calls, Tail(inbox))
      /\ ColourSent(e, calls, Tail(inbox))
  BY <1>1, DockFacts, SameKeeps
<1> QED BY <1>2, <1>3, <1>4, Unserved

\* A success of SetActive: the regions and the colour are sent again.
LEMMA ActiveAnswered ==
  ASSUME DockInv, inbox # <<>>, inbox' = Tail(inbox),
         Becomes(SetActiveReplied(Handler(ext), TRUE)),
         crossed' \in BOOLEAN, crossed => crossed', UNCHANGED <<comp, bus, missed>>
  PROVE  DockInv'
<1> DEFINE r == Tail(inbox)
           f == [ext EXCEPT !.activeOk = TRUE, !.published = FALSE]
           h == Sets(Handler(ext), f)
           k == _publishChromeRegions(h)
           m == Msg("SetColor", k.e.colour, FALSE, 0)
<1>1. ext' = Send(k, m).e /\ calls' = Send(k, m).q
  <2>1. Handler(ext).e = ext
    BY DockFacts, HandlerFacts
  <2>2. SetActiveReplied(Handler(ext), TRUE) = Send(k, m)
    BY <2>1 DEF SetActiveReplied, _publishActiveColor, dbusCall, Send, Msg
  <2> QED BY <2>2 DEF Becomes
<1>2. /\ f \in Extension /\ SameDock(ext, f) /\ SamePause(ext, f)
      /\ f.retryTimer = ext.retryTimer /\ f.appeared = ext.appeared
  BY DockFacts DEF Extension, SameDock, SamePause
<1> HIDE DEF f
<1>3. h \in Hand /\ h.e = f /\ h.q = calls
  <2>1. Handler(ext) \in Hand /\ Handler(ext).q = calls
    BY DockFacts, HandlerFacts
  <2> QED BY <1>2, <2>1, HandFacts
<1> HIDE DEF h
<1>4. k \in Hand /\ Published(h.e, h.q, k.e, k.q)
  BY <1>3, PublishEffect
<1>5. k.e \in Extension /\ k.q \in Seq(Call)
  BY <1>4, HandFacts
<1>6. m \in Call /\ m.name = "SetColor" /\ m.value = k.e.colour
  <2>1. k.e.colour \in Colour /\ 0 \in 0 .. MaxEpoch
    BY <1>5, DockAssumption DEF Extension
  <2>2. m \in Call
    BY <2>1, MsgFacts
  <2>3. m.name = "SetColor" /\ m.value = k.e.colour
    BY DEF Msg
  <2> QED BY <2>2, <2>3
<1> HIDE DEF k, m
<1>7. ext' = k.e /\ calls' = Append(k.q, m)
  BY <1>1, <1>4, <1>6, SendFacts
<1>8. /\ Typed(ext, calls, r) /\ Superseded(ext, r)
      /\ ~Placed(ext) => RegionsSent(ext, calls, r)
  BY InboxFacts
<1> HIDE DEF r
<1>9. Typed(f, calls, r)
  BY <1>2, <1>8 DEF Typed, SameDock, SamePause
<1>10. /\ Superseded(f, calls) /\ Superseded(f, r)
       /\ ~crossed => PausedSent(f, calls)
       /\ ActiveSent(f, calls)
  BY <1>2, <1>8, DockFacts, SameKeeps
<1>11. Placed(f) \/ RegionsSent(f, calls, r)
  <2>1. Placed(ext) => Placed(f)
    BY <1>2 DEF SameDock, Spot, Placed
  <2> QED BY <1>2, <1>8, <2>1, SameKeeps
<1>12. Published(f, calls, k.e, k.q)
  BY <1>3, <1>4
<1>13. /\ Typed(k.e, k.q, r) /\ SamePause(f, k.e) /\ Superseded(f, k.q)
       /\ ~crossed => PausedSent(k.e, k.q)
       /\ ActiveSent(k.e, k.q) /\ RegionsSent(k.e, k.q, r)
  BY <1>9, <1>10, <1>11, <1>12, PublishKeeps
<1>14. Superseded(k.e, k.q) /\ Superseded(k.e, r)
  BY <1>10, <1>13, SameKeeps
<1>15. /\ Superseded(k.e, Append(k.q, m))
       /\ ~crossed => PausedSent(k.e, Append(k.q, m))
       /\ ActiveSent(k.e, Append(k.q, m)) /\ RegionsSent(k.e, Append(k.q, m), r)
  BY <1>5, <1>6, <1>13, <1>14, CallKeeps
<1>16. ColourSent(k.e, Append(k.q, m), r)
  <2>1. InForce(Append(k.q, m), "SetColor", missed, comp.colour, {k.e.colour})
    BY <1>5, <1>6, PushForce
  <2> QED BY <2>1 DEF ColourSent
<1>17. Typed(k.e, Append(k.q, m), r)
  BY <1>6, <1>13, AppendProperties DEF Typed
<1>18. inbox' = r
  BY DEF r
<1> QED BY <1>7, <1>14, <1>15, <1>16, <1>17, <1>18, Unserved

LEMMA DeliverKeeps == DockInv /\ Deliver => DockInv'
<1> SUFFICES ASSUME DockInv, Deliver PROVE DockInv'
  OBVIOUS
<1> DEFINE m == Head(inbox)
           r == Tail(inbox)
           h == Handler(ext)
<1>1. inbox # <<>> /\ inbox' = r /\ UNCHANGED <<comp, bus, missed>>
  BY DEF Deliver
<1>2. /\ m \in Answer /\ r \in Seq(Answer) /\ Typed(ext, calls, r) /\ Superseded(ext, r)
      /\ m.name = "SetPaused" /\ m.reply /\ ~m.stale =>
           (m.epoch = ext.epoch => m.value = ext.overview)
      /\ ~(m.name = "SetActive" /\ m.ok) =>
           RegionsSent(ext, calls, r) /\ ColourSent(ext, calls, r)
  BY <1>1, InboxFacts
<1>3. h \in Hand /\ h.e = ext /\ h.q = calls
  BY DockFacts, HandlerFacts
<1>4. /\ m \in Message /\ Valued(m) /\ m.ok \in BOOLEAN /\ m.stale \in BOOLEAN
      /\ m.epoch \in 0 .. MaxEpoch
  BY <1>2 DEF Answer, Message
<1>5. crossed \in BOOLEAN
  BY DEF DockInv
<1>6. CASE /\ m.reply /\ Becomes(Replied(h, m))
           /\ crossed' = (crossed \/ (m.stale /\ ext'.pausedRetry # ext.pausedRetry))
  <2>1. /\ crossed' \in BOOLEAN /\ (crossed => crossed')
        /\ m.stale /\ ext'.pausedRetry # ext.pausedRetry => crossed'
    BY <1>6
  <2>2. CASE m.name = "SetActive"
    <3>1. Becomes(SetActiveReplied(h, m.ok))
      BY <1>6, <2>2 DEF Replied
    <3>2. CASE m.ok = TRUE
      BY <1>1, <2>1, <3>1, <3>2, ActiveAnswered
    <3>3. CASE ~m.ok
      <4>1. ext' = ext /\ calls' = calls
        BY <1>3, <3>1, <3>3 DEF SetActiveReplied, Becomes
      <4> QED BY <1>1, <1>2, <2>1, <3>3, <4>1, DockFacts, Unserved
    <3> QED BY <1>4, <3>2, <3>3
  <2>3. CASE m.name = "SetChromeRegions"
    <3> DEFINE e == [ext EXCEPT !.published = m.ok]
    <3>1. Becomes(Sets(h, e))
      <4>1. Replied(h, m) = SetChromeRegionsReplied(h, m.ok)
        BY <2>3 DEF Replied
      <4>2. SetChromeRegionsReplied(h, m.ok) = Sets(h, e)
        BY <1>3 DEF SetChromeRegionsReplied
      <4> QED BY <1>6, <4>1, <4>2
    <3>2. /\ e \in Extension /\ SameDock(ext, e) /\ SamePause(ext, e)
          /\ e.retryTimer = ext.retryTimer /\ e.appeared = ext.appeared
      BY <1>4, DockFacts DEF Extension, SameDock, SamePause
    <3> HIDE DEF e, m, h
    <3>3. ext' = e /\ calls' = calls
      BY <1>3, <3>1, <3>2, HandFacts DEF Becomes
    <3>4. /\ ~e.enabled => e.pausedRetry = NoRetry
          /\ ~crossed' => PausedSent(e, calls)
      BY <2>1, <3>2, DockFacts, SameKeeps DEF SamePause, Typed
    <3> QED BY <1>1, <2>1, <2>3, <3>2, <3>3, <3>4, DeliverFields DEF SamePause, m
  <2>4. CASE m.name = "SetPaused"
    <3> DEFINE e == [ext EXCEPT !.pausedRetry = [value |-> m.value, epoch |-> m.epoch]]
    <3>1. Becomes(SetPausedReplied(h, m))
      <4>1. Replied(h, m) = SetPausedReplied(h, m)
        BY <2>4 DEF Replied
      <4> QED BY <1>6, <4>1
    <3>2. CASE m.ok \/ ~ext.enabled \/ m.epoch # ext.epoch
      <4>1. ext' = ext /\ calls' = calls
        BY <1>3, <3>1, <3>2 DEF SetPausedReplied, Becomes
      <4> QED BY <1>1, <1>2, <2>1, <2>4, <4>1, DockFacts, Unserved
    <3>3. CASE ~m.ok /\ ext.enabled /\ m.epoch = ext.epoch
      <4>1. Becomes(Sets(h, e))
        BY <1>3, <3>1, <3>3 DEF SetPausedReplied
      <4>2. m.value \in BOOLEAN
        BY <1>4, <2>4 DEF Valued
      <4>3. [value |-> m.value, epoch |-> m.epoch] \in Retry
        BY <1>4, <4>2 DEF Retry
      <4>4. /\ e \in Extension /\ SameDock(ext, e) /\ e.enabled = ext.enabled
            /\ e.overview = ext.overview /\ e.epoch = ext.epoch
            /\ e.retryTimer = ext.retryTimer /\ e.appeared = ext.appeared
            /\ e.pausedRetry.value = m.value
        BY <4>3, DockFacts DEF Extension, SameDock
      <4> HIDE DEF e, m, h
      <4>5. ext' = e /\ calls' = calls
        BY <1>3, <4>1, <4>4, HandFacts DEF Becomes
      <4>6. ~crossed' /\ e.pausedRetry # NoRetry => e.pausedRetry.value = ext.overview
        <5>1. CASE ~m.stale
          BY <1>2, <1>6, <2>4, <3>3, <4>4, <5>1
        <5>2. CASE m.stale
          BY <2>1, <4>5, <5>2, DockFacts DEF PausedSent
        <5> QED BY <5>1, <5>2
      <4>7. ~crossed' => PausedSent(e, calls)
        <5>1. Hides(e) = Hides(ext)
          BY <4>4 DEF Hides
        <5> QED BY <2>1, <4>4, <4>6, <5>1, DockFacts DEF PausedSent
      <4> QED BY <1>1, <2>1, <2>4, <3>3, <4>4, <4>5, <4>7, DeliverFields DEF m
    <3> QED BY <3>2, <3>3
  <2> QED BY <1>4, <1>6, <2>2, <2>3, <2>4 DEF Valued
<1>7. CASE /\ m.name = "RegionActivated" /\ ext.enabled
           /\ Becomes(_activateRegion(h, m.value)) /\ crossed' = crossed
  <2> DEFINE k == _activateRegion(h, m.value)
  <2>1. ext' = k.e /\ calls' = k.q
    BY <1>7 DEF Becomes
  <2>2. m.value \in Button
    BY <1>4, <1>7 DEF Valued
  <2>3. RegionsSent(h.e, h.q, r) /\ ColourSent(h.e, h.q, r) /\ Typed(h.e, h.q, r)
    BY <1>2, <1>3, <1>7
  <2>4. h.e.enabled
    BY <1>3, <1>7
  <2> HIDE DEF h, m, r
  <2>5. /\ Typed(k.e, k.q, r)
        /\ \A g : Superseded(g, h.q) => Superseded(g, k.q)
        /\ SamePause(h.e, k.e)
        /\ PausedSent(h.e, h.q) => PausedSent(k.e, k.q)
        /\ ActiveSent(h.e, h.q) => ActiveSent(k.e, k.q)
        /\ RegionsSent(k.e, k.q, r) /\ ColourSent(k.e, k.q, r)
    BY <1>3, <2>2, <2>3, <2>4, ActivateKeeps
  <2> HIDE DEF k
  <2>6. SamePause(ext, ext')
    BY <1>3, <2>1, <2>5
  <2>7. Superseded(ext', calls) /\ Superseded(ext', r)
    BY <1>2, <2>6, DockFacts, SameKeeps
  <2> QED BY <1>1, <1>3, <1>5, <1>7, <2>1, <2>5, <2>7, DockFacts, Unserved
<1>8. CASE m.name = "RegionActivated" /\ UNCHANGED <<ext, calls, crossed>>
  BY <1>1, <1>2, <1>5, <1>8, DockFacts, Unserved
<1> QED BY <1>6, <1>7, <1>8 DEF Deliver

-----------------------------------------------------------------------------
(* The bus and Mutter                                                      *)

\* What a call that leaves its queue does to the flags and to missed.
LEMMA ServeEffect ==
  ASSUME DockInv, Serve
  PROVE  LET c == Head(calls)
         IN /\ c \in Call /\ c \in Message /\ Valued(c)
            /\ calls # <<>> /\ calls' = Tail(calls) /\ UNCHANGED <<ext, bus, crossed>>
            /\ comp' \in [active : BOOLEAN, paused : BOOLEAN,
                          chrome : Geometry \cup {NoGeometry},
                          colour : Colour \cup {BootColour}]
            /\ bus = "served" /\ c.name = "SetActive" => comp'.active = c.value
            /\ bus = "served" /\ c.name = "SetPaused" => comp'.paused = c.value
            /\ bus = "served" /\ c.name = "SetColor" => comp'.colour = c.value
            /\ bus = "served" /\ c.name = "SetChromeRegions" => comp'.chrome = c.value
            /\ bus # "served" \/ c.name # "SetActive" => comp'.active = comp.active
            /\ bus # "served" \/ c.name # "SetPaused" => comp'.paused = comp.paused
            /\ bus # "served" \/ c.name # "SetColor" => comp'.colour = comp.colour
            /\ bus # "served" \/ c.name # "SetChromeRegions" => comp'.chrome = comp.chrome
            /\ missed' \subseteq Flag
            /\ \A n \in Flag : bus # "served" /\ c.name = n => n \in missed'
            /\ \A n \in Flag : n \notin missed' /\ c.name # n =>
                 \/ n \notin missed
                 \/ /\ bus = "served" /\ c.name = "SetActive" /\ c.value = TRUE
                    /\ n \in {"SetColor", "SetChromeRegions"}
            /\ bus = "served" => missed' = missed \ SetsRight(c)
<1> DEFINE c == Head(calls)
<1>1. calls # <<>> /\ calls' = Tail(calls) /\ UNCHANGED <<ext, bus, crossed>>
  BY DEF Serve
<1>2. c \in Call
  BY <1>1, DockFacts, TailFacts
<1>3. /\ comp' = IF bus = "served" THEN handle_method_call(c) ELSE comp
      /\ missed' = IF bus = "served" THEN missed \ SetsRight(c)
                   ELSE missed \cup ({c.name} \cap Flag)
  BY DEF Serve
<1> HIDE DEF c
<1>4. /\ c \in Message /\ Valued(c)
      /\ c.name \in Flag \cup {"Clear"}
  BY <1>2 DEF Call, Message, Flag
<1>5. /\ comp \in [active : BOOLEAN, paused : BOOLEAN,
                   chrome : Geometry \cup {NoGeometry},
                   colour : Colour \cup {BootColour}]
      /\ missed \subseteq Flag
  BY DEF DockInv
<1>6. /\ comp' \in [active : BOOLEAN, paused : BOOLEAN,
                    chrome : Geometry \cup {NoGeometry},
                    colour : Colour \cup {BootColour}]
      /\ bus = "served" /\ c.name = "SetActive" => comp'.active = c.value
      /\ bus = "served" /\ c.name = "SetPaused" => comp'.paused = c.value
      /\ bus = "served" /\ c.name = "SetColor" => comp'.colour = c.value
      /\ bus = "served" /\ c.name = "SetChromeRegions" => comp'.chrome = c.value
      /\ bus # "served" \/ c.name # "SetActive" => comp'.active = comp.active
      /\ bus # "served" \/ c.name # "SetPaused" => comp'.paused = comp.paused
      /\ bus # "served" \/ c.name # "SetColor" => comp'.colour = comp.colour
      /\ bus # "served" \/ c.name # "SetChromeRegions" => comp'.chrome = comp.chrome
  <2>1. CASE bus # "served"
    BY <1>3, <1>5, <2>1
  <2>2. CASE bus = "served" /\ c.name = "SetActive"
    <3>1. comp' = [comp EXCEPT !.active = c.value] /\ c.value \in BOOLEAN
      BY <1>3, <1>4, <2>2 DEF handle_method_call, Valued
    <3> QED BY <1>5, <2>2, <3>1
  <2>3. CASE bus = "served" /\ c.name = "SetPaused"
    <3>1. comp' = [comp EXCEPT !.paused = c.value] /\ c.value \in BOOLEAN
      BY <1>3, <1>4, <2>3 DEF handle_method_call, Valued
    <3> QED BY <1>5, <2>3, <3>1
  <2>4. CASE bus = "served" /\ c.name = "SetColor"
    <3>1. comp' = [comp EXCEPT !.colour = c.value] /\ c.value \in Colour
      BY <1>3, <1>4, <2>4 DEF handle_method_call, Valued
    <3> QED BY <1>5, <2>4, <3>1
  <2>5. CASE bus = "served" /\ c.name = "SetChromeRegions"
    <3>1. comp' = [comp EXCEPT !.chrome = c.value] /\ c.value \in Geometry \cup {NoGeometry}
      BY <1>3, <1>4, <2>5 DEF handle_method_call, Valued
    <3> QED BY <1>5, <2>5, <3>1
  <2>6. CASE bus = "served" /\ c.name = "Clear"
    <3>1. comp' = comp
      BY <1>3, <2>6 DEF handle_method_call
    <3> QED BY <1>5, <2>6, <3>1
  <2> QED BY <1>4, <2>1, <2>2, <2>3, <2>4, <2>5, <2>6 DEF Flag
<1>7. /\ missed' \subseteq Flag
      /\ \A n \in Flag : bus # "served" /\ c.name = n => n \in missed'
      /\ \A n \in Flag : n \notin missed' /\ c.name # n =>
           \/ n \notin missed
           \/ /\ bus = "served" /\ c.name = "SetActive" /\ c.value = TRUE
              /\ n \in {"SetColor", "SetChromeRegions"}
      /\ bus = "served" => missed' = missed \ SetsRight(c)
  <2>1. CASE bus # "served"
    BY <1>3, <1>5, <2>1
  <2>2. CASE bus = "served" /\ c.name = "SetActive"
    <3>1. c.value \in BOOLEAN
      BY <1>4, <2>2 DEF Valued
    <3> QED BY <1>3, <1>5, <2>2, <3>1 DEF SetsRight
  <2>3. CASE bus = "served" /\ c.name # "SetActive"
    BY <1>3, <1>5, <2>3 DEF SetsRight
  <2> QED BY <2>1, <2>2, <2>3
<1> QED BY <1>1, <1>2, <1>4, <1>6, <1>7 DEF c

\* The reply, if one is asked for: like its call, it is superseded or of this
\* intent; and that of a SetActive that was served will make the extension
\* publish.
LEMMA ServeReply ==
  ASSUME DockInv, Serve
  PROVE  LET c == Head(calls)
         IN /\ inbox' \in Seq(Answer) /\ Superseded(ext, inbox')
            /\ Republish(inbox) => Republish(inbox')
            /\ bus = "served" /\ c.name = "SetActive" /\ c.value = TRUE
                 => Republish(inbox')
<1> DEFINE c == Head(calls)
<1>1. PICK ok \in BOOLEAN :
        /\ bus = "served" => ok
        /\ inbox' = IF c.reply THEN Append(inbox, [c EXCEPT !.ok = ok]) ELSE inbox
  BY DEF Serve
<1>2. c \in Call /\ c \in Message /\ Valued(c) /\ calls # <<>>
  BY ServeEffect
<1>3. c.name = "SetPaused" /\ c.reply /\ ~c.stale =>
        /\ ext.enabled /\ c.epoch <= ext.epoch
        /\ c.epoch = ext.epoch => c.value = ext.overview
  BY <1>2, DockFacts, TailFacts
<1> HIDE DEF c
<1>4. CASE ~c.reply
  <2>1. ~(c.name = "SetActive" /\ c.value = TRUE)
    BY <1>2, <1>4 DEF Valued
  <2> QED BY <1>1, <1>4, <2>1, DockFacts DEF c
<1>5. CASE c.reply
  <2> DEFINE o == [c EXCEPT !.ok = ok]
  <2>1. /\ o \in Message /\ o.name = c.name /\ o.value = c.value /\ o.ok = ok
        /\ o.reply = c.reply /\ o.epoch = c.epoch /\ o.stale = c.stale
    BY <1>1, <1>2 DEF Message
  <2>2. inbox' = Append(inbox, o)
    BY <1>1, <1>5
  <2> HIDE DEF o
  <2>3. o \in Answer
    BY <1>2, <1>5, <2>1 DEF Answer, Valued
  <2>4. o.name = "SetPaused" /\ o.reply /\ ~o.stale =>
          /\ ext.enabled /\ o.epoch <= ext.epoch
          /\ o.epoch = ext.epoch => o.value = ext.overview
    BY <1>3, <2>1
  <2>5. Append(inbox, o) \in Seq(Answer) /\ Superseded(ext, Append(inbox, o))
    BY <2>3, <2>4, DockFacts, PushFacts
  <2>6. Carries(Append(inbox, o), "SetActive", "ok") <=>
          Carries(inbox, "SetActive", "ok") \/ (o.name = "SetActive" /\ o["ok"] = TRUE)
    BY <2>3, DockFacts, PushFacts
  <2>7. bus = "served" => o["ok"] = TRUE
    BY <1>1, <2>1
  <2> QED BY <2>1, <2>2, <2>5, <2>6, <2>7 DEF Republish, c
<1> QED BY <1>4, <1>5

LEMMA ServeKeeps == DockInv /\ Serve => DockInv'
<1> SUFFICES ASSUME DockInv, Serve PROVE DockInv'
  OBVIOUS
<1> DEFINE c == Head(calls)
           q == Tail(calls)
<1>1. /\ c \in Call /\ c \in Message /\ Valued(c)
      /\ calls # <<>> /\ calls' = q /\ UNCHANGED <<ext, bus, crossed>>
      /\ comp' \in [active : BOOLEAN, paused : BOOLEAN,
                    chrome : Geometry \cup {NoGeometry},
                    colour : Colour \cup {BootColour}]
      /\ missed' \subseteq Flag
  BY ServeEffect
<1>2. /\ inbox' \in Seq(Answer) /\ Superseded(ext, inbox')
      /\ Republish(inbox) => Republish(inbox')
      /\ bus = "served" /\ c.name = "SetActive" /\ c.value = TRUE => Republish(inbox')
  BY ServeReply
<1>3. q \in Seq(Call) /\ Superseded(ext, q)
  BY <1>1, DockFacts, TailFacts
<1>4. Typed(ext, q, inbox')
  BY <1>2, <1>3, DockFacts DEF Typed
<1>5. ASSUME NEW V, InForce(calls, "SetActive", missed, comp.active, V)
      PROVE  InForce(q, "SetActive", missed', comp'.active, V)
  <2>1. c.name # "SetActive" => /\ comp'.active = comp.active
                                /\ "SetActive" \notin missed' => "SetActive" \notin missed
    BY ServeEffect DEF Flag
  <2>2. c.name = "SetActive" /\ "SetActive" \notin missed' => comp'.active = c.value
    BY ServeEffect DEF Flag
  <2> QED BY <1>1, <1>5, <2>1, <2>2, DockFacts, ServeForce
<1>6. ASSUME NEW V, InForce(calls, "SetPaused", missed, comp.paused, V)
      PROVE  InForce(q, "SetPaused", missed', comp'.paused, V)
  <2>1. c.name # "SetPaused" => /\ comp'.paused = comp.paused
                                /\ "SetPaused" \notin missed' => "SetPaused" \notin missed
    BY ServeEffect DEF Flag
  <2>2. c.name = "SetPaused" /\ "SetPaused" \notin missed' => comp'.paused = c.value
    BY ServeEffect DEF Flag
  <2> QED BY <1>1, <1>6, <2>1, <2>2, DockFacts, ServeForce
<1>7. ASSUME NEW V, InForce(calls, "SetColor", missed, comp.colour, V)
      PROVE  \/ InForce(q, "SetColor", missed', comp'.colour, V)
             \/ Republish(inbox')
  <2>1. CASE bus = "served" /\ c.name = "SetActive" /\ c.value = TRUE
    BY <1>2, <2>1
  <2>2. CASE ~(bus = "served" /\ c.name = "SetActive" /\ c.value = TRUE)
    <3>1. c.name # "SetColor" => /\ comp'.colour = comp.colour
                                 /\ "SetColor" \notin missed' => "SetColor" \notin missed
      BY <2>2, ServeEffect DEF Flag
    <3>2. c.name = "SetColor" /\ "SetColor" \notin missed' => comp'.colour = c.value
      BY ServeEffect DEF Flag
    <3> QED BY <1>1, <1>7, <3>1, <3>2, DockFacts, ServeForce
  <2> QED BY <2>1, <2>2
<1>8. InForce(q, "SetActive", missed', comp'.active, {ext.enabled})
  BY <1>5, DockFacts DEF ActiveSent
<1>9. ~crossed => /\ InForce(q, "SetPaused", missed', comp'.paused, {Hides(ext)})
                  /\ ext.pausedRetry # NoRetry => ext.pausedRetry.value = ext.overview
  BY <1>6, DockFacts DEF PausedSent
\* The colour: a SetActive(false) that is served now has a SetActive(true)
\* behind it.
<1>10. ext.enabled =>
         \/ Activating(q) \/ Republish(inbox') \/ "SetActive" \in missed'
         \/ InForce(q, "SetColor", missed', comp'.colour, {ext.colour})
  <2> SUFFICES ASSUME ext.enabled, ~Republish(inbox'), "SetActive" \notin missed'
               PROVE  \/ Activating(q)
                      \/ InForce(q, "SetColor", missed', comp'.colour, {ext.colour})
    OBVIOUS
  <2>1. c.name = "SetActive" => bus = "served"
    BY ServeEffect DEF Flag
  <2>2. ~(c.name = "SetActive" /\ c.value = TRUE)
    BY <1>2, <2>1
  <2>3. CASE Activating(calls)
    <3>1. Carries(calls, "SetActive", "value") <=>
            Carries(q, "SetActive", "value") \/ (c.name = "SetActive" /\ c["value"] = TRUE)
      BY <1>1, DockFacts, TailFacts
    <3> QED BY <2>2, <2>3, <3>1 DEF Activating
  <2>4. CASE "SetActive" \in missed
    <3>1. c.name = "SetActive"
      BY <2>4, ServeEffect DEF Flag
    <3>2. LastIn(calls, "SetActive", {ext.enabled})
      BY DockFacts DEF ActiveSent, InForce
    <3>3. LastIn(q, "SetActive", {ext.enabled}) /\ ~Absent(q, "SetActive")
      <4>1. /\ LastIn(q, "SetActive", {ext.enabled})
            /\ Absent(q, "SetActive") /\ c.name = "SetActive" => c.value \in {ext.enabled}
        BY <1>1, <3>2, DockFacts, TailFacts
      <4>2. ext.enabled = TRUE
        BY DockFacts DEF Extension
      <4> QED BY <2>2, <3>1, <4>1, <4>2
    <3>4. PICK i \in 1 .. Len(q) : q[i].name = "SetActive" /\ q[i].value \in {ext.enabled}
      BY <3>3 DEF LastIn
    <3>5. q[i]["value"] = TRUE
      BY <3>4, DockFacts DEF Extension
    <3> QED BY <3>4, <3>5 DEF Activating, Carries
  <2>5. CASE InForce(calls, "SetColor", missed, comp.colour, {ext.colour})
    BY <1>7, <2>5
  <2>6. ~Republish(inbox)
    BY <1>2
  <2> QED BY <2>3, <2>4, <2>5, <2>6, DockFacts DEF ColourSent
<1>11. bus = "unowned" \/ (bus = "served" /\ "SetChromeRegions" \in missed')
         => comp'.chrome = NoGeometry
  <2>1. CASE bus = "unowned"
    BY <2>1, ServeEffect DEF DockInv, RegionsLost
  <2>2. CASE bus = "served" /\ "SetChromeRegions" \in missed'
    <3>1. missed' = missed \ SetsRight(c)
      BY <2>2, ServeEffect
    <3>2. "SetChromeRegions" \in missed /\ c.name # "SetChromeRegions"
      BY <2>2, <3>1 DEF SetsRight
    <3>3. comp'.chrome = comp.chrome
      BY <3>2, ServeEffect
    <3> QED BY <2>2, <3>2, <3>3 DEF DockInv, RegionsLost
  <2> QED BY <2>1, <2>2
<1>12. LastIn(q, "SetChromeRegions", Suits(ext))
  BY <1>1, DockFacts, TailFacts DEF RegionsSent
<1>13. ASSUME Absent(q, "SetChromeRegions"), "SetChromeRegions" \notin missed'
       PROVE  /\ comp'.chrome \in Tolerates(ext)
              /\ Republish(inbox') \/ comp'.chrome \in Suits(ext)
  <2>1. Suits(ext) \subseteq Tolerates(ext) /\ NoGeometry \in Tolerates(ext)
    BY DockFacts DEF Suits, Tolerates, Extension
  <2>2. CASE c.name = "SetChromeRegions"
    <3>1. comp'.chrome = c.value
      BY <1>13, <2>2, ServeEffect DEF Flag
    <3>2. c.value \in Suits(ext)
      BY <1>1, <1>13, <2>2, DockFacts, TailFacts DEF RegionsSent
    <3> QED BY <2>1, <3>1, <3>2
  <2>3. CASE c.name # "SetChromeRegions"
    <3>1. comp'.chrome = comp.chrome
      BY <2>3, ServeEffect
    <3>2. Absent(calls, "SetChromeRegions")
      BY <1>1, <1>13, <2>3, DockFacts, TailFacts
    <3>3. CASE "SetChromeRegions" \notin missed
      <4>1. /\ comp.chrome \in Tolerates(ext)
            /\ Republish(inbox) \/ comp.chrome \in Suits(ext)
        BY <3>2, <3>3, DockFacts DEF RegionsSent
      <4> QED BY <1>2, <3>1, <4>1
    <3>4. CASE "SetChromeRegions" \in missed
      <4>1. bus = "served" /\ c.name = "SetActive" /\ c.value = TRUE
        BY <1>13, <2>3, <3>4, ServeEffect DEF Flag
      <4>2. comp.chrome = NoGeometry
        BY <3>4, <4>1 DEF DockInv, RegionsLost
      <4> QED BY <1>2, <2>1, <3>1, <4>1, <4>2
    <3> QED BY <3>3, <3>4
  <2> QED BY <2>2, <2>3
<1> HIDE DEF c, q
<1>14. Typed(ext, calls, inbox)' /\ Superseded(ext, calls)' /\ Superseded(ext, inbox)'
  BY <1>1, <1>2, <1>3, <1>4 DEF Typed, Superseded
<1>15. (~crossed => PausedSent(ext, calls))'
  BY <1>1, <1>9 DEF PausedSent
<1>16. ActiveSent(ext, calls)' /\ ColourSent(ext, calls, inbox)'
  BY <1>1, <1>8, <1>10 DEF ActiveSent, ColourSent
<1>17. RegionsSent(ext, calls, inbox)'
  BY <1>1, <1>12, <1>13 DEF RegionsSent
<1>18. RegionsLost'
  BY <1>1, <1>11 DEF RegionsLost
<1>19. bus' \in {"unowned", "served", "taken", "deaf"} /\ crossed' \in BOOLEAN
  BY <1>1 DEF DockInv
<1> QED BY <1>1, <1>14, <1>15, <1>16, <1>17, <1>18, <1>19 DEF DockInv, Sent

-----------------------------------------------------------------------------
(* Theorems                                                                *)

LEMMA DockInitInv == DockInit => DockInv
<1> SUFFICES ASSUME DockInit PROVE DockInv
  OBVIOUS
<1>1. /\ calls = <<>> /\ inbox = <<>> /\ bus = "unowned" /\ missed = {}
      /\ crossed = FALSE
      /\ comp = [active |-> FALSE, paused |-> FALSE, chrome |-> NoGeometry,
                 colour |-> BootColour]
  BY DEF DockInit
<1>2. /\ ext \in Extension /\ ext.enabled = FALSE /\ ~ext.shown /\ ~ext.place
      /\ ~ext.retryTimer /\ ~ext.appeared /\ ext.geometry = NoGeometry
      /\ ext.pausedRetry = NoRetry
  <2>1. PICK overview \in BOOLEAN, monitor \in {TRUE, ~Unplugs} :
          ext = [enabled |-> FALSE, monitor |-> monitor, overview |-> overview,
                 shown |-> FALSE,
                 geometry |-> NoGeometry, place |-> FALSE, published |-> FALSE,
                 activeOk |-> FALSE, retryTimer |-> FALSE, retries |-> 0,
                 appeared |-> FALSE, epoch |-> 0, pausedRetry |-> NoRetry,
                 colour |-> FirstColour]
    BY DEF DockInit
  <2>2. monitor \in BOOLEAN
    OBVIOUS
  <2>3. /\ 0 \in 0 .. MaxEpoch /\ 0 \in 0 .. MaxRetry /\ FirstColour \in Colour
    BY DockAssumption
  <2> QED BY <2>1, <2>2, <2>3 DEF Extension
<1>3. \A S : calls \in Seq(S) /\ inbox \in Seq(S) /\ \A i \in 1 .. Len(<<>>) : FALSE
  BY <1>1
<1>4. Typed(ext, calls, inbox)
  BY <1>2, <1>3 DEF Typed
<1>5. Superseded(ext, calls) /\ Superseded(ext, inbox)
  BY <1>1, <1>3 DEF Superseded
<1>6. \A n : Absent(calls, n)
  BY <1>1, <1>3 DEF Absent
<1>7. \A n, V, x : x \in V => InForce(calls, n, missed, x, V)
  BY <1>6 DEF InForce, LastIn
<1>8. PausedSent(ext, calls) /\ ActiveSent(ext, calls)
  BY <1>1, <1>2, <1>7 DEF PausedSent, ActiveSent, Hides
<1>9. RegionsSent(ext, calls, inbox)
  BY <1>1, <1>2, <1>6 DEF RegionsSent, LastIn, Suits, Tolerates
<1>10. ColourSent(ext, calls, inbox) /\ RegionsLost
  BY <1>1, <1>2 DEF ColourSent, RegionsLost
<1>11. /\ comp \in [active : BOOLEAN, paused : BOOLEAN,
                    chrome : Geometry \cup {NoGeometry},
                    colour : Colour \cup {BootColour}]
       /\ missed \subseteq Flag
  BY <1>1
<1> QED BY <1>1, <1>4, <1>5, <1>8, <1>9, <1>10, <1>11 DEF DockInv, Sent

LEMMA DockNextInv == DockInv /\ [DockNext]_dockVars => DockInv'
<1> SUFFICES ASSUME DockInv, [DockNext]_dockVars PROVE DockInv'
  OBVIOUS
<1>1. CASE Enable
  BY <1>1, EnableKeeps
<1>2. CASE Disable
  BY <1>2, DisableKeeps
<1>3. CASE OverviewShowing
  BY <1>3, OverviewShowingKeeps
<1>4. CASE OverviewHidden
  BY <1>4, OverviewHiddenKeeps
<1>5. ASSUME NEW g \in Geometry, Allocate(g) PROVE DockInv'
  BY <1>5, AllocateKeeps
<1>6. CASE PositionIdle \/ PositionRetry
  BY <1>6, PositionKeeps
<1>7. ASSUME NEW id \in Button, Click(id) \/ RegionActivated(id) PROVE DockInv'
  BY <1>7, ClickKeeps, RegionActivatedKeeps
<1>8. CASE RetrySetActive
  BY <1>8, RetrySetActiveKeeps
<1>9. CASE RetrySetPaused
  BY <1>9, RetrySetPausedKeeps
<1>10. CASE NameAppeared
  BY <1>10, NameAppearedKeeps
<1>11. CASE Deliver
  BY <1>11, DeliverKeeps
<1>12. CASE Serve
  BY <1>12, ServeKeeps
<1>13. CASE NameOwnerChanged
  BY <1>13, NameOwnerChangedKeeps
<1>14. CASE MonitorsChanged
  BY <1>14, MonitorsChangedKeeps
<1>15. CASE UNCHANGED dockVars
  <2>1. /\ ext' = ext /\ calls' = calls /\ inbox' = inbox /\ crossed' = crossed
        /\ UNCHANGED <<comp, bus, missed>>
    BY <1>15 DEF dockVars
  <2>2. crossed' \in BOOLEAN
    BY <2>1 DEF DockInv
  <2> QED BY <2>1, <2>2, DockFacts, Unserved
<1> QED BY <1>1, <1>2, <1>3, <1>4, <1>5, <1>6, <1>7, <1>8, <1>9, <1>10, <1>11,
           <1>12, <1>13, <1>14, <1>15 DEF DockNext

\* The invariant holds whatever is enabled, disabled, lost, refused, answered
\* late or sent again.
THEOREM DockInvariance == DockSpec => []DockInv
<1>1. DockInit => DockInv
  BY DockInitInv
<1>2. DockInv /\ [DockNext]_dockVars => DockInv'
  BY DockNextInv
<1> QED BY <1>1, <1>2, PTL DEF DockSpec

\* Type correctness: the fields of the extension, the messages, the flags of
\* Mutter.
THEOREM DockTypeCorrect == DockSpec => []DockTypeOK
<1>1. DockInv => DockTypeOK
  <2> SUFFICES ASSUME DockInv PROVE DockTypeOK
    OBVIOUS
  <2>1. Call \subseteq Message /\ Answer \subseteq Message
    BY DEF Call, Answer
  <2>2. calls \in Seq(Message) /\ inbox \in Seq(Message)
    <3>1. \A S, T : S \subseteq T => Seq(S) \subseteq Seq(T)
      OBVIOUS
    <3> QED BY <2>1, <3>1, DockFacts
  <2> QED BY <2>2, DockFacts DEF DockTypeOK, DockInv
<1> QED BY <1>1, DockInvariance, PTL

\* When nothing is on its way, a flag that is in force is as meant.
LEMMA SettledForce ==
  ASSUME NEW q, NEW n, NEW lost, NEW x, NEW v, InForce(q, n, lost, x, {v}),
         q = <<>>, n \notin lost
  PROVE  x = v
<1>1. Absent(q, n)
  BY DEF Absent
<1> QED BY <1>1 DEF InForce

\* Ink hides for the overview and for nothing else, whatever SetPaused of an
\* older intent failed, was retried or answered late: `_setPaused` and its
\* epoch.
THEOREM PausedStaysIntended == DockSpec => []PausedAsIntended
<1>1. DockInv => PausedAsIntended
  <2> SUFFICES ASSUME DockInv, Settled, "SetPaused" \notin missed, ~crossed
               PROVE  comp.paused <=> ext.enabled /\ ext.overview
    BY DEF PausedAsIntended
  <2>1. InForce(calls, "SetPaused", missed, comp.paused, {Hides(ext)})
    BY DockFacts DEF PausedSent
  <2>2. comp.paused = Hides(ext)
    BY <2>1, SettledForce DEF Settled
  <2>3. ext.enabled \in BOOLEAN /\ ext.overview \in BOOLEAN
    BY DockFacts DEF Extension
  <2> QED BY <2>2, <2>3 DEF Hides
<1> QED BY <1>1, DockInvariance, PTL

\* Mutter is active just while the extension is enabled, whatever retry, name
\* watch or reply of a session that is over comes late.
THEOREM ActiveStaysEnabled == DockSpec => []ActiveAsEnabled
<1>1. DockInv => ActiveAsEnabled
  <2> SUFFICES ASSUME DockInv, Settled, "SetActive" \notin missed
               PROVE  comp.active <=> ext.enabled
    BY DEF ActiveAsEnabled
  <2>1. InForce(calls, "SetActive", missed, comp.active, {ext.enabled})
    BY DockFacts DEF ActiveSent
  <2>2. comp.active = ext.enabled
    BY <2>1, SettledForce DEF Settled
  <2> QED BY <2>2
<1> QED BY <1>1, DockInvariance, PTL

\* The regions that take the pen are those of the dock that is shown on a primary
\* monitor, and gone with it, whichever publication got lost before Mutter was
\* there and however the monitor went and came.
THEOREM RegionsStayShown == DockSpec => []RegionsAsShown
<1>1. DockInv => RegionsAsShown
  <2> SUFFICES ASSUME DockInv, Settled, "SetChromeRegions" \notin missed
               PROVE  /\ ext.shown /\ ext.monitor => comp.chrome = ext.geometry
                      /\ ~ext.enabled => comp.chrome = NoGeometry
    BY DEF RegionsAsShown
  <2>1. Absent(calls, "SetChromeRegions") /\ ~Republish(inbox)
    BY DEF Settled, Absent, Republish, Carries
  <2>2. comp.chrome \in Suits(ext)
    BY <2>1, DockFacts DEF RegionsSent
  <2>3. ~ext.place /\ (ext.shown => ext.enabled)
    BY DockFacts DEF Settled, Typed
  <2> QED BY <2>2, <2>3 DEF Suits
<1> QED BY <1>1, DockInvariance, PTL

\* The pen writes in the colour the dock shows as armed, whenever that was
\* armed: before Mutter was active, or while the reply was on its way.
THEOREM ColourStaysArmed == DockSpec => []ColourAsArmed
<1>1. DockInv => ColourAsArmed
  <2> SUFFICES ASSUME DockInv, Settled, ext.enabled,
                      missed \cap {"SetActive", "SetColor"} = {}
               PROVE  comp.colour = ext.colour
    BY DEF ColourAsArmed
  <2>1. ~Activating(calls) /\ ~Republish(inbox)
    BY DEF Settled, Activating, Republish, Carries
  <2>2. InForce(calls, "SetColor", missed, comp.colour, {ext.colour})
    BY <2>1, DockFacts DEF ColourSent
  <2> QED BY <2>2, SettledForce DEF Settled
<1> QED BY <1>1, DockInvariance, PTL
=============================================================================
