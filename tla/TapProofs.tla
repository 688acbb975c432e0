------------------------------ MODULE TapProofs -------------------------------
(***************************************************************************)
(* What the tap history knows.  It holds the newest taps of the log that   *)
(* nothing has used, closed or forgotten, with their anchors and ages: an  *)
(* unused tap that it lacks is older than the pruning window.  So a        *)
(* gesture is earned by the taps it spends, and a fast one is never        *)
(* missed.                                                                 *)
(***************************************************************************)
EXTENDS TapGestures, SequenceTheorems, TLAPS

\* Taps are kept in the order they were made.
AgesFall(s) == \A i, j \in 1 .. Len(s) : i < j => s[j].age <= s[i].age

\* h is the newest part of the log e, unspent.
Newest(h, e) ==
  /\ Len(h) <= Len(e)
  /\ \A i \in 1 .. Len(h) :
       /\ e[i + Len(e) - Len(h)].fate = "fresh"
       /\ e[i + Len(e) - Len(h)].anchor = h[i].anchor
       /\ e[i + Len(e) - Len(h)].age = h[i].age

\* A fresh tap of the log e that h lacks is older than the pruning window.
\* The log keeps four taps: three in the history are the three newest.
LostIsOld(h, e) ==
  \A i \in 1 .. Len(e) - Len(h) :
    e[i].fate = "fresh" => e[i].age > QuadWindow

TapInv ==
  /\ TapTypeOK /\ NoDanglingTap
  /\ AgesFall(history) /\ Newest(history, log) /\ LostIsOld(history, log)

-----------------------------------------------------------------------------
(* The operators on sequences                                              *)

\* The last n elements of a sequence.
LEMMA LastOfFacts ==
  ASSUME NEW S, NEW s \in Seq(S), NEW n \in Nat
  PROVE  /\ LastOf(s, n) \in Seq(S)
         /\ Len(LastOf(s, n)) = IF Len(s) <= n THEN Len(s) ELSE n
         /\ \A i \in 1 .. Len(LastOf(s, n)) :
              LastOf(s, n)[i] = s[i + Len(s) - Len(LastOf(s, n))]
<1>1. Len(s) \in Nat /\ \A i \in 1 .. Len(s) : s[i] \in S
  BY LenProperties, ElementOfSeq
<1>2. CASE Len(s) <= n
  BY <1>1, <1>2 DEF LastOf
<1>3. CASE Len(s) > n
  <2> DEFINE m == Len(s) - n + 1
  <2>1. m \in Int /\ Len(s) \in Int /\ \A i \in m .. Len(s) : s[i] \in S
    BY <1>1, <1>3
  <2>2. /\ SubSeq(s, m, Len(s)) \in Seq(S)
        /\ Len(SubSeq(s, m, Len(s))) = IF m <= Len(s) THEN Len(s) - m + 1 ELSE 0
        /\ \A i \in 1 .. Len(s) - m + 1 : SubSeq(s, m, Len(s))[i] = s[m + i - 1]
    BY <2>1, SubSeqProperties
  <2>3. Len(s) - m + 1 = n /\ Len(SubSeq(s, m, Len(s))) = n
    BY <1>1, <2>2
  <2>4. \A i \in 1 .. n : SubSeq(s, m, Len(s))[i] = s[i + Len(s) - n]
    <3> TAKE i \in 1 .. n
    <3>1. m + i - 1 = i + Len(s) - n
      BY <1>1
    <3> QED BY <2>2, <2>3, <3>1
  <2>5. LastOf(s, n) = SubSeq(s, m, Len(s))
    BY <1>1, <1>3 DEF LastOf
  <2> QED BY <1>1, <1>3, <2>2, <2>3, <2>4, <2>5
<1> QED BY <1>1, <1>2, <1>3

\* Time leaves anchors and fates alone, and stops at Horizon.
LEMMA AgedFacts ==
  ASSUME NEW S, S = TapRecord \/ S = LoggedTap, NEW s \in Seq(S)
  PROVE  /\ Aged(s) \in Seq(S) /\ Len(Aged(s)) = Len(s)
         /\ \A i \in 1 .. Len(s) :
              /\ Aged(s)[i].anchor = s[i].anchor
              /\ S = LoggedTap => Aged(s)[i].fate = s[i].fate
              /\ Aged(s)[i].age = IF s[i].age < Horizon THEN s[i].age + 1 ELSE s[i].age
<1>1. /\ Len(s) \in Nat /\ DOMAIN s = 1 .. Len(s)
      /\ \A i \in 1 .. Len(s) : s[i] \in S
  BY LenProperties, ElementOfSeq
<1>2. ASSUME NEW i \in 1 .. Len(s)
      PROVE  /\ Aged(s)[i] \in S
             /\ Aged(s)[i].anchor = s[i].anchor
             /\ S = LoggedTap => Aged(s)[i].fate = s[i].fate
             /\ Aged(s)[i].age = IF s[i].age < Horizon THEN s[i].age + 1 ELSE s[i].age
  <2>1. Aged(s)[i] = [s[i] EXCEPT !.age = IF s[i].age < Horizon THEN s[i].age + 1
                                          ELSE s[i].age]
    BY <1>1 DEF Aged
  <2>2. s[i] \in S /\ Horizon \in Nat
    BY <1>1, TapAssumption
  <2>3. CASE S = TapRecord
    BY <2>1, <2>2, <2>3 DEF TapRecord, LoggedTap, Age
  <2>4. CASE S = LoggedTap
    BY <2>1, <2>2, <2>4 DEF TapRecord, LoggedTap, Age
  <2> QED BY <2>3, <2>4
<1>3. DOMAIN Aged(s) = 1 .. Len(s)
  BY <1>1 DEF Aged
<1>4. Aged(s) \in [1 .. Len(s) -> S]
  BY <1>1, <1>2, <1>3 DEF Aged
<1>5. Aged(s) \in Seq(S) /\ Len(Aged(s)) = Len(s)
  BY <1>1, <1>4, SeqDef, LenProperties
<1> QED BY <1>2, <1>5

\* Pruning drops the oldest taps, those past the window and no other.
LEMMA PruneFacts ==
  ASSUME NEW h \in Seq(TapRecord), Len(h) < 4
  PROVE  /\ tap_history_prune(h) \in Seq(TapRecord)
         /\ Len(tap_history_prune(h)) <= Len(h)
         /\ \A i \in 1 .. Len(tap_history_prune(h)) :
              tap_history_prune(h)[i] = h[i + Len(h) - Len(tap_history_prune(h))]
         /\ \A i \in 1 .. Len(h) - Len(tap_history_prune(h)) : h[i].age > QuadWindow
         /\ Len(tap_history_prune(h)) > 0 => tap_history_prune(h)[1].age <= QuadWindow
<1> DEFINE keep == {i \in DOMAIN h : h[i].age <= QuadWindow}
           p == tap_history_prune(h)
<1>1. /\ Len(h) \in 0 .. 3 /\ DOMAIN h = 1 .. Len(h)
      /\ \A i \in 1 .. Len(h) : h[i] \in TapRecord
      /\ \A i \in 1 .. Len(h) : h[i].age \in Nat
      /\ QuadWindow \in Nat
  <2>1. /\ Len(h) \in Nat /\ DOMAIN h = 1 .. Len(h)
        /\ \A i \in 1 .. Len(h) : h[i] \in TapRecord
    BY LenProperties, ElementOfSeq
  <2>2. Horizon \in Nat /\ QuadWindow \in Nat
    BY TapAssumption
  <2>3. \A r \in TapRecord : r.age \in Nat
    BY <2>2 DEF TapRecord, Age
  <2> QED BY <2>1, <2>2, <2>3
<1>2. CASE keep = {}
  <2>1. p = <<>>
    BY <1>2 DEF tap_history_prune
  <2>2. p \in Seq(TapRecord) /\ Len(p) = 0
    BY <2>1
  <2>3. \A i \in 1 .. Len(h) : h[i].age > QuadWindow
    BY <1>1, <1>2
  <2> QED BY <1>1, <2>2, <2>3
<1>3. CASE keep # {}
  <2> DEFINE k == CHOOSE i \in keep : \A j \in keep : i <= j
  <2>1. \E i \in keep : \A j \in keep : i <= j
    <3>1. keep \subseteq {1, 2, 3}
      BY <1>1
    <3>2. CASE 1 \in keep
      BY <3>1, <3>2
    <3>3. CASE 1 \notin keep /\ 2 \in keep
      BY <3>1, <3>3
    <3>4. CASE 1 \notin keep /\ 2 \notin keep
      BY <1>3, <3>1, <3>4
    <3> QED BY <3>2, <3>3, <3>4
  <2>2. k \in keep /\ \A j \in keep : k <= j
    BY <2>1
  <2>3. k \in 1 .. Len(h) /\ h[k].age <= QuadWindow
    BY <1>1, <2>2
  <2>4. p = SubSeq(h, k, Len(h))
    BY <1>3 DEF tap_history_prune
  <2>5. \A i \in 1 .. k - 1 : h[i].age > QuadWindow
    BY <1>1, <2>2, <2>3
  <2> HIDE DEF k, keep
  <2>6. /\ p \in Seq(TapRecord) /\ Len(p) = Len(h) - k + 1
        /\ \A i \in 1 .. Len(h) - k + 1 : p[i] = h[k + i - 1]
    BY <1>1, <2>3, <2>4, SubSeqProperties
  <2> HIDE DEF p
  <2>7. /\ Len(h) - Len(p) = k - 1 /\ Len(p) <= Len(h)
        /\ \A i \in 1 .. Len(p) : p[i] = h[i + Len(h) - Len(p)]
        /\ p[1] = h[k]
    BY <1>1, <2>3, <2>6
  <2> QED BY <2>3, <2>5, <2>6, <2>7 DEF p
<1> QED BY <1>2, <1>3

-----------------------------------------------------------------------------
(* The tap of this release                                                 *)

\* The history a tap on t is judged by.
Judged(t) == tap_history_append(tap_history_prune(history), t)

\* It is the newest part of the log that the tap makes, in order, all of it
\* inside the pruning window, and no young unused tap is missing from it.
LEMMA JudgedFacts ==
  ASSUME TapInv, Pending
  PROVE  LET g == Judged(pending[1].anchor)
         IN /\ g \in Seq(TapRecord) /\ Len(g) \in 1 .. 4
            /\ Logged \in Seq(LoggedTap) /\ Len(Logged) <= 4
            /\ AgesFall(g) /\ Newest(g, Logged) /\ LostIsOld(g, Logged)
            /\ g[Len(g)].age = 0 /\ g[1].age <= QuadWindow
            /\ \A i \in 1 .. Len(g) : g[i].anchor \in managed \cup {Desktop}
<1> DEFINE t == pending[1].anchor
           h == history
           p == tap_history_prune(history)
           x == [anchor |-> t, age |-> 0]
           g == Judged(t)
           y == [anchor |-> t, age |-> 0, fate |-> "fresh"]
           a == Append(log, y)
           e == Logged
           lh == Len(h)
           ll == Len(log)
           la == Len(a)
           lp == Len(p)
           lg == Len(g)
           le == Len(e)
           d == ll + 1 - le
<1>1. /\ h \in Seq(TapRecord) /\ lh \in 0 .. 3
      /\ log \in Seq(LoggedTap) /\ ll \in 0 .. 4
      /\ DOMAIN h = 1 .. lh
      /\ \A i \in 1 .. lh : h[i] \in TapRecord /\ h[i].age \in Nat
      /\ QuadWindow \in Nat
  <2>1. h \in Seq(TapRecord) /\ log \in Seq(LoggedTap) /\ lh < 4 /\ ll <= 4
    BY DEF TapInv, TapTypeOK, TAP_HISTORY_SIZE
  <2>2. /\ lh \in Nat /\ ll \in Nat /\ DOMAIN h = 1 .. lh
        /\ \A i \in 1 .. lh : h[i] \in TapRecord
    BY <2>1, LenProperties, ElementOfSeq
  <2>3. QuadWindow \in Nat /\ \A r \in TapRecord : r.age \in Nat
    BY TapAssumption DEF TapRecord, Age
  <2>4. lh \in 0 .. 3 /\ ll \in 0 .. 4
    <3> HIDE DEF lh, ll
    <3> QED BY <2>1, <2>2
  <2>5. \A i \in 1 .. lh : h[i] \in TapRecord /\ h[i].age \in Nat
    BY <2>2, <2>3
  <2> QED BY <2>1, <2>2, <2>3, <2>4, <2>5
<1>2. t \in Anchor /\ t \in managed \cup {Desktop} /\ x \in TapRecord /\ y \in LoggedTap
  <2>1. /\ pending \in Seq(TapRecord) /\ 1 \in 1 .. Len(pending)
        /\ 1 \in DOMAIN pending
    BY LenProperties, EmptySeq DEF Pending, TapInv, TapTypeOK
  <2>2. pending[1] \in TapRecord
    BY <2>1, ElementOfSeq
  <2>3. t \in Anchor /\ t \in managed \cup {Desktop}
    BY <2>1, <2>2 DEF TapRecord, TapInv, NoDanglingTap
  <2>4. 0 \in Age
    BY TapAssumption DEF Age
  <2> QED BY <2>3, <2>4 DEF TapRecord, LoggedTap
<1>3. /\ p \in Seq(TapRecord) /\ lp \in 0 .. 3 /\ lp <= lh
      /\ \A i \in 1 .. lp : p[i] = h[i + lh - lp]
      /\ \A i \in 1 .. lh - lp : h[i].age > QuadWindow
      /\ lp > 0 => p[1].age <= QuadWindow
  <2>1. h \in Seq(TapRecord) /\ lh < 4
    BY <1>1
  <2>2. /\ p \in Seq(TapRecord) /\ lp <= lh
        /\ \A i \in 1 .. lp : p[i] = h[i + lh - lp]
        /\ \A i \in 1 .. lh - lp : h[i].age > QuadWindow
        /\ lp > 0 => p[1].age <= QuadWindow
    BY <2>1, PruneFacts
  <2>3. lp \in Nat
    BY <2>2, LenProperties
  <2>4. lp \in 0 .. 3
    <3> HIDE DEF lh, lp
    <3> QED BY <1>1, <2>2, <2>3
  <2> QED BY <2>2, <2>4
<1>4. /\ g \in Seq(TapRecord) /\ lg = lp + 1 /\ g[lp + 1] = x
      /\ \A i \in 1 .. lp : g[i] = p[i]
  <2>1. LastOf(p, TAP_HISTORY_SIZE - 1) = p
    <3>1. lp <= TAP_HISTORY_SIZE - 1
      <4> HIDE DEF lp
      <4> QED BY <1>3 DEF TAP_HISTORY_SIZE
    <3> QED BY <3>1 DEF LastOf
  <2>2. g = Append(p, x)
    BY <2>1 DEF Judged, tap_history_append
  <2> HIDE DEF x, p
  <2> QED BY <1>2, <1>3, <2>2, AppendProperties
<1>5. /\ a \in Seq(LoggedTap) /\ la = ll + 1 /\ a[ll + 1] = y
      /\ \A i \in 1 .. ll : a[i] = log[i]
  <2> HIDE DEF y
  <2> QED BY <1>1, <1>2, AppendProperties
<1>6. /\ e \in Seq(LoggedTap)
      /\ le = IF la <= 4 THEN la ELSE 4
      /\ \A i \in 1 .. le : e[i] = a[i + la - le]
  <2>1. e = LastOf(a, 4)
    BY DEF Logged
  <2> HIDE DEF a
  <2>2. /\ LastOf(a, 4) \in Seq(LoggedTap)
        /\ Len(LastOf(a, 4)) = IF la <= 4 THEN la ELSE 4
        /\ \A i \in 1 .. Len(LastOf(a, 4)) :
             LastOf(a, 4)[i] = a[i + la - Len(LastOf(a, 4))]
    <3>1. a \in Seq(LoggedTap) /\ 4 \in Nat
      BY <1>5
    <3> QED BY <3>1, LastOfFacts
  <2> QED BY <2>1, <2>2
<1>7. /\ lh <= ll
      /\ \A i \in 1 .. lh :
           /\ log[i + ll - lh].fate = "fresh"
           /\ log[i + ll - lh].anchor = h[i].anchor
           /\ log[i + ll - lh].age = h[i].age
      /\ \A i \in 1 .. ll - lh :
           log[i].fate = "fresh" => log[i].age > QuadWindow
      /\ \A i, j \in 1 .. lh : i < j => h[j].age <= h[i].age
      /\ \A i \in 1 .. lh : h[i].anchor \in managed \cup {Desktop}
  BY <1>1 DEF TapInv, Newest, LostIsOld, AgesFall, NoDanglingTap
<1>8. x.anchor = t /\ x.age = 0 /\ y.anchor = t /\ y.age = 0 /\ y.fate = "fresh"
  OBVIOUS
<1> HIDE DEF a, x, y, t, p, g, e, h, lh, ll, la, lp, lg, le
<1>9. /\ le \in 1 .. 4 /\ lg \in 1 .. 4 /\ lg <= le
      /\ d \in 0 .. 1
      /\ \A i \in 1 .. le :
           /\ e[i] = a[i + d]
           /\ i + d \in 1 .. ll => e[i] = log[i + d]
           /\ i + d = ll + 1 => e[i] = y
  <2>1. /\ le = IF ll + 1 <= 4 THEN ll + 1 ELSE 4
        /\ \A i \in 1 .. le : e[i] = a[i + ll + 1 - le]
    <3>1. la = ll + 1 /\ ll \in 0 .. 4 /\ le \in Nat
      BY <1>1, <1>5, <1>6
    <3>2. le = IF ll + 1 <= 4 THEN ll + 1 ELSE 4
      BY <1>6, <3>1
    <3>3. ASSUME NEW i \in 1 .. le PROVE e[i] = a[i + ll + 1 - le]
      <4>1. i + la - le = i + ll + 1 - le
        BY <3>1
      <4>2. e[i] = a[i + la - le]
        BY <1>6
      <4> QED BY <4>1, <4>2
    <3> QED BY <3>2, <3>3
  <2>2. le \in 1 .. 4 /\ d \in 0 .. 1
    BY <1>1, <2>1
  <2>3. lg \in 1 .. 4 /\ lg <= le
    <3>1. lg = lp + 1 /\ lp \in 0 .. 3 /\ lp <= ll
      BY <1>1, <1>3, <1>4, <1>7
    <3> QED BY <1>1, <2>1, <3>1
  <2>4. ASSUME NEW i \in 1 .. le
        PROVE  /\ e[i] = a[i + d]
               /\ i + d \in 1 .. ll => e[i] = log[i + d]
               /\ i + d = ll + 1 => e[i] = y
    <3>1. i + d = i + ll + 1 - le
      BY <1>1, <2>2
    <3>2. e[i] = a[i + d]
      BY <2>1, <3>1
    <3> HIDE DEF d
    <3> QED BY <1>5, <3>2
  <2> QED BY <2>2, <2>3, <2>4
<1>10. AgesFall(g)
  <2> SUFFICES ASSUME NEW i \in 1 .. lg, NEW j \in 1 .. lg, i < j
               PROVE  g[j].age <= g[i].age
    BY DEF AgesFall, lg
  <2>1. i \in 1 .. lp /\ g[i] = h[i + lh - lp]
        /\ i + lh - lp \in 1 .. lh
    BY <1>1, <1>3, <1>4
  <2>2. CASE j = lg
    BY <1>1, <1>4, <1>8, <2>1, <2>2
  <2>3. CASE j # lg
    <3>1. j \in 1 .. lp /\ g[j] = h[j + lh - lp]
          /\ j + lh - lp \in 1 .. lh
          /\ i + lh - lp < j + lh - lp
      <4>1. j \in 1 .. lp
        BY <1>3, <1>4, <2>3
      <4>2. j + lh - lp \in 1 .. lh /\ i + lh - lp < j + lh - lp
        BY <1>1, <1>3, <4>1
      <4> QED BY <1>3, <1>4, <4>1, <4>2
    <3> QED BY <1>7, <2>1, <3>1
  <2> QED BY <2>2, <2>3
<1>11. Newest(g, e)
  <2> SUFFICES ASSUME NEW i \in 1 .. lg
               PROVE  /\ e[i + le - lg].fate = "fresh"
                      /\ e[i + le - lg].anchor = g[i].anchor
                      /\ e[i + le - lg].age = g[i].age
    BY <1>9 DEF Newest, lg, le
  <2>1. i + le - lg \in 1 .. le
    BY <1>9
  <2>2. CASE i = lg
    <3>1. g[i] = x
      BY <1>4, <2>2
    <3>2. i + le - lg = le /\ le + d = ll + 1 /\ le \in 1 .. le
      BY <1>1, <1>9, <2>2
    <3>3. e[i + le - lg] = y
      BY <1>9, <3>2
    <3> QED BY <1>8, <3>1, <3>3
  <2>3. CASE i # lg
    <3> DEFINE k == i + lh - lp
    <3>1. i \in 1 .. lp /\ g[i] = h[k] /\ k \in 1 .. lh
      <4>1. i \in 1 .. lp
        BY <1>3, <1>4, <2>3
      <4>2. k \in 1 .. lh
        BY <1>1, <1>3, <4>1
      <4> QED BY <1>3, <1>4, <4>1, <4>2
    <3>2. i + le - lg + d = k + ll - lh
      <4>1. /\ i \in Nat /\ lh \in Nat /\ ll \in Nat /\ lp \in Nat /\ le \in Nat
            /\ lg = lp + 1
        BY <1>1, <1>3, <1>4, <1>9
      <4> QED BY <4>1
    <3>3. k + ll - lh \in 1 .. ll
      BY <1>1, <1>7, <3>1
    <3>4. e[i + le - lg] = log[k + ll - lh]
      BY <1>9, <2>1, <3>2, <3>3
    <3> HIDE DEF k
    <3> QED BY <1>7, <3>1, <3>4
  <2> QED BY <2>2, <2>3
<1>12. LostIsOld(g, e)
  <2> SUFFICES ASSUME NEW i \in 1 .. le - lg, e[i].fate = "fresh"
               PROVE  e[i].age > QuadWindow
    BY DEF LostIsOld, lg, le
  <2>1. i \in 1 .. le /\ i + d \in 1 .. ll - lp /\ e[i] = log[i + d]
    BY <1>1, <1>3, <1>4, <1>7, <1>9
  <2>2. CASE i + d \in 1 .. ll - lh
    BY <1>7, <2>1, <2>2
  <2>3. CASE i + d \notin 1 .. ll - lh
    <3> DEFINE k == i + d - (ll - lh)
    <3>1. k \in 1 .. lh - lp /\ k \in 1 .. lh
          /\ k + ll - lh = i + d
      BY <1>1, <1>3, <1>9, <2>1, <2>3
    <3> HIDE DEF k
    <3>2. log[i + d].age = h[k].age /\ h[k].age > QuadWindow
      BY <1>3, <1>7, <3>1
    <3> QED BY <2>1, <3>2
  <2> QED BY <2>2, <2>3
<1>13. g[lg].age = 0 /\ g[1].age <= QuadWindow
  BY <1>1, <1>3, <1>4, <1>8
<1>14. ASSUME NEW i \in 1 .. lg PROVE g[i].anchor \in managed \cup {Desktop}
  <2>1. CASE i = lg
    <3>1. g[i].anchor = t
      BY <1>1, <1>4, <1>8, <2>1
    <3> QED BY <1>2, <3>1
  <2>2. CASE i # lg
    <3>1. g[i] = h[i + lh - lp] /\ i + lh - lp \in 1 .. lh
      BY <1>1, <1>3, <1>4, <2>2
    <3> QED BY <1>7, <3>1
  <2> QED BY <2>1, <2>2
<1> QED BY <1>4, <1>6, <1>9, <1>10, <1>11, <1>12, <1>13, <1>14 DEF e, g, t, lg, le

\* Spent taps stay in the log, and none is fresh.
LEMMA SpendFacts ==
  ASSUME NEW s \in Seq(LoggedTap)
  PROVE  /\ Spend(s) \in Seq(LoggedTap) /\ Len(Spend(s)) = Len(s)
         /\ \A i \in 1 .. Len(s) : Spend(s)[i].fate # "fresh"
<1>1. /\ Len(s) \in Nat /\ DOMAIN s = 1 .. Len(s)
      /\ \A i \in 1 .. Len(s) : s[i] \in LoggedTap
  BY LenProperties, ElementOfSeq
<1>2. ASSUME NEW i \in 1 .. Len(s)
      PROVE  Spend(s)[i] \in LoggedTap /\ Spend(s)[i].fate # "fresh"
  <2>1. Spend(s)[i] = [s[i] EXCEPT !.fate = IF s[i].fate = "fresh" THEN "spent"
                                            ELSE s[i].fate]
    BY <1>1 DEF Spend
  <2>2. s[i] \in LoggedTap
    BY <1>1
  <2> QED BY <2>1, <2>2 DEF LoggedTap
<1>3. Spend(s) \in [1 .. Len(s) -> LoggedTap]
  BY <1>1, <1>2 DEF Spend
<1>4. Spend(s) \in Seq(LoggedTap) /\ Len(Spend(s)) = Len(s)
  BY <1>1, <1>3, SeqDef, LenProperties
<1> QED BY <1>2, <1>4

-----------------------------------------------------------------------------
(* The invariant                                                           *)

\* An empty history misses no young tap of a log without fresh taps.
LEMMA NothingKept ==
  ASSUME NEW e \in Seq(LoggedTap), \A i \in 1 .. Len(e) : e[i].fate # "fresh"
  PROVE  AgesFall(<<>>) /\ Newest(<<>>, e) /\ LostIsOld(<<>>, e)
<1>1. Len(e) \in Nat /\ Len(<<>>) = 0
  BY LenProperties
<1> QED BY <1>1 DEF AgesFall, Newest, LostIsOld

\* Time passes.
LEMMA TickKeeps == TapInv /\ Tick => TapInv'
<1> SUFFICES ASSUME TapInv, Tick PROVE TapInv'
  OBVIOUS
<1> DEFINE h == Aged(history)
           e == Aged(log)
<1>1. /\ history \in Seq(TapRecord) /\ log \in Seq(LoggedTap) /\ pending \in Seq(TapRecord)
      /\ managed \subseteq Window
  BY DEF TapInv, TapTypeOK
<1>2. /\ history' = h /\ log' = e /\ pending' = Aged(pending)
      /\ fired' = "none" /\ managed' = managed
  BY DEF Tick
<1>3. /\ h \in Seq(TapRecord) /\ Len(h) = Len(history)
      /\ \A i \in 1 .. Len(history) :
           /\ h[i].anchor = history[i].anchor
           /\ h[i].age = IF history[i].age < Horizon THEN history[i].age + 1
                         ELSE history[i].age
  BY <1>1, AgedFacts
<1>4. /\ e \in Seq(LoggedTap) /\ Len(e) = Len(log)
      /\ \A i \in 1 .. Len(log) :
           /\ e[i].anchor = log[i].anchor /\ e[i].fate = log[i].fate
           /\ e[i].age = IF log[i].age < Horizon THEN log[i].age + 1 ELSE log[i].age
  BY <1>1, AgedFacts
<1>5. /\ pending' \in Seq(TapRecord) /\ Len(pending') = Len(pending)
      /\ \A i \in 1 .. Len(pending) : pending'[i].anchor = pending[i].anchor
  BY <1>1, <1>2, AgedFacts
<1> DEFINE lh == Len(history)
           ll == Len(log)
<1>6. /\ lh \in Nat /\ ll \in Nat /\ Horizon \in Nat /\ QuadWindow \in Nat
      /\ \A i \in 1 .. lh : history[i].age \in Nat
      /\ \A i \in 1 .. ll : log[i].age \in Nat
  <2>1. /\ lh \in Nat /\ ll \in Nat
        /\ \A i \in 1 .. lh : history[i] \in TapRecord
        /\ \A i \in 1 .. ll : log[i] \in LoggedTap
    BY <1>1, LenProperties, ElementOfSeq
  <2>2. /\ Horizon \in Nat /\ QuadWindow \in Nat
        /\ \A r \in TapRecord : r.age \in Nat
        /\ \A r \in LoggedTap : r.age \in Nat
    BY TapAssumption DEF TapRecord, LoggedTap, Age
  <2> QED BY <2>1, <2>2
<1>7. /\ \A i, j \in 1 .. lh : i < j => history[j].age <= history[i].age
      /\ lh <= ll
      /\ \A i \in 1 .. lh :
           /\ log[i + ll - lh].fate = "fresh"
           /\ log[i + ll - lh].anchor = history[i].anchor
           /\ log[i + ll - lh].age = history[i].age
      /\ \A i \in 1 .. ll - lh : log[i].fate = "fresh" => log[i].age > QuadWindow
  BY DEF TapInv, AgesFall, Newest, LostIsOld
<1> HIDE DEF h, e, lh, ll
<1>8. AgesFall(h)
  <2>1. ASSUME NEW i \in 1 .. lh, NEW j \in 1 .. lh, i < j
        PROVE  h[j].age <= h[i].age
    <3>1. history[j].age <= history[i].age
          /\ history[j].age \in Nat /\ history[i].age \in Nat
      BY <1>6, <1>7, <2>1
    <3>2. /\ h[i].age = IF history[i].age < Horizon THEN history[i].age + 1
                        ELSE history[i].age
          /\ h[j].age = IF history[j].age < Horizon THEN history[j].age + 1
                        ELSE history[j].age
      BY <1>3 DEF lh
    <3> QED BY <1>6, <3>1, <3>2
  <2> QED BY <1>3, <2>1 DEF AgesFall, lh
<1>9. Newest(h, e)
  <2>1. ASSUME NEW i \in 1 .. lh
        PROVE  /\ e[i + ll - lh].fate = "fresh"
               /\ e[i + ll - lh].anchor = h[i].anchor
               /\ e[i + ll - lh].age = h[i].age
    <3>1. i + ll - lh \in 1 .. ll
      BY <1>6, <1>7
    <3> DEFINE k == i + ll - lh
    <3> HIDE DEF k
    <3>2. k \in 1 .. Len(log) /\ i \in 1 .. Len(history)
      BY <3>1 DEF k, lh, ll
    <3>3. /\ log[k].fate = "fresh" /\ log[k].anchor = history[i].anchor
          /\ log[k].age = history[i].age
      BY <1>7 DEF k
    <3>4. /\ e[k].anchor = log[k].anchor /\ e[k].fate = log[k].fate
          /\ e[k].age = IF log[k].age < Horizon THEN log[k].age + 1 ELSE log[k].age
      BY <1>4, <3>2
    <3>5. /\ h[i].anchor = history[i].anchor
          /\ h[i].age = IF history[i].age < Horizon THEN history[i].age + 1
                        ELSE history[i].age
      BY <1>3, <3>2
    <3> QED BY <3>3, <3>4, <3>5 DEF k
  <2> QED BY <1>3, <1>4, <1>7, <2>1 DEF Newest, lh, ll
<1>10. LostIsOld(h, e)
  <2>1. ASSUME NEW i \in 1 .. ll - lh, e[i].fate = "fresh"
        PROVE  e[i].age > QuadWindow
    <3>1. i \in 1 .. ll
      BY <1>6
    <3>2. /\ log[i].fate = "fresh" /\ log[i].age > QuadWindow
          /\ e[i].age = IF log[i].age < Horizon THEN log[i].age + 1 ELSE log[i].age
      BY <1>4, <1>7, <2>1, <3>1 DEF ll
    <3> QED BY <1>6, <3>1, <3>2
  <2> QED BY <1>3, <1>4, <2>1 DEF LostIsOld, lh, ll
<1>11. TapTypeOK'
  BY <1>1, <1>2, <1>3, <1>4, <1>5 DEF TapInv, TapTypeOK
<1>12. NoDanglingTap'
  <2>1. /\ DOMAIN pending' = DOMAIN pending /\ DOMAIN pending = 1 .. Len(pending)
        /\ DOMAIN history' = DOMAIN history /\ DOMAIN history = 1 .. Len(history)
    BY <1>1, <1>2, <1>3, <1>5, LenProperties
  <2> QED BY <1>2, <1>3, <1>5, <2>1 DEF TapInv, NoDanglingTap
<1> QED BY <1>2, <1>8, <1>9, <1>10, <1>11, <1>12 DEF TapInv

\* A press begins, or is given up.
LEMMA PressKeeps ==
  ASSUME TapInv, cancel_tap_pending \/ \E t \in Anchor : note_tap_press(t)
  PROVE  TapInv'
<1>1. /\ history' = history /\ log' = log /\ managed' = managed /\ fired' = "none"
      /\ \/ pending' = <<>>
         \/ \E t \in managed \cup {Desktop} :
              t \in Anchor /\ pending' = <<[anchor |-> t, age |-> 0]>>
  BY DEF cancel_tap_pending, note_tap_press
<1>2. /\ pending' \in Seq(TapRecord) /\ Len(pending') <= 1
      /\ \A i \in DOMAIN pending' : pending'[i].anchor \in managed \cup {Desktop}
  <2>1. CASE pending' = <<>>
    BY <2>1
  <2>2. CASE pending' # <<>>
    <3>1. PICK t \in managed \cup {Desktop} :
            t \in Anchor /\ pending' = <<[anchor |-> t, age |-> 0]>>
      BY <1>1, <2>2
    <3>2. [anchor |-> t, age |-> 0] \in TapRecord
      BY <3>1, TapAssumption DEF TapRecord, Age
    <3> QED BY <3>1, <3>2
  <2> QED BY <2>1, <2>2
<1>3. TapTypeOK' /\ NoDanglingTap'
  BY <1>1, <1>2 DEF TapInv, TapTypeOK, NoDanglingTap
<1> QED BY <1>1, <1>3 DEF TapInv

\* What a release does to the history and the log.
LEMMA ReleaseDoes ==
  ASSUME TapInv, NEW moved \in BOOLEAN, note_tap_release(moved)
  PROVE  /\ Pending /\ pending' = <<>> /\ managed' = managed
         /\ \/ IsTap(moved) /\ fired' = Gesture(Judged(pending[1].anchor))
            \/ ~IsTap(moved) /\ fired' = "none" /\ UNCHANGED <<history, log>>
         /\ IsTap(moved) /\ fired' = "none" =>
              history' = Judged(pending[1].anchor) /\ log' = Logged
         /\ IsTap(moved) /\ fired' # "none" => history' = <<>> /\ log' = Spend(Logged)
BY DEF note_tap_release, check_tap_gestures, Judged

\* A release.
LEMMA ReleaseKeeps ==
  ASSUME TapInv, NEW moved \in BOOLEAN, note_tap_release(moved)
  PROVE  TapInv'
<1> DEFINE g == Judged(pending[1].anchor)
<1>1. /\ Pending /\ pending' = <<>> /\ managed' = managed
      /\ managed \subseteq Window /\ Gesture(g) \in {"none", "triple", "quad"}
  BY ReleaseDoes DEF TapInv, TapTypeOK, Gesture
<1>2. /\ g \in Seq(TapRecord) /\ Len(g) \in 1 .. 4
      /\ Logged \in Seq(LoggedTap) /\ Len(Logged) <= 4
      /\ AgesFall(g) /\ Newest(g, Logged) /\ LostIsOld(g, Logged)
      /\ \A i \in 1 .. Len(g) : g[i].anchor \in managed \cup {Desktop}
  BY <1>1, JudgedFacts
<1>3. pending' \in Seq(TapRecord) /\ Len(pending') = 0 /\ DOMAIN pending' = {}
  BY <1>1
<1>4. CASE ~IsTap(moved)
  <2>1. history' = history /\ log' = log /\ fired' = "none"
    BY <1>4, ReleaseDoes
  <2>2. TapTypeOK' /\ NoDanglingTap'
    BY <1>1, <1>3, <2>1 DEF TapInv, TapTypeOK, NoDanglingTap
  <2> QED BY <2>1, <2>2 DEF TapInv
<1>5. CASE IsTap(moved) /\ fired' = "none"
  <2>1. history' = g /\ log' = Logged /\ Gesture(g) = "none"
    BY <1>5, ReleaseDoes
  <2>2. Len(g) < TAP_HISTORY_SIZE
    BY <1>2, <2>1 DEF Gesture, TAP_HISTORY_SIZE
  <2>3. DOMAIN g = 1 .. Len(g)
    BY <1>2, LenProperties
  <2> HIDE DEF g
  <2>4. TapTypeOK' /\ NoDanglingTap'
    BY <1>1, <1>2, <1>3, <1>5, <2>1, <2>2, <2>3 DEF TapTypeOK, NoDanglingTap
  <2> QED BY <1>2, <2>1, <2>4 DEF TapInv
<1>6. CASE IsTap(moved) /\ fired' # "none"
  <2>1. history' = <<>> /\ log' = Spend(Logged) /\ fired' = Gesture(g)
    BY <1>6, ReleaseDoes
  <2>2. /\ log' \in Seq(LoggedTap) /\ Len(log') <= 4
        /\ \A i \in 1 .. Len(log') : log'[i].fate # "fresh"
    BY <1>2, <2>1, SpendFacts
  <2>3. AgesFall(<<>>) /\ Newest(<<>>, log') /\ LostIsOld(<<>>, log')
    BY <2>2, NothingKept
  <2>4. history' \in Seq(TapRecord) /\ Len(history') < TAP_HISTORY_SIZE
        /\ DOMAIN history' = {}
    BY <2>1 DEF TAP_HISTORY_SIZE
  <2> HIDE DEF g
  <2>5. TapTypeOK' /\ NoDanglingTap'
    BY <1>1, <1>3, <2>1, <2>2, <2>4 DEF TapTypeOK, NoDanglingTap
  <2> QED BY <2>1, <2>3, <2>5 DEF TapInv
<1> QED BY <1>4, <1>5, <1>6

\* A window closes: its taps go, and the whole history with them.
LEMMA CloseKeeps ==
  ASSUME TapInv, NEW w \in Window, CloseWindow(w)
  PROVE  TapInv'
<1> DEFINE e == [i \in DOMAIN log |-> [log[i] EXCEPT !.fate = Fate(log[i], w)]]
           lh == Len(history)
           ll == Len(log)
<1>1. /\ managed' = managed \ {w} /\ log' = e /\ fired' = "none"
      /\ pending' = IF Pending /\ pending[1].anchor = w THEN <<>> ELSE pending
      /\ history' = IF DropsHistory(w) THEN <<>> ELSE history
  BY DEF CloseWindow, on_window_unmanaged
<1>2. /\ history \in Seq(TapRecord) /\ log \in Seq(LoggedTap) /\ pending \in Seq(TapRecord)
      /\ managed \subseteq Window /\ Len(pending) <= 1 /\ Len(history) < TAP_HISTORY_SIZE
      /\ Len(log) <= 4
  BY DEF TapInv, TapTypeOK
<1>3. /\ lh \in Nat /\ ll \in Nat /\ DOMAIN history = 1 .. lh /\ DOMAIN log = 1 .. ll
      /\ DOMAIN pending = 1 .. Len(pending) /\ Len(pending) \in Nat
      /\ \A i \in 1 .. ll : log[i] \in LoggedTap
  BY <1>2, LenProperties, ElementOfSeq
<1>4. ASSUME NEW i \in 1 .. ll
      PROVE  /\ e[i] \in LoggedTap
             /\ e[i].anchor = log[i].anchor /\ e[i].age = log[i].age
             /\ e[i].fate = Fate(log[i], w)
  <2>1. e[i] = [log[i] EXCEPT !.fate = Fate(log[i], w)] /\ log[i] \in LoggedTap
    BY <1>3
  <2>2. log[i].fate \in {"fresh", "spent", "closed", "forgotten"}
    BY <2>1 DEF LoggedTap
  <2>3. Fate(log[i], w) \in {"fresh", "spent", "closed", "forgotten"}
    BY <2>2 DEF Fate
  <2> QED BY <2>1, <2>3 DEF LoggedTap
<1>5. e \in Seq(LoggedTap) /\ Len(e) = ll
  <2>1. e \in [1 .. ll -> LoggedTap]
    BY <1>3, <1>4
  <2> HIDE DEF e, ll
  <2> QED BY <1>3, <2>1, SeqDef, LenProperties
<1>6. TapTypeOK'
  <2>1. pending' \in Seq(TapRecord) /\ Len(pending') <= 1
    BY <1>1, <1>2
  <2>2. history' \in Seq(TapRecord) /\ Len(history') < TAP_HISTORY_SIZE
    BY <1>1, <1>2 DEF TAP_HISTORY_SIZE
  <2> HIDE DEF e
  <2> QED BY <1>1, <1>2, <1>5, <2>1, <2>2 DEF TapTypeOK
<1>7. NoDanglingTap'
  <2>1. Desktop # w
    BY TapAssumption
  <2>2. ASSUME NEW i \in DOMAIN pending'
        PROVE  pending'[i].anchor \in managed' \cup {Desktop}
    <3>1. pending' = pending /\ i = 1 /\ ~(Pending /\ pending[1].anchor = w)
      BY <1>1, <1>2, <1>3, <2>2
    <3>2. Pending
      BY <1>3, <2>2, <3>1 DEF Pending
    <3>3. pending[i].anchor \in managed \cup {Desktop}
      BY <2>2, <3>1 DEF TapInv, NoDanglingTap
    <3> QED BY <1>1, <3>1, <3>2, <3>3
  <2>3. ASSUME NEW i \in DOMAIN history'
        PROVE  history'[i].anchor \in managed' \cup {Desktop}
    <3>1. history' = history /\ ~DropsHistory(w)
      BY <1>1, <2>3
    <3>2. history[i].anchor # w /\ history[i].anchor \in managed \cup {Desktop}
      BY <2>3, <3>1 DEF DropsHistory, TapInv, NoDanglingTap
    <3> QED BY <1>1, <3>1, <3>2
  <2> QED BY <2>2, <2>3 DEF NoDanglingTap
<1>8. AgesFall(history') /\ Newest(history', log') /\ LostIsOld(history', log')
  <2>1. CASE DropsHistory(w)
    <3>1. ASSUME NEW i \in 1 .. ll PROVE e[i].fate # "fresh"
      BY <1>4, <2>1 DEF Fate
    <3> HIDE DEF e
    <3> QED BY <1>1, <1>5, <2>1, <3>1, NothingKept
  <2>2. CASE ~DropsHistory(w)
    <3>1. \A i \in 1 .. ll : e[i].fate = IF log[i].anchor = w THEN "closed" ELSE log[i].fate
      BY <1>4, <2>2 DEF Fate
    <3>2. \A i \in 1 .. lh : history[i].anchor # w
      BY <1>3, <2>2 DEF DropsHistory
    <3>3. /\ AgesFall(history) /\ lh <= ll
          /\ \A i \in 1 .. lh :
               /\ log[i + ll - lh].fate = "fresh"
               /\ log[i + ll - lh].anchor = history[i].anchor
               /\ log[i + ll - lh].age = history[i].age
          /\ \A i \in 1 .. ll - lh : log[i].fate = "fresh" => log[i].age > QuadWindow
      BY DEF TapInv, Newest, LostIsOld
    <3> HIDE DEF e, lh, ll
    <3>4. ASSUME NEW i \in 1 .. lh
          PROVE  /\ e[i + ll - lh].fate = "fresh"
                 /\ e[i + ll - lh].anchor = history[i].anchor
                 /\ e[i + ll - lh].age = history[i].age
      <4>1. i + ll - lh \in 1 .. ll
        BY <1>3, <3>3
      <4> QED BY <1>4, <3>1, <3>2, <3>3, <4>1
    <3>5. ASSUME NEW i \in 1 .. ll - lh, e[i].fate = "fresh"
          PROVE  e[i].age > QuadWindow
      <4>1. i \in 1 .. ll
        BY <1>3
      <4>2. log[i].fate = "fresh" /\ e[i].age = log[i].age
        BY <1>4, <3>1, <3>5, <4>1
      <4> QED BY <3>3, <4>2
    <3>6. history' = history /\ log' = e
      BY <1>1, <2>2
    <3> QED BY <1>5, <3>3, <3>4, <3>5, <3>6 DEF Newest, LostIsOld, lh, ll
  <2> QED BY <2>1, <2>2
<1> QED BY <1>6, <1>7, <1>8 DEF TapInv

\* The inductive step.
LEMMA TapNextInv == TapInv /\ [TapNext]_tapVars => TapInv'
<1> SUFFICES ASSUME TapInv, [TapNext]_tapVars PROVE TapInv'
  OBVIOUS
<1>1. ASSUME NEW w \in Window, MapWindow(w) PROVE TapInv'
  <2>1. /\ managed' = managed \cup {w} /\ fired' = "none"
        /\ pending' = pending /\ history' = history /\ log' = log
    BY <1>1 DEF MapWindow
  <2>2. TapTypeOK' /\ NoDanglingTap'
    BY <2>1 DEF TapInv, TapTypeOK, NoDanglingTap
  <2> QED BY <2>1, <2>2 DEF TapInv
<1>2. CASE UNCHANGED tapVars
  <2>1. /\ managed' = managed /\ fired' = fired
        /\ pending' = pending /\ history' = history /\ log' = log
    BY <1>2 DEF tapVars
  <2> QED BY <2>1 DEF TapInv, TapTypeOK, NoDanglingTap
<1> QED BY <1>1, <1>2, TickKeeps, PressKeeps, ReleaseKeeps, CloseKeeps DEF TapNext

\* No tap has been made.
LEMMA TapInitInv == TapInit => TapInv
<1> SUFFICES ASSUME TapInit PROVE TapInv
  OBVIOUS
<1>1. /\ managed \subseteq Window /\ fired = "none"
      /\ pending = <<>> /\ history = <<>> /\ log = <<>>
  BY DEF TapInit
<1>2. <<>> \in Seq(LoggedTap) /\ <<>> \in Seq(TapRecord) /\ Len(<<>>) = 0
  <2>1. <<>> \in Seq(LoggedTap)
    OBVIOUS
  <2>2. <<>> \in Seq(TapRecord)
    OBVIOUS
  <2>3. Len(<<>>) = 0
    BY <2>2, EmptySeq
  <2> QED BY <2>1, <2>2, <2>3
<1>3. AgesFall(<<>>) /\ Newest(<<>>, <<>>) /\ LostIsOld(<<>>, <<>>)
  <2>1. \A i \in 1 .. Len(<<>>) : FALSE
    BY <1>2
  <2> QED BY <1>2, <2>1 DEF AgesFall, Newest, LostIsOld
<1>4. TapTypeOK
  BY <1>1, <1>2 DEF TapTypeOK, TAP_HISTORY_SIZE
<1>5. NoDanglingTap
  BY <1>1 DEF NoDanglingTap
<1> QED BY <1>1, <1>3, <1>4, <1>5 DEF TapInv

-----------------------------------------------------------------------------
(* Theorems                                                                *)

\* The inductive invariant of the pending tap, the history and the log.
THEOREM TapInvariance == TapSpec => []TapInv
<1> QED BY TapInitInv, TapNextInv, PTL DEF TapSpec

\* Types; the history never fills the array of four it is kept in.
THEOREM TapTypeCorrect == TapSpec => []TapTypeOK
<1>1. TapInv => TapTypeOK
  BY DEF TapInv
<1> QED BY <1>1, TapInvariance, PTL

\* However windows close and come back at the same address, no tap that is
\* kept points at a window that is gone.
THEOREM NoTapOutlivesWindow == TapSpec => []NoDanglingTap
<1>1. TapInv => NoDanglingTap
  BY DEF TapInv
<1> QED BY <1>1, TapInvariance, PTL

\* A gesture is the doing of the taps it clears the ink for: of three on one
\* anchor or of four, unused, in time, on windows that live.
THEOREM GesturesAreEarned == TapSpec => GestureEarned
<1> DEFINE g == Judged(pending[1].anchor)
           L == Logged
<1>1. ASSUME TapInv, [TapNext]_tapVars
      PROVE  [/\ fired' = "triple" => FreshBurst(3, TripleWindow) /\ OneAnchor(3)
              /\ fired' = "quad" => FreshBurst(4, QuadWindow)]_tapVars
  <2> SUFFICES ASSUME ~UNCHANGED tapVars, fired' \in {"triple", "quad"}
               PROVE  /\ fired' = "triple" => FreshBurst(3, TripleWindow) /\ OneAnchor(3)
                      /\ fired' = "quad" => FreshBurst(4, QuadWindow)
    OBVIOUS
  <2>1. PICK moved \in BOOLEAN : note_tap_release(moved)
    BY <1>1 DEF TapNext, Tick, cancel_tap_pending, note_tap_press, MapWindow, CloseWindow
  <2>2. fired' = Gesture(g) /\ Pending
    BY <1>1, <2>1, ReleaseDoes
  <2>3. /\ g \in Seq(TapRecord) /\ Len(g) \in 1 .. 4
        /\ L \in Seq(LoggedTap) /\ Len(L) <= 4
        /\ AgesFall(g) /\ Newest(g, L) /\ g[Len(g)].age = 0 /\ g[1].age <= QuadWindow
    BY <1>1, <2>2, JudgedFacts
  <2> DEFINE lg == Len(g)
             ll == Len(L)
  <2>4. /\ lg \in 1 .. 4 /\ ll \in Nat /\ lg <= ll /\ ll <= 4
        /\ \A i \in 1 .. lg : g[i].age \in Nat
        /\ TripleWindow \in Nat /\ QuadWindow \in Nat
    <3>1. ll \in Nat /\ \A i \in 1 .. lg : g[i] \in TapRecord
      BY <2>3, LenProperties, ElementOfSeq
    <3>2. /\ TripleWindow \in Nat /\ QuadWindow \in Nat
          /\ \A r \in TapRecord : r.age \in Nat
      BY TapAssumption DEF TapRecord, Age
    <3> QED BY <2>3, <3>1, <3>2 DEF Newest
  <2>5. /\ \A i, j \in 1 .. lg : i < j => g[j].age <= g[i].age
        /\ \A i \in 1 .. lg : /\ L[i + ll - lg].fate = "fresh"
                              /\ L[i + ll - lg].anchor = g[i].anchor
                              /\ L[i + ll - lg].age = g[i].age
        /\ g[lg].age = 0 /\ g[1].age <= QuadWindow
    BY <2>3 DEF AgesFall, Newest
  <2>6. /\ fired' = "quad" => lg >= 4
        /\ fired' = "triple" =>
             /\ lg = 3
             /\ g[1].anchor = g[2].anchor /\ g[2].anchor = g[3].anchor
             /\ g[1].age - g[3].age <= TripleWindow
    <3>1. Gesture(g) = IF lg >= 4 THEN "quad"
                       ELSE IF /\ lg >= 3
                               /\ g[lg - 2].anchor = g[lg - 1].anchor
                               /\ g[lg - 1].anchor = g[lg].anchor
                               /\ g[lg - 2].age - g[lg].age <= TripleWindow
                         THEN "triple"
                       ELSE "none"
      BY DEF Gesture, TAP_HISTORY_SIZE
    <3> HIDE DEF g, lg
    <3>2. CASE lg >= 4
      BY <2>2, <3>1, <3>2
    <3>3. CASE lg < 4 /\ fired' = "triple"
      <4>1. /\ lg >= 3
            /\ g[lg - 2].anchor = g[lg - 1].anchor
            /\ g[lg - 1].anchor = g[lg].anchor
            /\ g[lg - 2].age - g[lg].age <= TripleWindow
        BY <2>2, <2>4, <3>1, <3>3
      <4>2. lg = 3 /\ lg - 2 = 1 /\ lg - 1 = 2
        BY <2>4, <3>3, <4>1
      <4> QED BY <3>3, <4>1, <4>2
    <3>4. CASE lg < 4 /\ fired' # "triple"
      BY <2>2, <2>4, <3>1, <3>4
    <3> QED BY <2>4, <3>2, <3>3, <3>4
  <2> HIDE DEF g, L, lg, ll
  <2>7. CASE fired' = "quad"
    <3>1. lg = 4 /\ ll = 4 /\ \A i \in 1 .. 4 : i + ll - lg = i
      BY <2>4, <2>6, <2>7
    <3>2. \A i \in 1 .. 4 : L[i].fate = "fresh" /\ L[i].age <= QuadWindow
      <4> SUFFICES ASSUME NEW i \in 1 .. 4
                   PROVE  L[i].fate = "fresh" /\ L[i].age <= QuadWindow
        OBVIOUS
      <4>1. g[i].age <= g[1].age /\ g[i].age \in Nat /\ g[1].age \in Nat
        BY <2>4, <2>5, <3>1
      <4>2. L[i].fate = "fresh" /\ L[i].age = g[i].age
        BY <2>5, <3>1
      <4> QED BY <2>4, <2>5, <4>1, <4>2
    <3>3. FreshBurst(4, QuadWindow)
      BY <3>1, <3>2 DEF FreshBurst, L, ll
    <3> QED BY <2>7, <3>3
  <2>8. CASE fired' = "triple"
    <3>1. /\ lg = 3 /\ ll \in 3 .. 4
          /\ g[1].anchor = g[2].anchor /\ g[2].anchor = g[3].anchor
          /\ g[1].age - g[3].age <= TripleWindow
      BY <2>4, <2>6, <2>8
    <3>2. g[3].age = 0 /\ g[1].age <= TripleWindow /\ g[2].age <= TripleWindow
      <4>1. g[3].age = 0 /\ g[2].age <= g[1].age
            /\ g[1].age \in Nat /\ g[2].age \in Nat
        BY <2>4, <2>5, <3>1
      <4> QED BY <2>4, <3>1, <4>1
    <3>3. ASSUME NEW k \in ll - 2 .. ll
          PROVE  /\ L[k].fate = "fresh" /\ L[k].age <= TripleWindow
                 /\ L[k].anchor = g[3].anchor
      <4> DEFINE i == k - (ll - 3)
      <4>1. i \in 1 .. 3 /\ i + ll - lg = k
        BY <3>1
      <4> HIDE DEF i
      <4>2. L[k].fate = "fresh" /\ L[k].anchor = g[i].anchor /\ L[k].age = g[i].age
        BY <2>5, <3>1, <4>1
      <4>3. i = 1 \/ i = 2 \/ i = 3
        BY <4>1
      <4> QED BY <2>4, <3>1, <3>2, <4>2, <4>3
    <3>4. ll >= 3 /\ ll - 3 + 1 = ll - 2 /\ ll \in ll - 2 .. ll
      BY <3>1
    <3>5. FreshBurst(3, TripleWindow)
      BY <3>3, <3>4 DEF FreshBurst, L, ll
    <3>6. OneAnchor(3)
      BY <3>3, <3>4 DEF OneAnchor, L, ll
    <3> QED BY <2>8, <3>5, <3>6
  <2> QED BY <2>7, <2>8
<1> QED BY <1>1, TapInvariance, PTL DEF TapSpec, GestureEarned

\* No gesture is missed, as long as a triple tap is given no less time than
\* the pruning leaves it: in the code 750 ms against 100 ms.  (The other way
\* round, three taps may be too slow to be triple and not be pruned.)
THEOREM FastTapsAreSeen ==
  ASSUME QuadWindow <= TripleWindow
  PROVE  TapSpec => FastTapsFire
<1> DEFINE g == Judged(pending[1].anchor)
           L == Logged
           lg == Len(g)
           ll == Len(L)
           Due == \/ FreshBurst(3, QuadWindow) /\ OneAnchor(3)
                  \/ FreshBurst(4, QuadWindow)
<1>1. ASSUME TapInv, Tapped, Due
      PROVE  fired' # "none"
  <2>1. /\ Pending /\ fired' = Gesture(g)
    BY <1>1, ReleaseDoes DEF Tapped
  <2>2. /\ g \in Seq(TapRecord) /\ lg \in 1 .. 4
        /\ L \in Seq(LoggedTap) /\ ll <= 4
        /\ Newest(g, L) /\ LostIsOld(g, L) /\ g[lg].age = 0 /\ g[1].age <= QuadWindow
    BY <1>1, <2>1, JudgedFacts
  <2>3. /\ lg \in 1 .. 4 /\ ll \in Nat /\ lg <= ll
        /\ \A i \in 1 .. lg : g[i].age \in Nat
        /\ \A i \in 1 .. ll : L[i].age \in Nat
        /\ TripleWindow \in Nat /\ QuadWindow \in Nat
    <3>1. /\ ll \in Nat /\ \A i \in 1 .. lg : g[i] \in TapRecord
          /\ \A i \in 1 .. ll : L[i] \in LoggedTap
      BY <2>2, LenProperties, ElementOfSeq
    <3>2. /\ TripleWindow \in Nat /\ QuadWindow \in Nat
          /\ \A r \in TapRecord : r.age \in Nat
          /\ \A r \in LoggedTap : r.age \in Nat
      BY TapAssumption DEF TapRecord, LoggedTap, Age
    <3> QED BY <2>2, <3>1, <3>2 DEF Newest
  <2>4. /\ \A i \in 1 .. lg : L[i + ll - lg].anchor = g[i].anchor
        /\ \A i \in 1 .. ll - lg : L[i].fate = "fresh" => L[i].age > QuadWindow
    BY <2>2 DEF Newest, LostIsOld
  <2>5. /\ \/ /\ ll >= 3
              /\ \A k \in ll - 3 + 1 .. ll :
                   /\ L[k].fate = "fresh" /\ L[k].age <= QuadWindow
                   /\ L[k].anchor = L[ll].anchor
           \/ /\ ll >= 4
              /\ \A k \in ll - 4 + 1 .. ll :
                   L[k].fate = "fresh" /\ L[k].age <= QuadWindow
    BY <1>1 DEF FreshBurst, OneAnchor
  <2>6. Gesture(g) = IF lg >= 4 THEN "quad"
                     ELSE IF /\ lg >= 3
                             /\ g[lg - 2].anchor = g[lg - 1].anchor
                             /\ g[lg - 1].anchor = g[lg].anchor
                             /\ g[lg - 2].age - g[lg].age <= TripleWindow
                       THEN "triple"
                     ELSE "none"
    BY DEF Gesture, TAP_HISTORY_SIZE
  <2> HIDE DEF g, L, lg, ll
  <2>7. ASSUME NEW n \in {3, 4}, ll >= n,
               \A k \in ll - n + 1 .. ll : L[k].fate = "fresh" /\ L[k].age <= QuadWindow
        PROVE  lg >= n
    <3> SUFFICES ASSUME lg < n PROVE FALSE
      BY <2>3
    <3> DEFINE k == ll - n + 1
    <3>1. k \in 1 .. ll - lg /\ k \in ll - n + 1 .. ll /\ k \in 1 .. ll
      BY <2>3, <2>7
    <3> HIDE DEF k
    <3>2. L[k].fate = "fresh" /\ L[k].age <= QuadWindow /\ L[k].age \in Nat
      BY <2>3, <2>7, <3>1
    <3>3. L[k].age > QuadWindow
      BY <2>4, <3>1, <3>2
    <3> QED BY <2>3, <3>2, <3>3
  <2>8. CASE lg >= 4
    BY <2>1, <2>6, <2>8
  <2>9. CASE lg < 4
    <3>1. ~(ll >= 4 /\ \A k \in ll - 4 + 1 .. ll :
                         L[k].fate = "fresh" /\ L[k].age <= QuadWindow)
      BY <2>3, <2>7, <2>9
    <3>2. /\ ll >= 3
          /\ \A k \in ll - 3 + 1 .. ll :
               /\ L[k].fate = "fresh" /\ L[k].age <= QuadWindow
               /\ L[k].anchor = L[ll].anchor
      BY <2>5, <3>1
    <3>3. lg = 3
      BY <2>3, <2>7, <2>9, <3>2
    <3>4. ASSUME NEW i \in 1 .. 3 PROVE g[i].anchor = L[ll].anchor
      <4>1. i + ll - lg \in ll - 3 + 1 .. ll
        BY <2>3, <3>2, <3>3
      <4> QED BY <2>4, <3>2, <3>3, <4>1
    <3>5. g[1].age - g[3].age <= TripleWindow
      <4>1. g[3].age = 0 /\ g[1].age \in Nat /\ g[1].age <= QuadWindow
        BY <2>2, <2>3, <3>3
      <4> QED BY <2>3, <4>1
    <3>6. lg - 2 = 1 /\ lg - 1 = 2 /\ lg >= 3
      BY <3>3
    <3> QED BY <2>1, <2>6, <2>9, <3>3, <3>4, <3>5, <3>6
  <2> QED BY <2>3, <2>8, <2>9
<1> HIDE DEF Due
<1>2. TapInv => [Tapped /\ Due => fired' # "none"]_tapVars
  BY <1>1
<1> QED BY <1>2, TapInvariance, PTL DEF TapSpec, FastTapsFire, Due
=============================================================================
