------------------------ MODULE InputIsolationProofs ------------------------
(***************************************************************************)
(* What InputIsolation promises, for any buttons, any modulus of the       *)
(* seat's count and any number of activations and events under way.        *)
(*                                                                         *)
(* Two threads share the flag and the sample.  The cursor follows from     *)
(* what the input thread knows at each of its points (Frozen), the hold    *)
(* of a mouse from what a note under way knows of the clearing it races    *)
(* (Notes), and the seat from the turns each button takes on its way from  *)
(* the device through the queue to the main thread (Seats).                *)
(***************************************************************************)
EXTENDS InputIsolation, FiniteSetTheorems, SequenceTheorems, TLAPS

ButtonEvent == [button : Button, press : BOOLEAN]

\* A button takes turns: the first event under way reverses what the main
\* thread was last told, each one the event before it, and the device is where
\* the last one left it.
Alternates(q, known, now) ==
  /\ \A i \in 1 .. Len(q) :
       (\A k \in 1 .. i - 1 : q[k].button # q[i].button)
         => (q[i].press <=> q[i].button \notin known)
  /\ \A i \in 1 .. Len(q) :
       (\A k \in i + 1 .. Len(q) : q[k].button # q[i].button)
         => (q[i].press <=> q[i].button \in now)
  /\ \A i, j \in 1 .. Len(q) :
       /\ i < j /\ q[i].button = q[j].button
       /\ \A k \in i + 1 .. j - 1 : q[k].button # q[i].button
       => (q[i].press <=> ~q[j].press)
  /\ \A b \in Button :
       (\A i \in 1 .. Len(q) : q[i].button # b) => (b \in known <=> b \in now)

Turn(S, b, press) == IF press THEN S \cup {b} ELSE S \ {b}

\* Another event of the device.
LEMMA AlternatesAppend ==
  ASSUME NEW q \in Seq(ButtonEvent), NEW known, NEW now, NEW b \in Button,
         Alternates(q, known, now)
  PROVE  Alternates(Append(q, [button |-> b, press |-> b \notin now]), known,
                    Turn(now, b, b \notin now))
<1> DEFINE e == [button |-> b, press |-> b \notin now]
           r == Append(q, e)
           n == Len(q)
           then == Turn(now, b, b \notin now)
<1>1. /\ n \in Nat /\ Len(r) = n + 1 /\ e \in ButtonEvent
      /\ \A i \in 1 .. n : r[i] = q[i] /\ q[i] \in ButtonEvent
      /\ r[n + 1] = e
  <2>1. e \in ButtonEvent
    BY DEF ButtonEvent
  <2> HIDE DEF e
  <2>2. /\ n \in Nat /\ Len(r) = n + 1 /\ r[n + 1] = e
        /\ \A i \in 1 .. n : r[i] = q[i]
    BY <2>1, AppendProperties, LenProperties
  <2>3. \A i \in 1 .. n : q[i] \in ButtonEvent
    BY ElementOfSeq
  <2> QED BY <2>1, <2>2, <2>3
<1>2. \A c : c # b => (c \in then <=> c \in now)
  BY DEF Turn
<1>3. (e.press <=> b \in then) /\ e.button = b /\ (e.press <=> b \notin now)
  BY DEF Turn
<1> HIDE DEF e, r, n, then
<1>4. ASSUME NEW i \in 1 .. n + 1, \A k \in 1 .. i - 1 : r[k].button # r[i].button
      PROVE  r[i].press <=> r[i].button \notin known
  <2>1. CASE i \in 1 .. n
    <3>1. \A k \in 1 .. i - 1 : q[k].button # q[i].button
      BY <1>1, <1>4, <2>1
    <3>2. q[i].press <=> q[i].button \notin known
      BY <2>1, <3>1 DEF Alternates, n
    <3> QED BY <1>1, <2>1, <3>2
  <2>2. CASE i = n + 1
    <3>1. \A k \in 1 .. n : q[k].button # b
      BY <1>1, <1>3, <1>4, <2>2
    <3> QED BY <1>1, <1>3, <2>2, <3>1 DEF Alternates, n
  <2> QED BY <1>1, <2>1, <2>2
<1>5. ASSUME NEW i \in 1 .. n + 1,
             \A k \in i + 1 .. n + 1 : r[k].button # r[i].button
      PROVE  r[i].press <=> r[i].button \in then
  <2>1. CASE i \in 1 .. n
    <3>1. r[i].button # b
      BY <1>1, <1>3, <1>5, <2>1
    <3>2. \A k \in i + 1 .. n : q[k].button # q[i].button
      BY <1>1, <1>5, <2>1
    <3> QED BY <1>1, <1>2, <2>1, <3>1, <3>2 DEF Alternates, n
  <2>2. CASE i = n + 1
    BY <1>1, <1>3, <2>2
  <2> QED BY <1>1, <2>1, <2>2
<1>6. ASSUME NEW i \in 1 .. n + 1, NEW j \in 1 .. n + 1,
             i < j, r[i].button = r[j].button,
             \A k \in i + 1 .. j - 1 : r[k].button # r[i].button
      PROVE  r[i].press <=> ~r[j].press
  <2>1. i \in 1 .. n
    BY <1>1, <1>6
  <2>2. CASE j \in 1 .. n
    BY <1>1, <1>6, <2>1, <2>2 DEF Alternates, n
  <2>3. CASE j = n + 1
    <3>1. \A k \in i + 1 .. n : q[k].button # q[i].button
      BY <1>1, <1>6, <2>1, <2>3
    <3>2. q[i].press <=> q[i].button \in now
      BY <2>1, <3>1 DEF Alternates, n
    <3> QED BY <1>1, <1>3, <1>6, <2>1, <2>3, <3>2
  <2> QED BY <1>1, <2>2, <2>3
<1>7. ASSUME NEW c \in Button, \A i \in 1 .. n + 1 : r[i].button # c
      PROVE  c \in known <=> c \in then
  <2>1. c # b
    BY <1>1, <1>3, <1>7
  <2>2. \A i \in 1 .. n : q[i].button # c
    BY <1>1, <1>7
  <2> QED BY <1>2, <2>1, <2>2 DEF Alternates, n
<1>8. Alternates(r, known, then)
  BY <1>1, <1>4, <1>5, <1>6, <1>7 DEF Alternates
<1> QED BY <1>8 DEF e, r, then

\* The main thread takes one.
LEMMA AlternatesTail ==
  ASSUME NEW q \in Seq(ButtonEvent), q # <<>>, NEW known, NEW now,
         Alternates(q, known, now)
  PROVE  LET e == Head(q)
         IN /\ e \in ButtonEvent /\ (e.press <=> e.button \notin known)
            /\ Alternates(Tail(q), Turn(known, e.button, e.press), now)
<1> DEFINE e == Head(q)
           r == Tail(q)
           n == Len(q)
           then == Turn(known, e.button, e.press)
<1>1. /\ n \in Nat \ {0} /\ Len(r) = n - 1 /\ e = q[1]
      /\ \A i \in 1 .. n : q[i] \in ButtonEvent
      /\ \A i \in 1 .. n - 1 : r[i] = q[i + 1]
  <2>1. n \in Nat \ {0} /\ \A i \in 1 .. n : q[i] \in ButtonEvent
    BY EmptySeq, ElementOfSeq
  <2>2. Len(r) = n - 1 /\ e = q[1] /\ \A i \in 1 .. n - 1 : r[i] = q[i + 1]
    BY HeadTailProperties
  <2> QED BY <2>1, <2>2
<1>2. e \in ButtonEvent /\ e.press \in BOOLEAN /\ e.button \in Button
  BY <1>1 DEF ButtonEvent
<1>3. e.press <=> e.button \notin known
  BY <1>1 DEF Alternates, n
<1>4. /\ \A c : c # e.button => (c \in then <=> c \in known)
      /\ e.button \in then <=> e.press
  BY DEF Turn
<1> HIDE DEF e, r, n, then
<1>5. ASSUME NEW i \in 1 .. n - 1, \A k \in 1 .. i - 1 : r[k].button # r[i].button
      PROVE  r[i].press <=> r[i].button \notin then
  <2>1. i + 1 \in 1 .. n /\ 1 \in 1 .. n /\ i \in Nat
    BY <1>1
  <2>2. \A k \in 2 .. i : q[k].button # q[i + 1].button
    <3>1. ASSUME NEW k \in 2 .. i PROVE q[k].button # q[i + 1].button
      <4>1. k - 1 \in 1 .. i - 1 /\ k - 1 \in 1 .. n - 1 /\ (k - 1) + 1 = k
        BY <1>1
      <4>2. r[k - 1] = q[k]
        BY <1>1, <4>1
      <4> QED BY <1>1, <1>5, <4>1, <4>2
    <3> QED BY <3>1
  <2>3. CASE q[i + 1].button = e.button
    <3>1. q[1].press <=> ~q[i + 1].press
      <4>1. \A k \in 1 + 1 .. (i + 1) - 1 : q[k].button # q[1].button
        BY <1>1, <2>1, <2>2, <2>3
      <4> QED BY <1>1, <2>1, <2>3, <4>1 DEF Alternates, n
    <3> QED BY <1>1, <1>4, <2>1, <2>3, <3>1
  <2>4. CASE q[i + 1].button # e.button
    <3>1. \A k \in 1 .. (i + 1) - 1 : q[k].button # q[i + 1].button
      BY <1>1, <2>1, <2>2, <2>4
    <3>2. q[i + 1].press <=> q[i + 1].button \notin known
      BY <2>1, <3>1 DEF Alternates, n
    <3> QED BY <1>1, <1>4, <2>4, <3>2
  <2> QED BY <2>3, <2>4
<1>6. ASSUME NEW i \in 1 .. n - 1,
             \A k \in i + 1 .. n - 1 : r[k].button # r[i].button
      PROVE  r[i].press <=> r[i].button \in now
  <2>1. i + 1 \in 1 .. n
    BY <1>1
  <2>2. \A k \in (i + 1) + 1 .. n : q[k].button # q[i + 1].button
    <3>1. ASSUME NEW k \in (i + 1) + 1 .. n PROVE q[k].button # q[i + 1].button
      <4>1. k - 1 \in i + 1 .. n - 1 /\ k - 1 \in 1 .. n - 1 /\ (k - 1) + 1 = k
        BY <1>1
      <4>2. r[k - 1] = q[k]
        BY <1>1, <4>1
      <4> QED BY <1>1, <1>6, <4>1, <4>2
    <3> QED BY <3>1
  <2> QED BY <1>1, <2>1, <2>2 DEF Alternates, n
<1>7. ASSUME NEW i \in 1 .. n - 1, NEW j \in 1 .. n - 1,
             i < j, r[i].button = r[j].button,
             \A k \in i + 1 .. j - 1 : r[k].button # r[i].button
      PROVE  r[i].press <=> ~r[j].press
  <2>1. i + 1 \in 1 .. n /\ j + 1 \in 1 .. n /\ i + 1 < j + 1
    BY <1>1, <1>7
  <2>2. \A k \in (i + 1) + 1 .. (j + 1) - 1 : q[k].button # q[i + 1].button
    <3>1. ASSUME NEW k \in (i + 1) + 1 .. (j + 1) - 1
          PROVE  q[k].button # q[i + 1].button
      <4>1. k - 1 \in i + 1 .. j - 1 /\ k - 1 \in 1 .. n - 1 /\ (k - 1) + 1 = k
        BY <1>1
      <4>2. r[k - 1] = q[k]
        BY <1>1, <4>1
      <4> QED BY <1>1, <1>7, <4>1, <4>2
    <3> QED BY <3>1
  <2>3. q[i + 1].button = q[j + 1].button
    BY <1>1, <1>7
  <2>4. q[i + 1].press <=> ~q[j + 1].press
    BY <2>1, <2>2, <2>3 DEF Alternates, n
  <2> QED BY <1>1, <2>4
<1>8. ASSUME NEW c \in Button, \A i \in 1 .. n - 1 : r[i].button # c
      PROVE  c \in then <=> c \in now
  <2>1. \A k \in 2 .. n : q[k].button # c
    <3>1. ASSUME NEW k \in 2 .. n PROVE q[k].button # c
      <4>1. k - 1 \in 1 .. n - 1 /\ (k - 1) + 1 = k
        BY <1>1
      <4> QED BY <1>1, <1>8, <4>1
    <3> QED BY <3>1
  <2>2. CASE c = e.button
    <3>1. \A k \in 1 + 1 .. n : q[k].button # q[1].button
      BY <1>1, <2>1, <2>2
    <3>2. q[1].press <=> q[1].button \in now
      BY <1>1, <3>1 DEF Alternates, n
    <3> QED BY <1>1, <1>4, <2>2, <3>2
  <2>3. CASE c # e.button
    <3>1. \A i \in 1 .. n : q[i].button # c
      BY <1>1, <2>1, <2>3
    <3> QED BY <1>4, <2>3, <3>1 DEF Alternates, n
  <2> QED BY <2>2, <2>3
<1>9. Alternates(r, then, now)
  BY <1>1, <1>5, <1>6, <1>7, <1>8 DEF Alternates
<1> QED BY <1>2, <1>3, <1>9 DEF e, r, then

-----------------------------------------------------------------------------
(* The inductive invariant                                                 *)

\* The main thread sets the flag and clears the sample, one after the other.
Clearing == main = "clear" => ~isolated

\* A pen's motion reaches the second question only if the flag was seen off,
\* or if it is a tablet's, which the second question holds.
Frozen ==
  /\ input.pc # "idle" => input.motion \in Motion
  /\ input.pc = "again" /\ ForOverlay(input.motion) =>
       input.sawOff \/ input.motion.device.type = "tablet"

\* A sample that is valid is of this session, or was noted late; once the
\* clearing is done only a late one can be.  What a note under way will write
\* is no worse.
Notes ==
  /\ sample.valid => sample.late \/ sample.session = session
  /\ sample.valid /\ ~isolated /\ main = "idle" => sample.late
  /\ input.pc = "write" /\ ~input.late => input.session = session
  /\ input.pc = "write" /\ ~isolated /\ main = "idle" => input.late

\* The buttons that the main thread was last told are down.
Known == {b \in Button : <<b, TRUE>> \in reached \/ <<b, FALSE>> \in reached}
\* Those whose press came to the seat.
Seated == {b \in Button : <<b, FALSE>> \in reached}

\* Every button takes turns, was dispatched under one flag, and the seat has
\* it if that flag was off.
Seats ==
  /\ Alternates(queue, Known, down)
  /\ \A b \in Button : ~(<<b, TRUE>> \in reached /\ <<b, FALSE>> \in reached)
  /\ ~torn => tool.pressed = Seated /\ tool.count = Cardinality(Seated)

IsolationInv == IsolationTypeOK /\ Clearing /\ Frozen /\ Notes /\ Seats

-----------------------------------------------------------------------------
(* The seat                                                                *)

\* The count stays in its width.
LEMMA CountType ==
  ASSUME NEW n \in Int
  PROVE  n % CountModulus \in 0 .. CountModulus - 1
<1>1. IsFiniteSet(Button)
  BY IsolationAssumption
<1>2. CountModulus \in Nat \ {0}
  BY <1>1, IsolationAssumption, FS_CardinalityType
<1> QED BY <1>2

\* As long as it counts buttons, it does not wrap.
LEMMA CountSmall ==
  ASSUME NEW n \in Int, 0 <= n, n <= Cardinality(Button)
  PROVE  n % CountModulus = n
<1>1. Cardinality(Button) \in Nat
  BY IsolationAssumption, FS_CardinalityType
<1>2. CountModulus \in Nat /\ 0 <= n /\ n < CountModulus
  BY <1>1, IsolationAssumption
<1> QED BY <1>2

\* The seat holds some of the pen's buttons.
LEMMA SeatedFinite ==
  /\ IsFiniteSet(Button) /\ Cardinality(Button) \in Nat
  /\ IsFiniteSet(Seated) /\ Cardinality(Seated) \in Nat /\ Seated \subseteq Button
<1>1. IsFiniteSet(Button) /\ Seated \subseteq Button
  BY IsolationAssumption DEF Seated
<1> QED BY <1>1, FS_Subset, FS_CardinalityType

\* One more.
LEMMA SeatedMore ==
  ASSUME NEW b \in Button, b \notin Seated
  PROVE  /\ Cardinality(Seated \cup {b}) = Cardinality(Seated) + 1
         /\ Cardinality(Seated) + 1 \in Nat
         /\ (Cardinality(Seated) + 1) % CountModulus = Cardinality(Seated) + 1
<1>1. Cardinality(Seated \cup {b}) = Cardinality(Seated) + 1
  BY SeatedFinite, FS_AddElement
<1>2. Cardinality(Seated \cup {b}) <= Cardinality(Button)
  BY SeatedFinite, FS_Subset
<1> DEFINE n == Cardinality(Seated) + 1
<1>3. n \in Int /\ 0 <= n /\ n <= Cardinality(Button) /\ n \in Nat
  BY <1>1, <1>2, SeatedFinite
<1> HIDE DEF n
<1>4. n % CountModulus = n
  BY <1>3, CountSmall
<1> QED BY <1>1, <1>3, <1>4 DEF n

\* One less.
LEMMA SeatedLess ==
  ASSUME NEW b \in Button, b \in Seated
  PROVE  /\ Cardinality(Seated \ {b}) = Cardinality(Seated) - 1
         /\ (Cardinality(Seated) - 1) % CountModulus = Cardinality(Seated) - 1
<1>1. IsFiniteSet(Seated \ {b}) /\ Cardinality(Seated \ {b}) = Cardinality(Seated) - 1
  BY SeatedFinite, FS_RemoveElement
<1>2. Seated \ {b} \in SUBSET Button
  BY SeatedFinite
<1>3. /\ Cardinality(Seated \ {b}) <= Cardinality(Button)
      /\ Cardinality(Seated \ {b}) \in Nat
  BY <1>1, <1>2, SeatedFinite, FS_Subset, FS_CardinalityType
<1> DEFINE n == Cardinality(Seated \ {b})
<1>4. n \in Int /\ 0 <= n /\ n <= Cardinality(Button)
  BY <1>3
<1> HIDE DEF n
<1>5. n % CountModulus = n
  BY <1>4, CountSmall
<1> QED BY <1>1, <1>5 DEF n

\* A button is dispatched.
LEMMA DispatchKeeps ==
  ASSUME IsolationInv, DispatchButton
  PROVE  IsolationTypeOK' /\ Seats'
<1> DEFINE e == Head(queue)
           b == e.button
<1>1. /\ queue \in Seq(ButtonEvent) /\ queue # <<>>
      /\ Alternates(queue, Known, down)
      /\ tool \in [pressed : SUBSET Button, count : 0 .. CountModulus - 1]
      /\ reached \subseteq Button \X BOOLEAN
      /\ isolated \in BOOLEAN /\ torn \in BOOLEAN
  BY DEF IsolationInv, IsolationTypeOK, Seats, DispatchButton, ButtonEvent
<1>2. /\ e \in ButtonEvent /\ (e.press <=> b \notin Known)
      /\ Alternates(Tail(queue), Turn(Known, b, e.press), down)
  BY <1>1, AlternatesTail
<1>3. b \in Button /\ e.press \in BOOLEAN
  BY <1>2 DEF ButtonEvent
<1>4. /\ queue' = Tail(queue) /\ down' = down
      /\ reached' = IF e.press THEN reached \cup {<<b, isolated>>}
                    ELSE {r \in reached : r[1] # b}
      /\ torn' = (torn \/ (~e.press /\ <<b, ~isolated>> \in reached))
      /\ tool' = IF isolated THEN tool
                 ELSE meta_wayland_tablet_tool_account_button(tool, e)
  BY DEF DispatchButton
<1>5. Tail(queue) \in Seq(ButtonEvent) /\ Len(Tail(queue)) <= MaxQueue
  <2>1. Tail(queue) \in Seq(ButtonEvent) /\ Len(Tail(queue)) = Len(queue) - 1
    BY <1>1, HeadTailProperties
  <2>2. Len(queue) \in Nat /\ Len(queue) <= MaxQueue
    BY <1>1, LenProperties DEF IsolationInv, IsolationTypeOK
  <2> QED BY <2>1, <2>2, IsolationAssumption
<1>6. /\ reached' \subseteq Button \X BOOLEAN
      /\ torn' \in BOOLEAN
  BY <1>1, <1>3, <1>4
<1> HIDE DEF e
<1>7. \A c \in Button, f \in BOOLEAN :
        <<c, f>> \in reached' <=>
          IF c = b THEN e.press /\ f = isolated ELSE <<c, f>> \in reached
  <2>1. CASE e.press
    <3>1. \A f \in BOOLEAN : <<b, f>> \notin reached
      BY <1>2, <1>3, <2>1 DEF Known
    <3> QED BY <1>1, <1>3, <1>4, <2>1, <3>1
  <2>2. CASE ~e.press
    BY <1>1, <1>3, <1>4, <2>2
  <2> QED BY <2>1, <2>2
<1>8. Known' = Turn(Known, b, e.press)
  BY <1>1, <1>3, <1>7 DEF Known, Turn
<1>9. \A c \in Button : ~(<<c, TRUE>> \in reached' /\ <<c, FALSE>> \in reached')
  BY <1>7 DEF IsolationInv, Seats
<1>10. Seated' = IF isolated THEN Seated \ {b} ELSE Turn(Seated, b, e.press)
  BY <1>1, <1>3, <1>7 DEF Seated, Turn
<1>11. tool' \in [pressed : SUBSET Button, count : 0 .. CountModulus - 1]
  <2>1. /\ (tool.count + 1) % CountModulus \in 0 .. CountModulus - 1
        /\ (tool.count - 1) % CountModulus \in 0 .. CountModulus - 1
    <3>1. CountModulus \in Nat /\ tool.count \in Int
      BY <1>1, IsolationAssumption
    <3>2. tool.count + 1 \in Int /\ tool.count - 1 \in Int
      BY <3>1
    <3> QED BY <3>2, CountType
  <2> QED BY <1>1, <1>3, <1>4, <2>1 DEF meta_wayland_tablet_tool_account_button
<1>12. ASSUME ~torn'
       PROVE  tool'.pressed = Seated' /\ tool'.count = Cardinality(Seated')
  <2>1. tool.pressed = Seated /\ tool.count = Cardinality(Seated)
    BY <1>4, <1>12 DEF IsolationInv, Seats
  <2>2. CASE isolated
    <3>1. b \notin Seated
      <4>1. CASE e.press
        BY <1>2, <4>1 DEF Known, Seated
      <4>2. CASE ~e.press
        BY <1>4, <1>12, <2>2, <4>2 DEF Seated
      <4> QED BY <4>1, <4>2
    <3> QED BY <1>4, <1>10, <2>1, <2>2, <3>1
  <2>3. CASE ~isolated /\ e.press
    <3>1. b \notin Seated
      BY <1>2, <2>3 DEF Known, Seated
    <3>2. Cardinality(Seated \cup {b}) = Cardinality(Seated) + 1
          /\ (Cardinality(Seated) + 1) % CountModulus = Cardinality(Seated) + 1
      BY <1>3, <3>1, SeatedMore
    <3>3. tool'.pressed = tool.pressed \cup {b}
          /\ tool'.count = (tool.count + 1) % CountModulus
      BY <1>4, <2>3 DEF meta_wayland_tablet_tool_account_button
    <3> QED BY <1>10, <2>1, <2>3, <3>2, <3>3 DEF Turn
  <2>4. CASE ~isolated /\ ~e.press
    <3>1. b \in Seated
      <4>1. <<b, TRUE>> \notin reached
        BY <1>4, <1>12, <2>4
      <4> QED BY <1>2, <1>3, <2>4, <4>1 DEF Known, Seated
    <3>2. Cardinality(Seated \ {b}) = Cardinality(Seated) - 1
          /\ (Cardinality(Seated) - 1) % CountModulus = Cardinality(Seated) - 1
      BY <1>3, <3>1, SeatedLess
    <3>3. tool'.pressed = tool.pressed \ {b}
          /\ tool'.count = (tool.count - 1) % CountModulus
      BY <1>4, <2>4 DEF meta_wayland_tablet_tool_account_button
    <3> QED BY <1>10, <2>1, <2>4, <3>2, <3>3 DEF Turn
  <2> QED BY <1>1, <2>2, <2>3, <2>4
<1>13. Seats'
  BY <1>2, <1>4, <1>8, <1>9, <1>12 DEF Seats
<1>14. IsolationTypeOK'
  <2>1. /\ isolated' = isolated /\ main' = main /\ sample' = sample
        /\ input' = input /\ session' = session
    BY DEF DispatchButton
  <2> QED BY <1>4, <1>5, <1>6, <1>11, <2>1
          DEF IsolationInv, IsolationTypeOK, ButtonEvent
<1> QED BY <1>13, <1>14

\* The device presses or releases a button.
LEMMA PenButtonKeeps ==
  ASSUME IsolationInv, NEW b \in Button, PenButton(b)
  PROVE  IsolationTypeOK' /\ Seats'
<1> DEFINE e == [button |-> b, press |-> b \notin down]
<1>1. /\ queue \in Seq(ButtonEvent) /\ Alternates(queue, Known, down)
      /\ down \subseteq Button
      /\ Len(queue) < MaxQueue
  BY DEF IsolationInv, IsolationTypeOK, Seats, PenButton, ButtonEvent
<1>2. /\ queue' = Append(queue, e) /\ down' = Turn(down, b, b \notin down)
      /\ reached' = reached /\ tool' = tool /\ torn' = torn
      /\ isolated' = isolated /\ main' = main /\ sample' = sample
      /\ input' = input /\ session' = session
  BY DEF PenButton, Turn
<1>3. Alternates(queue', Known, down')
  BY <1>1, <1>2, AlternatesAppend
<1>4. Known' = Known /\ Seated' = Seated
  BY <1>2 DEF Known, Seated
<1>5. e \in ButtonEvent
  BY DEF ButtonEvent
<1> HIDE DEF e
<1>6. queue' \in Seq(ButtonEvent) /\ Len(queue') <= MaxQueue
  <2>1. queue' \in Seq(ButtonEvent) /\ Len(queue') = Len(queue) + 1
        /\ Len(queue) \in Nat
    BY <1>1, <1>2, <1>5, AppendProperties, LenProperties
  <2> QED BY <1>1, <2>1, IsolationAssumption
<1>7. down' \subseteq Button
  BY <1>1, <1>2 DEF Turn
<1> QED BY <1>2, <1>3, <1>4, <1>6, <1>7
        DEF IsolationInv, IsolationTypeOK, Seats, ButtonEvent

\* Nothing else touches a button.
LEMMA SeatsKept ==
  ASSUME Seats, UNCHANGED <<queue, down, tool, reached, torn>>
  PROVE  Seats'
<1>1. Known' = Known /\ Seated' = Seated
  BY DEF Known, Seated
<1> QED BY <1>1 DEF Seats

-----------------------------------------------------------------------------
(* The cursor                                                              *)

\* What a finished motion must satisfy, as PenKeepsOffCursor and HeldBySession
\* say it.
OffCursor ==
  Finished /\ ForOverlay(input.motion) => input'.frozen \/ input'.sawOff
HeldHere ==
  Finished /\ ~ForOverlay(input.motion) /\ input'.frozen
    => sample.session = session \/ sample.late

IsolationStep == IsolationInv' /\ OffCursor /\ HeldHere

\* A motion for the overlay that the first question lets pass is a tablet's,
\* one that is not is held only for the sample, and never by the second.
LEMMA Questions ==
  ASSUME NEW m \in Motion
  PROVE  LET d == m.device
             first == meta_annotation_input_skip_master_pointer_update(d, m.pressure)
         IN /\ ForOverlay(m) => first \/ d.type = "tablet"
            /\ ~ForOverlay(m) /\ first => sample.valid
            /\ d.type = "tablet" => skip_pointer_motion_coalesced(d, m.pressure)
            /\ ~ForOverlay(m) => ~skip_pointer_motion_coalesced(d, m.pressure)
  BY DEF Motion, Device, ForOverlay, meta_annotation_event_targets_overlay,
         meta_annotation_input_skip_master_pointer_update,
         skip_pointer_motion_coalesced, pointer_device_matches_annotation_pointer,
         meta_annotation_input_touchpad_is_pen_digitizer_shim

\* The flag is set, or reset with the clearing to follow.
LEMMA SetIsolatedKeeps ==
  ASSUME IsolationInv, NEW active \in BOOLEAN, SetIsolated(active)
  PROVE  IsolationStep
<1>1. Seats'
  BY SeatsKept DEF IsolationInv, SetIsolated
<1>2. IsolationTypeOK'
  BY IsolationAssumption DEF IsolationInv, IsolationTypeOK, SetIsolated
<1>3. Clearing' /\ Frozen' /\ Notes' /\ OffCursor /\ HeldHere
  BY DEF SetIsolated, IsolationInv, IsolationTypeOK, Clearing, Frozen, Notes,
         OffCursor, HeldHere, Finished, ForOverlay
<1> QED BY <1>1, <1>2, <1>3 DEF IsolationStep, IsolationInv

\* The sample is cleared.
LEMMA ClearSampleKeeps ==
  ASSUME IsolationInv, ClearSample
  PROVE  IsolationStep
<1>1. Seats'
  BY SeatsKept DEF IsolationInv, ClearSample
<1>2. /\ sample'.valid = FALSE /\ input'.late = TRUE /\ input'.pc = input.pc
      /\ input'.motion = input.motion /\ input'.sawOff = input.sawOff
      /\ input' \in Input /\ sample' \in Sample
  BY DEF ClearSample, IsolationInv, IsolationTypeOK, Input, Sample
<1>3. IsolationTypeOK'
  BY <1>2 DEF IsolationInv, IsolationTypeOK, ClearSample
<1>4. Clearing' /\ Frozen' /\ Notes' /\ OffCursor /\ HeldHere
  BY <1>2 DEF ClearSample, IsolationInv, Clearing, Frozen, Notes, OffCursor,
              HeldHere, Finished, ForOverlay
<1> QED BY <1>1, <1>3, <1>4 DEF IsolationStep, IsolationInv

\* The main thread's dispatch of a button, and the device's.
LEMMA ButtonsKeep ==
  ASSUME IsolationInv, DispatchButton \/ \E b \in Button : PenButton(b)
  PROVE  IsolationStep
<1>1. IsolationTypeOK' /\ Seats'
  BY DispatchKeeps, PenButtonKeeps
<1>2. UNCHANGED <<isolated, main, sample, input, session>>
  BY DEF DispatchButton, PenButton
<1>3. Clearing' /\ Frozen' /\ Notes' /\ OffCursor /\ HeldHere
  BY <1>2 DEF IsolationInv, Clearing, Frozen, Notes, OffCursor, HeldHere, Finished,
              ForOverlay
<1> QED BY <1>1, <1>3 DEF IsolationStep, IsolationInv

\* A motion arrives.
LEMMA BeginMotionKeeps ==
  ASSUME IsolationInv, NEW m \in Motion, BeginMotion(m)
  PROVE  IsolationStep
<1>1. Seats'
  BY SeatsKept DEF IsolationInv, BeginMotion
<1>2. /\ input'.pc \in {"note", "skip"} /\ input'.motion = m /\ input' \in Input
  BY IsolationAssumption DEF BeginMotion, Input
<1>3. IsolationTypeOK'
  BY <1>2 DEF IsolationInv, IsolationTypeOK, BeginMotion
<1>4. Clearing' /\ Frozen' /\ Notes' /\ OffCursor /\ HeldHere
  BY <1>2 DEF BeginMotion, IsolationInv, Clearing, Frozen, Notes, OffCursor,
              HeldHere, Finished, ForOverlay
<1> QED BY <1>1, <1>3, <1>4 DEF IsolationStep, IsolationInv

\* The note: the flag is read, and the sample written.
LEMMA NoteKeeps ==
  ASSUME IsolationInv, NoteRead \/ NoteWrite
  PROVE  IsolationStep
<1>1. Seats'
  BY SeatsKept DEF IsolationInv, NoteRead, NoteWrite
<1>2. input \in Input /\ sample \in Sample /\ session \in 0 .. MaxSession
      /\ isolated \in BOOLEAN
  BY DEF IsolationInv, IsolationTypeOK
<1>3. CASE NoteRead
  <2>1. /\ input'.pc = IF isolated THEN "write" ELSE "skip"
        /\ input'.motion = input.motion /\ input'.session = session
        /\ input' \in Input /\ input.pc = "note"
    BY <1>2, <1>3 DEF NoteRead, Input
  <2>2. IsolationTypeOK'
    BY <1>3, <2>1 DEF IsolationInv, IsolationTypeOK, NoteRead
  <2>3. Clearing' /\ Frozen' /\ Notes' /\ OffCursor /\ HeldHere
    BY <1>3, <2>1 DEF NoteRead, IsolationInv, Clearing, Frozen, Notes, OffCursor,
                      HeldHere, Finished, ForOverlay
  <2> QED BY <1>1, <2>2, <2>3 DEF IsolationStep, IsolationInv
<1>4. CASE NoteWrite
  <2>1. /\ input'.pc = "skip" /\ input.pc = "write" /\ input'.motion = input.motion
        /\ input' \in Input /\ sample' \in Sample
        /\ sample'.session = input.session /\ sample'.late = input.late
    BY <1>2, <1>4 DEF NoteWrite, Input, Sample
  <2>2. IsolationTypeOK'
    BY <1>4, <2>1 DEF IsolationInv, IsolationTypeOK, NoteWrite
  <2>3. Clearing' /\ Frozen' /\ Notes' /\ OffCursor /\ HeldHere
    BY <1>4, <2>1 DEF NoteWrite, IsolationInv, Clearing, Frozen, Notes, OffCursor,
                      HeldHere, Finished, ForOverlay
  <2> QED BY <1>1, <2>2, <2>3 DEF IsolationStep, IsolationInv
<1> QED BY <1>3, <1>4

\* A motion that is done.
LEMMA DoneIs ==
  ASSUME input \in Input, NEW frozen \in BOOLEAN, NEW seesOff \in BOOLEAN
  PROVE  LET d == Done(frozen, seesOff)
         IN /\ d \in Input /\ d.pc = "idle" /\ d.frozen = frozen
            /\ d.sawOff = (input.sawOff \/ seesOff)
<1> DEFINE saw == input.sawOff \/ seesOff
           d == [input EXCEPT !.pc = "idle", !.motion = NoMotion, !.frozen = frozen,
                              !.sawOff = saw, !.session = 0, !.late = FALSE]
<1>1. saw \in BOOLEAN /\ 0 \in 0 .. MaxSession
  BY IsolationAssumption
<1>2. Done(frozen, seesOff) = d
  BY DEF Done
<1> HIDE DEF saw
<1>3. d \in Input
  BY <1>1 DEF Input
<1>4. d.pc = "idle" /\ d.frozen = frozen /\ d.sawOff = saw
  BY DEF Input
<1> QED BY <1>2, <1>3, <1>4 DEF saw

\* The questions: the flag, the sample under the mutex, and the flag again.
LEMMA SkipKeeps ==
  ASSUME IsolationInv, SkipRead \/ Hold \/ Again
  PROVE  IsolationStep
<1> DEFINE m == input.motion
           first == meta_annotation_input_skip_master_pointer_update(m.device, m.pressure)
           second == skip_pointer_motion_coalesced(m.device, m.pressure)
<1>1. Seats'
  BY SeatsKept DEF IsolationInv, SkipRead, Hold, Again
<1>2. /\ input \in Input /\ isolated \in BOOLEAN /\ m \in Motion
      /\ UNCHANGED <<isolated, main, sample, queue, down, tool, session, reached, torn>>
  BY DEF IsolationInv, IsolationTypeOK, Frozen, SkipRead, Hold, Again
<1>3. /\ ForOverlay(m) => first \/ m.device.type = "tablet"
      /\ ~ForOverlay(m) /\ first => sample.valid
      /\ m.device.type = "tablet" => second
      /\ ~ForOverlay(m) => ~second
  BY <1>2, Questions
<1>4. first \in BOOLEAN /\ second \in BOOLEAN
  <2>1. sample.valid \in BOOLEAN /\ sample.recent \in BOOLEAN /\ m.pressure \in BOOLEAN
        /\ m.device.tool \in BOOLEAN /\ m.device.hint \in BOOLEAN
    BY <1>2 DEF IsolationInv, IsolationTypeOK, Sample, Motion, Device
  <2> QED BY <2>1 DEF meta_annotation_input_skip_master_pointer_update,
         skip_pointer_motion_coalesced, pointer_device_matches_annotation_pointer,
         meta_annotation_input_touchpad_is_pen_digitizer_shim
<1> HIDE DEF first, second
<1>5. CASE SkipRead
  <2>1. /\ input'.pc = IF isolated THEN "hold" ELSE "again"
        /\ input'.sawOff = (input.sawOff \/ ~isolated)
        /\ input'.motion = m /\ input' \in Input /\ input.pc = "skip"
    BY <1>2, <1>5 DEF SkipRead, Input
  <2>2. IsolationTypeOK'
    BY <1>2, <2>1 DEF IsolationInv, IsolationTypeOK
  <2>3. Clearing' /\ Frozen' /\ Notes' /\ OffCursor /\ HeldHere
    BY <1>2, <2>1 DEF IsolationInv, Clearing, Frozen, Notes, OffCursor,
                      HeldHere, Finished, ForOverlay
  <2> QED BY <1>1, <2>2, <2>3 DEF IsolationStep, IsolationInv
<1>6. CASE Hold
  <2>1. /\ input.pc = "hold" /\ input' \in Input
        /\ first => input'.pc = "idle" /\ input'.frozen = TRUE
        /\ ~first => /\ input'.pc = "again" /\ input'.motion = m
                     /\ input'.sawOff = input.sawOff
    <3>1. /\ input.pc = "hold"
          /\ input' = IF first THEN Done(TRUE, FALSE) ELSE [input EXCEPT !.pc = "again"]
      BY <1>6 DEF Hold, first
    <3>2. Done(TRUE, FALSE) \in Input /\ Done(TRUE, FALSE).pc = "idle"
          /\ Done(TRUE, FALSE).frozen = TRUE
      BY <1>2, DoneIs
    <3>3. LET n == [input EXCEPT !.pc = "again"]
          IN n \in Input /\ n.pc = "again" /\ n.motion = m /\ n.sawOff = input.sawOff
      BY <1>2 DEF Input
    <3> QED BY <1>4, <3>1, <3>2, <3>3
  <2>2. IsolationTypeOK'
    BY <1>2, <2>1 DEF IsolationInv, IsolationTypeOK
  <2>3. Clearing' /\ Frozen' /\ Notes' /\ OffCursor /\ HeldHere
    BY <1>2, <1>3, <2>1 DEF IsolationInv, Clearing, Frozen, Notes, OffCursor,
                            HeldHere, Finished, ForOverlay
  <2> QED BY <1>1, <2>2, <2>3 DEF IsolationStep, IsolationInv
<1>7. CASE Again
  <2>1. /\ input.pc = "again" /\ input'.pc = "idle" /\ input' \in Input
        /\ input'.frozen = (isolated /\ second)
        /\ input'.sawOff = (input.sawOff \/ ~isolated)
    <3> DEFINE held == isolated /\ second
               off  == ~isolated
    <3>1. input.pc = "again" /\ input' = Done(held, off)
      BY <1>7 DEF Again, second
    <3>2. held \in BOOLEAN /\ off \in BOOLEAN
      BY <1>2, <1>4
    <3> HIDE DEF held, off
    <3>3. /\ Done(held, off) \in Input /\ Done(held, off).pc = "idle"
          /\ Done(held, off).frozen = held
          /\ Done(held, off).sawOff = (input.sawOff \/ off)
      BY <1>2, <3>2, DoneIs
    <3> QED BY <3>1, <3>3 DEF held, off
  <2>2. IsolationTypeOK'
    BY <1>2, <2>1 DEF IsolationInv, IsolationTypeOK
  <2>3. Clearing' /\ Frozen' /\ Notes' /\ OffCursor /\ HeldHere
    BY <1>2, <1>3, <2>1 DEF IsolationInv, Clearing, Frozen, Notes, OffCursor,
                            HeldHere, Finished
  <2> QED BY <1>1, <2>2, <2>3 DEF IsolationStep, IsolationInv
<1> QED BY <1>5, <1>6, <1>7

\* Time passes.
LEMMA SampleAgesKeeps ==
  ASSUME IsolationInv, SampleAges
  PROVE  IsolationStep
<1>1. Seats'
  BY SeatsKept DEF IsolationInv, SampleAges
<1>2. /\ sample' \in Sample /\ sample'.valid = sample.valid
      /\ sample'.late = sample.late /\ sample'.session = sample.session
  BY DEF SampleAges, IsolationInv, IsolationTypeOK, Sample
<1>3. IsolationTypeOK'
  BY <1>2 DEF IsolationInv, IsolationTypeOK, SampleAges
<1>4. Clearing' /\ Frozen' /\ Notes' /\ OffCursor /\ HeldHere
  BY <1>2 DEF SampleAges, IsolationInv, Clearing, Frozen, Notes, OffCursor,
              HeldHere, Finished, ForOverlay
<1> QED BY <1>1, <1>3, <1>4 DEF IsolationStep, IsolationInv

\* Every step of either thread.
LEMMA IsolationNextInv ==
  IsolationInv /\ [IsolationNext]_isolationVars
    => IsolationInv' /\ (IsolationStep \/ UNCHANGED isolationVars)
<1> SUFFICES ASSUME IsolationInv, [IsolationNext]_isolationVars
             PROVE  IsolationInv' /\ (IsolationStep \/ UNCHANGED isolationVars)
  OBVIOUS
<1>1. CASE UNCHANGED isolationVars
  <2>1. Seats'
    BY <1>1, SeatsKept DEF IsolationInv, isolationVars
  <2>2. IsolationTypeOK' /\ Clearing' /\ Frozen' /\ Notes'
    BY <1>1 DEF isolationVars, IsolationInv, IsolationTypeOK, Clearing, Frozen,
                Notes, ForOverlay
  <2> QED BY <1>1, <2>1, <2>2 DEF IsolationInv
<1>2. CASE IsolationNext
  <2>1. IsolationStep
    BY <1>2, SetIsolatedKeeps, ClearSampleKeeps, ButtonsKeep, BeginMotionKeeps,
       NoteKeeps, SkipKeeps, SampleAgesKeeps DEF IsolationNext
  <2> QED BY <2>1 DEF IsolationStep
<1> QED BY <1>1, <1>2

\* Both threads start at rest.
LEMMA IsolationInitInv == IsolationInit => IsolationInv
<1> SUFFICES ASSUME IsolationInit PROVE IsolationInv
  OBVIOUS
<1>1. CountModulus \in Nat /\ CountModulus > 0 /\ MaxSession \in Nat /\ MaxQueue \in Nat
  <2>1. Cardinality(Button) \in Nat
    BY IsolationAssumption, FS_CardinalityType
  <2> QED BY <2>1, IsolationAssumption
<1>2. IsolationTypeOK
  <2>1. queue \in Seq([button : Button, press : BOOLEAN]) /\ Len(queue) <= MaxQueue
    BY <1>1 DEF IsolationInit
  <2>2. sample \in Sample
    BY <1>1 DEF IsolationInit, Sample
  <2>3. input \in Input
    BY <1>1 DEF IsolationInit, Input
  <2>4. tool \in [pressed : SUBSET Button, count : 0 .. CountModulus - 1]
    BY <1>1 DEF IsolationInit
  <2>5. /\ isolated \in BOOLEAN /\ main \in {"idle", "clear"} /\ down \subseteq Button
        /\ session \in 0 .. MaxSession /\ reached \subseteq Button \X BOOLEAN
        /\ torn \in BOOLEAN
    <3>1. /\ isolated = FALSE /\ main = "idle" /\ down = {} /\ session = 0
          /\ reached = {} /\ torn = FALSE
      BY DEF IsolationInit
    <3>2. {} \subseteq Button \X BOOLEAN
      BY Zenon
    <3>3. 0 \in 0 .. MaxSession
      BY <1>1
    <3> QED BY <3>1, <3>2, <3>3, Zenon
  <2> QED BY <2>1, <2>2, <2>3, <2>4, <2>5 DEF IsolationTypeOK
<1>3. Clearing /\ Frozen /\ Notes
  BY DEF IsolationInit, Clearing, Frozen, Notes
<1>4. Seats
  <2>1. Len(queue) = 0 /\ Known = {} /\ Seated = {} /\ down = {}
    BY DEF IsolationInit, Known, Seated
  <2>2. Alternates(queue, Known, down)
    BY <2>1 DEF Alternates
  <2> QED BY <2>1, <2>2, FS_EmptySet DEF IsolationInit, Seats
<1> QED BY <1>2, <1>3, <1>4 DEF IsolationInv

-----------------------------------------------------------------------------
(* Theorems                                                                *)

\* The inductive invariant of both threads, the queue and the seat.
THEOREM IsolationInvariance == IsolationSpec => []IsolationInv
<1> QED BY IsolationInitInv, IsolationNextInv, PTL DEF IsolationSpec

\* Types; the count of the seat stays in its width.
THEOREM IsolationTypeCorrect == IsolationSpec => []IsolationTypeOK
<1>1. IsolationInv => IsolationTypeOK
  BY DEF IsolationInv
<1> QED BY <1>1, IsolationInvariance, PTL

\* The seat knows exactly the buttons whose press it was given and whose
\* release was not dispatched yet, as long as no press and its release met
\* different states of the layer, however the flag changes between events that
\* are under way.
THEOREM SeatKnowsButtons == IsolationSpec => []SeatButtonsTrue
<1>1. ASSUME IsolationInv PROVE SeatButtonsTrue
  <2>1. reached \subseteq Button \X BOOLEAN
    BY <1>1 DEF IsolationInv, IsolationTypeOK
  <2>2. {r[1] : r \in {q \in reached : ~q[2]}} = Seated
    <3>1. ASSUME NEW r \in reached, ~r[2] PROVE r[1] \in Seated
      <4>1. PICK b \in Button, f \in BOOLEAN : r = <<b, f>>
        BY <2>1
      <4>2. f = FALSE
        BY <3>1, <4>1
      <4> QED BY <4>1, <4>2 DEF Seated
    <3>2. ASSUME NEW b \in Seated PROVE \E r \in reached : ~r[2] /\ b = r[1]
      <4>1. <<b, FALSE>> \in reached /\ ~<<b, FALSE>>[2] /\ b = <<b, FALSE>>[1]
        BY <3>2 DEF Seated
      <4> QED BY <4>1
    <3> QED BY <3>1, <3>2
  <2> QED BY <1>1, <2>2 DEF IsolationInv, Seats, SeatButtonsTrue
<1> QED BY <1>1, IsolationInvariance, PTL

\* A motion for the overlay moves the cursor only if the flag was seen off while
\* the motion was handled.
THEOREM OverlayKeepsCursor == IsolationSpec => PenKeepsOffCursor
<1>1. IsolationStep =>
        [Finished /\ ForOverlay(input.motion)
           => input'.frozen \/ input'.sawOff]_isolationVars
  BY DEF IsolationStep, OffCursor
<1> QED BY <1>1, IsolationInvariance, IsolationNextInv, PTL
        DEF IsolationSpec, PenKeepsOffCursor

\* A mouse is held only after a pen of this session, or one whose note overtook
\* the clearing of the sample.
THEOREM MouseHeldBySession == IsolationSpec => HeldBySession
<1>1. IsolationStep =>
        [Finished /\ ~ForOverlay(input.motion) /\ input'.frozen
           => sample.session = session \/ sample.late]_isolationVars
  BY DEF IsolationStep, HeldHere
<1> QED BY <1>1, IsolationInvariance, IsolationNextInv, PTL
        DEF IsolationSpec, HeldBySession
=============================================================================
