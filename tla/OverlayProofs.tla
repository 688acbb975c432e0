---------------------------- MODULE OverlayProofs ----------------------------
(***************************************************************************)
(* The overlay session and its store of strokes.  Every callback leaves    *)
(* the store in one of a few ways (Outcome): untouched, a stroke or a path *)
(* committed, a path extended, one begun, everything cleared.  Each way    *)
(* pushes at most one undo state, and the history of edits follows it.     *)
(***************************************************************************)
EXTENDS OverlaySession, SequenceTheorems, TLAPS

\* Strokes that have moved n times at most, and stores of them.
StrokeUpTo(n) ==
  [id : StrokeId, windowSeq : WindowSeq \cup {NoWindow}, moved : 0 .. n]

Store(n) ==
  [strokes : SUBSET StrokeUpTo(n), current : StrokeUpTo(n) \cup {Null},
   eraserPath : Path \cup {Null}, undoStack : Seq(SUBSET StrokeUpTo(n)),
   next : 1 .. MaxStroke + 1]

Capped(n) == {m \in Store(n) : Len(m.undoStack) <= UndoCap}

\* The undo stack u holds the pictures of the edits p.
Matched(p, u) ==
  /\ Len(p) = Len(u)
  /\ \A i \in 1 .. Len(p) : p[i].erase \/ u[i] = p[i].picture

\* A press is deferred only in view, before ink, and while what was taken for a
\* press lasts: the contact, or the pen's stay in range.
Deferral ==
  session.anchor =>
    /\ session.visible /\ session.await /\ ~session.penDown
    /\ pen # {} \/ arrived \/ swallowed

OverlayInv ==
  /\ session \in Session /\ model \in Capped(moves)
  /\ pen \subseteq PenPart /\ matches \in 0 .. MaxMatch /\ moves \in 0 .. MaxMove
  /\ past \in Seq(Edit) /\ swallowed \in BOOLEAN /\ arrived \in BOOLEAN
  /\ IdleModelEmpty
  /\ session.penDown => session.visible
  /\ Matched(past, model.undoStack)
  /\ Deferral

-----------------------------------------------------------------------------
(* The stack of undo states                                                *)

Pushed(u, x) ==
  IF Len(Append(u, x)) > UndoCap THEN Tail(Append(u, x)) ELSE Append(u, x)

\* A push keeps the newest UndoCap states, in order.
LEMMA PushFacts ==
  ASSUME NEW S, NEW u \in Seq(S), NEW x \in S, Len(u) <= UndoCap
  PROVE  /\ Pushed(u, x) \in Seq(S)
         /\ Len(Pushed(u, x)) = IF Len(u) < UndoCap THEN Len(u) + 1 ELSE UndoCap
         /\ \A i \in 1 .. Len(Pushed(u, x)) :
              Pushed(u, x)[i] = IF i = Len(Pushed(u, x)) THEN x
                                ELSE u[i + Len(u) + 1 - Len(Pushed(u, x))]
<1> DEFINE a == Append(u, x)
<1>1. /\ a \in Seq(S) /\ a # <<>> /\ Len(a) = Len(u) + 1 /\ Len(u) \in Nat
      /\ \A i \in 1 .. Len(u) : a[i] = u[i]
      /\ a[Len(u) + 1] = x
  BY AppendProperties, LenProperties
<1>2. /\ Tail(a) \in Seq(S) /\ Len(Tail(a)) = Len(u)
      /\ \A i \in 1 .. Len(u) : Tail(a)[i] = a[i + 1]
  BY <1>1, HeadTailProperties
<1>3. UndoCap \in Nat \ {0}
  BY StrokeModelAssumption
<1> HIDE DEF a
<1>4. CASE Len(u) < UndoCap
  <2>1. Pushed(u, x) = a
    BY <1>1, <1>3, <1>4 DEF Pushed, a
  <2> QED BY <1>1, <1>3, <1>4, <2>1
<1>5. CASE Len(u) = UndoCap
  <2>1. Pushed(u, x) = Tail(a)
    BY <1>1, <1>3, <1>5 DEF Pushed, a
  <2> QED BY <1>1, <1>2, <1>3, <1>5, <2>1
<1> QED BY <1>1, <1>3, <1>4, <1>5

\* An edit and its undo state are pushed together.
LEMMA MatchedPush ==
  ASSUME NEW S, NEW u \in Seq(S), NEW x \in S, Len(u) <= UndoCap,
         NEW p \in Seq(Edit), NEW e \in Edit, Matched(p, u), e.erase \/ x = e.picture
  PROVE  Matched(Pushed(p, e), Pushed(u, x))
<1> DEFINE q == Pushed(p, e)
           v == Pushed(u, x)
<1>1. Len(p) = Len(u) /\ Len(u) \in Nat /\ UndoCap \in Nat \ {0}
  BY StrokeModelAssumption, LenProperties DEF Matched
<1>2. /\ Len(q) = Len(v)
      /\ Len(v) = IF Len(u) < UndoCap THEN Len(u) + 1 ELSE UndoCap
      /\ \A i \in 1 .. Len(v) :
           /\ q[i] = IF i = Len(v) THEN e ELSE p[i + Len(u) + 1 - Len(v)]
           /\ v[i] = IF i = Len(v) THEN x ELSE u[i + Len(u) + 1 - Len(v)]
  <2>1. /\ Len(q) = IF Len(p) < UndoCap THEN Len(p) + 1 ELSE UndoCap
        /\ \A i \in 1 .. Len(q) :
             q[i] = IF i = Len(q) THEN e ELSE p[i + Len(p) + 1 - Len(q)]
    <3>1. Len(p) <= UndoCap
      BY <1>1
    <3> QED BY <3>1, PushFacts
  <2>2. /\ Len(v) = IF Len(u) < UndoCap THEN Len(u) + 1 ELSE UndoCap
        /\ \A i \in 1 .. Len(v) :
             v[i] = IF i = Len(v) THEN x ELSE u[i + Len(u) + 1 - Len(v)]
    BY PushFacts
  <2> HIDE DEF q, v
  <2> QED BY <1>1, <2>1, <2>2
<1> HIDE DEF q, v
<1>3. ASSUME NEW i \in 1 .. Len(v) PROVE q[i].erase \/ v[i] = q[i].picture
  <2>1. CASE i # Len(v)
    <3>1. i + Len(u) + 1 - Len(v) \in 1 .. Len(p)
      BY <1>1, <1>2, <2>1
    <3> QED BY <1>2, <2>1, <3>1 DEF Matched
  <2>2. CASE i = Len(v)
    BY <1>2, <2>2
  <2> QED BY <2>1, <2>2
<1>4. Matched(q, v)
  BY <1>2, <1>3 DEF Matched
<1> QED BY <1>4 DEF q, v

\* What Remember keeps of an edit, and of none.
LEMMA RememberFacts ==
  ASSUME past \in Seq(Edit), Len(past) <= UndoCap, NEW e \in Edit
  PROVE  /\ Remember(<<>>) => past' = past
         /\ Remember(<<e>>) => past' = Pushed(past, e)
<1>1. UndoCap \in Nat \ {0} /\ Len(past) \in Nat
  BY StrokeModelAssumption, LenProperties
<1>2. ASSUME Remember(<<>>) PROVE past' = past
  <2> DEFINE all == past \o <<>>
  <2>1. all = past
    BY ConcatEmptySeq
  <2> DEFINE first == 1 + (IF Len(all) > UndoCap THEN Len(all) - UndoCap ELSE 0)
  <2>2. past' = SubSeq(past, 1, Len(past))
    <3>1. past' = SubSeq(all, first, Len(all))
      BY <1>2 DEF Remember
    <3>2. first = 1
      BY <1>1, <2>1
    <3> HIDE DEF all, first
    <3> QED BY <2>1, <3>1, <3>2
  <2> QED BY <2>2, SubSeqFull
<1>3. ASSUME Remember(<<e>>) PROVE past' = Pushed(past, e)
  <2> DEFINE a == Append(past, e)
  <2>1. /\ past \o <<e>> = a /\ a \in Seq(Edit) /\ a # <<>>
        /\ Len(a) = Len(past) + 1
    BY AppendIsConcat, AppendProperties
  <2>2. SubSeq(a, 1, Len(a)) = a /\ SubSeq(a, 2, Len(a)) = Tail(a)
    BY <2>1, SubSeqFull, TailIsSubSeq
  <2>3. past' = SubSeq(a, 1 + (IF Len(a) > UndoCap THEN Len(a) - UndoCap ELSE 0), Len(a))
    BY <1>3, <2>1 DEF Remember
  <2>4. Len(a) > UndoCap => Len(a) - UndoCap = 1
    BY <1>1, <2>1
  <2> QED BY <2>2, <2>3, <2>4 DEF Pushed
<1> QED BY <1>2, <1>3

\* Two edits at once are two pushes.
LEMMA RememberTwo ==
  ASSUME past \in Seq(Edit), Len(past) <= UndoCap, NEW e \in Edit, NEW f \in Edit,
         Remember(<<e, f>>)
  PROVE  past' = Pushed(Pushed(past, e), f)
<1> DEFINE a     == Append(past, e)
           b     == Append(a, f)
           first == 1 + (IF Len(b) > UndoCap THEN Len(b) - UndoCap ELSE 0)
<1>1. UndoCap \in Nat \ {0} /\ Len(past) \in Nat
  BY StrokeModelAssumption, LenProperties
<1>2. /\ a \in Seq(Edit) /\ a # <<>> /\ Len(a) = Len(past) + 1
      /\ b \in Seq(Edit) /\ b # <<>> /\ Len(b) = Len(past) + 2
  BY <1>1, AppendProperties
<1>3. past \o <<e, f>> = b
  <2>1. a = past \o <<e>> /\ b = a \o <<f>>
    BY <1>2, AppendIsConcat
  <2>2. <<e>> \in Seq(Edit) /\ <<f>> \in Seq(Edit)
    OBVIOUS
  <2>3. <<e>> \o <<f>> = <<e, f>>
    <3> DEFINE x == <<e>>
               y == <<f>>
               z == <<e, f>>
    <3>1. /\ x \in Seq(Edit) /\ Len(x) = 1 /\ x[1] = e
          /\ y \in Seq(Edit) /\ Len(y) = 1 /\ y[1] = f
          /\ z \in Seq(Edit) /\ Len(z) = 2 /\ z[1] = e /\ z[2] = f
      OBVIOUS
    <3> HIDE DEF x, y, z
    <3>2. /\ x \o y \in Seq(Edit) /\ Len(x \o y) = 2
          /\ (x \o y)[1] = e /\ (x \o y)[2] = f
      <4>1. /\ x \o y \in Seq(Edit) /\ Len(x \o y) = Len(x) + Len(y)
            /\ \A i \in 1 .. Len(x) + Len(y) :
                 (x \o y)[i] = IF i <= Len(x) THEN x[i] ELSE y[i - Len(x)]
        BY <3>1, ConcatProperties
      <4>2. 1 \in 1 .. Len(x) + Len(y) /\ 2 \in 1 .. Len(x) + Len(y)
            /\ 2 - Len(x) = 1
        BY <3>1
      <4> QED BY <3>1, <4>1, <4>2
    <3>3. \A i \in 1 .. 2 : (x \o y)[i] = z[i]
      BY <3>1, <3>2
    <3>4. x \o y = z
      BY <3>1, <3>2, <3>3, SeqEqual
    <3> QED BY <3>4 DEF x, y, z
  <2>4. (past \o <<e>>) \o <<f>> = past \o (<<e>> \o <<f>>)
    BY <2>2, ConcatAssociative
  <2> HIDE DEF a, b
  <2> QED BY <2>1, <2>3, <2>4
<1>4. past' = SubSeq(b, first, Len(b))
  BY <1>3 DEF Remember
<1>5. SubSeq(b, 1, Len(b)) = b /\ SubSeq(b, 2, Len(b)) = Tail(b)
  BY <1>2, SubSeqFull, TailIsSubSeq
<1>6. CASE Len(past) = UndoCap
  <2>1. Pushed(past, e) = Tail(a)
    BY <1>1, <1>2, <1>6 DEF Pushed
  <2>2. Append(Tail(a), f) = Tail(b)
    BY <1>2, HeadTailAppend
  <2>3. Len(Tail(b)) = Len(past) + 1
    BY <1>1, <1>2, HeadTailProperties
  <2>4. Pushed(Tail(a), f) = Tail(Tail(b))
    <3>1. Pushed(Tail(a), f) = IF Len(Tail(b)) > UndoCap THEN Tail(Tail(b)) ELSE Tail(b)
      BY <2>2 DEF Pushed
    <3> HIDE DEF b
    <3> QED BY <1>1, <1>6, <2>3, <3>1
  <2>5. first = 3 /\ 2 \in 1 .. Len(b) /\ Len(b) \in 2 .. Len(b)
    BY <1>1, <1>2, <1>6
  <2> HIDE DEF b, first
  <2>6. Tail(SubSeq(b, 2, Len(b))) = SubSeq(b, 3, Len(b))
    BY <1>2, <2>5, HeadTailOfSubSeq
  <2> QED BY <1>4, <1>5, <2>1, <2>4, <2>5, <2>6
<1>7. CASE Len(past) + 1 = UndoCap
  <2>1. Pushed(past, e) = a /\ Pushed(a, f) = Tail(b)
    BY <1>1, <1>2, <1>7 DEF Pushed
  <2>2. first = 2
    BY <1>1, <1>2, <1>7
  <2> HIDE DEF a, b, first
  <2> QED BY <1>4, <1>5, <2>1, <2>2
<1>8. CASE Len(past) + 1 < UndoCap
  <2>1. Pushed(past, e) = a /\ Pushed(a, f) = b
    BY <1>1, <1>2, <1>8 DEF Pushed
  <2>2. first = 1
    BY <1>1, <1>2, <1>8
  <2> HIDE DEF a, b, first
  <2> QED BY <1>4, <1>5, <2>1, <2>2
<1> QED BY <1>1, <1>6, <1>7, <1>8

-----------------------------------------------------------------------------
(* The methods of the store                                                *)

\* What the fields of a store are, and that Null is none of their values.
LEMMA StoreFacts ==
  ASSUME NEW n \in 0 .. MaxMove, NEW m \in Capped(n)
  PROVE  /\ m \in Store(n) /\ Len(m.undoStack) <= UndoCap
         /\ m.strokes \subseteq StrokeUpTo(n)
         /\ m.current \in StrokeUpTo(n) \cup {Null}
         /\ m.eraserPath \in Path \cup {Null}
         /\ m.undoStack \in Seq(SUBSET StrokeUpTo(n))
         /\ m.next \in 1 .. MaxStroke + 1
         /\ StrokeUpTo(n) \subseteq Stroke
         /\ Null \notin StrokeUpTo(n) /\ Null \notin Path
<1>1. StrokeUpTo(n) \subseteq Stroke
  BY StrokeModelAssumption DEF StrokeUpTo, Stroke
<1> QED BY <1>1, StrokeModelAssumption DEF Capped, Store

\* The state before an edit goes on the stack.
LEMMA PushKept ==
  ASSUME NEW n \in 0 .. MaxMove, NEW m \in Capped(n)
  PROVE  /\ _pushUndoState(m) = [m EXCEPT !.undoStack = Pushed(m.undoStack, m.strokes)]
         /\ Pushed(m.undoStack, m.strokes) \in Seq(SUBSET StrokeUpTo(n))
         /\ Len(Pushed(m.undoStack, m.strokes)) <= UndoCap
<1>1. /\ m.strokes \in SUBSET StrokeUpTo(n)
      /\ m.undoStack \in Seq(SUBSET StrokeUpTo(n)) /\ Len(m.undoStack) <= UndoCap
      /\ Len(m.undoStack) \in Nat /\ UndoCap \in Nat \ {0}
  BY StoreFacts, StrokeModelAssumption, LenProperties
<1>2. _pushUndoState(m) = [m EXCEPT !.undoStack = Pushed(m.undoStack, m.strokes)]
  BY DEF _pushUndoState, Pushed
<1> QED BY <1>1, <1>2, PushFacts

\* Erasing takes strokes away and nothing else.
LEMMA EraserFacts ==
  ASSUME NEW n \in 0 .. MaxMove, NEW m \in Store(n)
  PROVE  /\ _applyEraser(m) \in Store(n)
         /\ _applyEraser(m).undoStack = m.undoStack
         /\ _applyEraser(m).current = m.current
         /\ _applyEraser(m).eraserPath = m.eraserPath
         /\ _applyEraser(m).next = m.next
  BY DEF _applyEraser, Store

\* Methods that push one state: all of them leave neither stroke nor path of
\* what they finish.
LEMMA Finishes ==
  ASSUME NEW n \in 0 .. MaxMove, NEW m \in Capped(n)
  PROVE  /\ /\ clearAll(m) \in Capped(n)
            /\ clearAll(m).undoStack = Pushed(m.undoStack, m.strokes)
            /\ clearAll(m).strokes = {} /\ clearAll(m).next = m.next
            /\ clearAll(m).current = Null /\ clearAll(m).eraserPath = Null
         /\ m.current # Null =>
            /\ commitCurrent(m) \in Capped(n)
            /\ commitCurrent(m).undoStack = Pushed(m.undoStack, m.strokes)
            /\ commitCurrent(m).current = Null
            /\ commitCurrent(m).eraserPath = m.eraserPath
         /\ m.eraserPath # Null =>
            /\ finishErase(m) \in Capped(n)
            /\ finishErase(m).undoStack = Pushed(m.undoStack, m.strokes)
            /\ finishErase(m).current = m.current
            /\ finishErase(m).eraserPath = Null
<1> DEFINE p == _pushUndoState(m)
<1>1. /\ p = [m EXCEPT !.undoStack = Pushed(m.undoStack, m.strokes)]
      /\ Pushed(m.undoStack, m.strokes) \in Seq(SUBSET StrokeUpTo(n))
      /\ Len(Pushed(m.undoStack, m.strokes)) <= UndoCap
  BY PushKept
<1>2. m \in Store(n)
  BY StoreFacts
<1>3. /\ p \in Store(n) /\ p.undoStack = Pushed(m.undoStack, m.strokes)
      /\ p.current = m.current /\ p.eraserPath = m.eraserPath
      /\ p.strokes = m.strokes /\ p.next = m.next
      /\ Len(p.undoStack) <= UndoCap
  BY <1>1, <1>2 DEF Store
<1> HIDE DEF p
<1>4. clearAll(m) = [p EXCEPT !.strokes = {}, !.current = Null, !.eraserPath = Null]
  BY DEF clearAll, p
<1>5. m.current # Null =>
        commitCurrent(m) = [p EXCEPT !.strokes = @ \cup {m.current}, !.current = Null]
  BY DEF commitCurrent, p
<1>6. m.eraserPath # Null =>
        finishErase(m) = [_applyEraser(p) EXCEPT !.eraserPath = Null]
  BY DEF finishErase, p
<1>7. /\ clearAll(m) \in Capped(n)
      /\ clearAll(m).undoStack = p.undoStack /\ clearAll(m).strokes = {}
      /\ clearAll(m).next = m.next
      /\ clearAll(m).current = Null /\ clearAll(m).eraserPath = Null
  BY <1>3, <1>4 DEF Capped, Store
<1>8. m.current # Null =>
        /\ commitCurrent(m) \in Capped(n) /\ commitCurrent(m).undoStack = p.undoStack
        /\ commitCurrent(m).current = Null
        /\ commitCurrent(m).eraserPath = m.eraserPath
  <2>1. ASSUME NEW c \in StrokeUpTo(n)
        PROVE  [p EXCEPT !.strokes = @ \cup {c}, !.current = Null] \in Store(n)
    BY <1>3 DEF Store
  <2>2. m.current # Null => m.current \in StrokeUpTo(n)
    BY StoreFacts
  <2> QED BY <1>3, <1>5, <2>1, <2>2 DEF Capped, Store
<1>9. m.eraserPath # Null =>
        /\ finishErase(m) \in Capped(n) /\ finishErase(m).undoStack = p.undoStack
        /\ finishErase(m).current = m.current /\ finishErase(m).eraserPath = Null
  <2> DEFINE k == _applyEraser(p)
  <2>1. /\ k \in Store(n) /\ k.undoStack = p.undoStack
        /\ k.current = p.current /\ k.next = p.next
    BY <1>3, EraserFacts
  <2> HIDE DEF k
  <2>2. [k EXCEPT !.eraserPath = Null] \in Store(n)
    BY <2>1 DEF Store
  <2> QED BY <1>3, <1>6, <2>1, <2>2 DEF Capped, Store, k
<1> QED BY <1>3, <1>7, <1>8, <1>9

\* Methods that push none when the store is idle.
LEMMA Begins ==
  ASSUME NEW n \in 0 .. MaxMove, NEW m \in Capped(n),
         m.current = Null, m.eraserPath = Null,
         NEW w \in WindowSeq \cup {NoWindow}
  PROVE  /\ \A t \in SUBSET StrokeId :
              /\ beginErase(m, w, t) \in Capped(n)
              /\ beginErase(m, w, t).undoStack = m.undoStack
              /\ beginErase(m, w, t).current = Null
              /\ beginErase(m, w, t).eraserPath # Null
         /\ finishErase(m) = m
         /\ beginStroke(m, w).next = m.next + 1
         /\ m.next <= MaxStroke =>
              /\ beginStroke(m, w) \in Capped(n)
              /\ beginStroke(m, w).undoStack = m.undoStack
              /\ beginStroke(m, w).strokes = m.strokes
              /\ beginStroke(m, w).current # Null
              /\ beginStroke(m, w).eraserPath = Null
<1> DEFINE c == [id |-> m.next, windowSeq |-> w, moved |-> 0]
<1>1. /\ m \in Store(n) /\ Len(m.undoStack) <= UndoCap /\ m.next \in 1 .. MaxStroke + 1
      /\ Null \notin StrokeUpTo(n) /\ Null \notin Path /\ MaxStroke \in Nat
      /\ commitCurrent(m) = m
  BY StoreFacts, StrokeModelAssumption DEF commitCurrent
<1>2. ASSUME NEW t \in SUBSET StrokeId
      PROVE  /\ beginErase(m, w, t) \in Capped(n)
             /\ beginErase(m, w, t).undoStack = m.undoStack
             /\ beginErase(m, w, t).current = Null
             /\ beginErase(m, w, t).eraserPath # Null
  <2> DEFINE path == [windowSeq |-> w, touched |-> t]
  <2>1. path \in Path
    BY DEF Path
  <2>2. beginErase(m, w, t) = [m EXCEPT !.eraserPath = path]
    BY <1>1 DEF beginErase
  <2> HIDE DEF path
  <2> QED BY <1>1, <2>1, <2>2 DEF Capped, Store
<1>3. beginStroke(m, w) = [m EXCEPT !.eraserPath = Null, !.current = c, !.next = @ + 1]
  BY <1>1 DEF beginStroke
<1>4. m.next <= MaxStroke => c \in StrokeUpTo(n)
  BY <1>1 DEF StrokeUpTo, StrokeId
<1> HIDE DEF c
<1>5. beginStroke(m, w).next = m.next + 1
  BY <1>1, <1>3 DEF Store
<1>6. m.next <= MaxStroke =>
        /\ beginStroke(m, w) \in Capped(n) /\ beginStroke(m, w).undoStack = m.undoStack
        /\ beginStroke(m, w).strokes = m.strokes
        /\ beginStroke(m, w).current # Null /\ beginStroke(m, w).eraserPath = Null
  <2> SUFFICES ASSUME m.next <= MaxStroke
               PROVE  /\ beginStroke(m, w) \in Capped(n)
                      /\ beginStroke(m, w).undoStack = m.undoStack
                      /\ beginStroke(m, w).strokes = m.strokes
                      /\ beginStroke(m, w).current # Null
                      /\ beginStroke(m, w).eraserPath = Null
    OBVIOUS
  <2>1. m.next + 1 \in 1 .. MaxStroke + 1
    BY <1>1
  <2> QED BY <1>1, <1>3, <1>4, <2>1 DEF Capped, Store
<1> QED BY <1>1, <1>2, <1>5, <1>6 DEF finishErase

\* More of a path.
LEMMA Appends ==
  ASSUME NEW n \in 0 .. MaxMove, NEW m \in Capped(n), m.eraserPath # Null,
         NEW t \in SUBSET StrokeId
  PROVE  /\ appendErase(m, t) \in Capped(n)
         /\ appendErase(m, t).undoStack = m.undoStack
         /\ appendErase(m, t).current = m.current
         /\ appendErase(m, t).eraserPath # Null
<1> DEFINE path == [m.eraserPath EXCEPT !.touched = @ \cup t]
           k    == [m EXCEPT !.eraserPath = path]
<1>1. m \in Store(n) /\ Len(m.undoStack) <= UndoCap /\ Null \notin Path
  BY StoreFacts
<1>2. path \in Path
  <2>1. m.eraserPath \in Path
    BY StoreFacts
  <2> QED BY <2>1 DEF Path
<1>3. appendErase(m, t) = _applyEraser(k)
  BY <1>1 DEF appendErase, Store
<1> HIDE DEF path
<1>4. k \in Store(n) /\ k.undoStack = m.undoStack /\ k.current = m.current
      /\ k.eraserPath = path
  BY <1>1, <1>2 DEF Store
<1> HIDE DEF k
<1> QED BY <1>1, <1>2, <1>3, <1>4, EraserFacts DEF Capped

\* Undo takes the last state back.
LEMMA Undoes ==
  ASSUME NEW n \in 0 .. MaxMove, NEW m \in Capped(n)
  PROVE  /\ undoOne(m) \in Capped(n)
         /\ m.undoStack # <<>> =>
              /\ undoOne(m).undoStack = SubSeq(m.undoStack, 1, Len(m.undoStack) - 1)
              /\ undoOne(m).current = Null /\ undoOne(m).eraserPath = Null
         /\ m.undoStack = <<>> => undoOne(m) = m
<1>1. /\ m \in Store(n) /\ m.undoStack \in Seq(SUBSET StrokeUpTo(n))
      /\ Len(m.undoStack) <= UndoCap /\ Len(m.undoStack) \in Nat /\ UndoCap \in Nat
  BY StoreFacts, LenProperties, StrokeModelAssumption
<1>2. CASE m.undoStack = <<>>
  BY <1>2 DEF undoOne
<1>3. CASE m.undoStack # <<>>
  <2> DEFINE u == SubSeq(m.undoStack, 1, Len(m.undoStack) - 1)
             x == m.undoStack[Len(m.undoStack)]
  <2>1. Len(m.undoStack) \in 1 .. Len(m.undoStack)
    BY <1>1, <1>3, EmptySeq
  <2>2. x \in SUBSET StrokeUpTo(n)
    BY <1>1, <2>1, ElementOfSeq
  <2>3. u \in Seq(SUBSET StrokeUpTo(n)) /\ Len(u) <= UndoCap
    <3>1. \A i \in 1 .. Len(m.undoStack) - 1 : m.undoStack[i] \in SUBSET StrokeUpTo(n)
      BY <1>1, ElementOfSeq
    <3>2. 1 \in Int /\ Len(m.undoStack) - 1 \in Int
      BY <1>1
    <3> QED BY <1>1, <2>1, <3>1, <3>2, SubSeqProperties
  <2>4. undoOne(m) = [m EXCEPT !.strokes = x, !.undoStack = u, !.current = Null,
                               !.eraserPath = Null]
    BY <1>1, <1>3 DEF undoOne, Store
  <2> HIDE DEF u, x
  <2>5. undoOne(m) \in Capped(n) /\ undoOne(m).undoStack = u
        /\ undoOne(m).current = Null /\ undoOne(m).eraserPath = Null
    BY <1>1, <2>2, <2>3, <2>4 DEF Capped, Store
  <2> QED BY <1>3, <2>5 DEF u
<1> QED BY <1>2, <1>3

\* A shift of all strokes leaves the undo states.
LEMMA Translates ==
  ASSUME NEW n \in 0 .. MaxMove - 1, NEW m \in Capped(n)
  PROVE  /\ translateAll(m) \in Capped(n + 1)
         /\ translateAll(m).undoStack = m.undoStack
         /\ translateAll(m).current = Null <=> m.current = Null
         /\ translateAll(m).eraserPath = m.eraserPath
<1>0. MaxMove \in Nat /\ n \in 0 .. MaxMove /\ n + 1 \in 0 .. MaxMove
  BY StrokeModelAssumption
<1>1. /\ m.strokes \subseteq StrokeUpTo(n) /\ Len(m.undoStack) <= UndoCap
      /\ m.current \in StrokeUpTo(n) \cup {Null}
      /\ m.undoStack \in Seq(SUBSET StrokeUpTo(n))
      /\ Null \notin StrokeUpTo(n) /\ m \in Store(n)
  BY <1>0, StoreFacts
<1>2. Null \notin StrokeUpTo(n + 1)
  BY <1>0, StrokeModelAssumption DEF StrokeUpTo, Stroke
<1>3. StrokeUpTo(n) \subseteq StrokeUpTo(n + 1)
  BY <1>0 DEF StrokeUpTo
<1>4. \A s \in StrokeUpTo(n) : Shifted(s) \in StrokeUpTo(n + 1)
  BY <1>0 DEF Shifted, StrokeUpTo
<1>5. m.undoStack \in Seq(SUBSET StrokeUpTo(n + 1))
  BY <1>1, <1>3, SeqMonotonic
<1>6. Moved(m.strokes) \in SUBSET StrokeUpTo(n + 1)
  BY <1>1, <1>4 DEF Moved
<1> DEFINE c == IF m.current = Null THEN Null ELSE Shifted(m.current)
<1>7. c \in StrokeUpTo(n + 1) \cup {Null} /\ (c = Null <=> m.current = Null)
  BY <1>1, <1>2, <1>4
<1>8. translateAll(m) = [m EXCEPT !.strokes = Moved(m.strokes), !.current = c]
  BY <1>1 DEF translateAll, Store
<1> HIDE DEF c
<1>9. translateAll(m) \in Store(n + 1)
  BY <1>1, <1>5, <1>6, <1>7, <1>8 DEF Store
<1> QED BY <1>1, <1>7, <1>8, <1>9 DEF Capped, Store

-----------------------------------------------------------------------------
(* What a captured event does                                              *)

AnyEvent ==
  {e \in [kind : {"press", "motion", "release", "in", "out", "other"}, pen : BOOLEAN,
          erase : BOOLEAN, place : {"canvas", "edge", "dock"}, clear : BOOLEAN,
          implicit : BOOLEAN, far : BOOLEAN,
          windowSeq : WindowSeq \cup {NoWindow}, touched : SUBSET StrokeId] :
     e.implicit => DeviceTypes}

\* The pen's release, or its leaving range.
Ends(e) == e.pen /\ e.kind \in {"release", "out"}

\* What the session takes for a press of the pen.
Presses(e) == e.pen /\ isDiscretePressEventType(e)

\* The outcomes for the event e, n being what the callback leaves.  A deferred
\* press survives an end only if the dock took that end.
Keeps(n, e) ==
  /\ n.m = model /\ ~n.cleared
  /\ n.s \in Session
  /\ n.s.visible = session.visible /\ n.s.penDown = session.penDown
  /\ n.s.anchor =>
       /\ n.s.await /\ ~session.penDown
       /\ \/ session.anchor /\ (Ends(e) => e.place = "dock")
          \/ Presses(e)

Commits(n) ==
  /\ session.penDown /\ ~n.cleared
  /\ n.s \in Session
  /\ n.s.visible = session.visible /\ ~n.s.penDown /\ ~n.s.anchor
  /\ n.m = IF model.eraserPath # Null THEN finishErase(model) ELSE commitCurrent(model)

Extends(n, e) ==
  /\ session.penDown /\ model.eraserPath # Null /\ ~n.cleared
  /\ n.s = session /\ n.m = appendErase(model, e.touched)

Starts(n, e) ==
  /\ ~session.penDown /\ ~n.cleared
  /\ n.s = [session EXCEPT !.penDown = TRUE, !.await = FALSE, !.anchor = FALSE]
  /\ n.m = IF e.erase THEN beginErase(model, e.windowSeq, e.touched)
           ELSE beginStroke(finishErase(model), e.windowSeq)
  /\ \/ Presses(e)
     \/ DeviceTypes /\ ~session.await
     \/ session.anchor /\ e.kind = "motion"

Clears(n, e) ==
  /\ ~session.penDown /\ n.cleared
  /\ n.s = session /\ n.m = clearAll(model)
  /\ session.anchor => (Ends(e) => e.place = "dock")

Outcome(n, e) == Keeps(n, e) \/ Commits(n) \/ Extends(n, e) \/ Starts(n, e) \/ Clears(n, e)

\* While the pen is down.
LEMMA DownOutcome ==
  ASSUME OverlayInv, session.visible, session.penDown, NEW e \in AnyEvent
  PROVE  Outcome(_onPenStageCaptured(Hand, e), e)
<1> DEFINE n == _onPenStageCaptured(Hand, e)
<1>1. session \in Session /\ ~session.anchor
  BY DEF OverlayInv, Deferral
<1>2. /\ Hand.s = session /\ Hand.m = model /\ Hand.cleared = FALSE
      /\ _penCaptureAcceptsEvent(Hand, e)
  BY DEF Hand, _penCaptureAcceptsEvent
<1>3. Commits(_commitPenStrokeFromCapture(Hand))
  BY <1>1 DEF Commits, Hand, _commitPenStrokeFromCapture, Session
<1>4. Outcome(MotionWhileDown(Hand, e), e)
  <2>1. CASE Near(e)
    BY <1>3, <2>1 DEF MotionWhileDown, Outcome
  <2>2. CASE ~Near(e) /\ model.eraserPath # Null
    BY <2>2 DEF MotionWhileDown, Outcome, Extends, Hand
  <2>3. CASE ~Near(e) /\ model.eraserPath = Null
    BY <1>1, <2>3 DEF MotionWhileDown, Outcome, Keeps, Hand
  <2> QED BY <2>1, <2>2, <2>3
<1>5. CASE e.place = "dock"
  BY <1>2, <1>3, <1>5 DEF _onPenStageCaptured, Outcome
<1>6. CASE e.place # "dock"
  <2>1. n = Dispatch(Hand, e)
    BY <1>2, <1>6 DEF _onPenStageCaptured
  <2>2. CASE isDiscretePressEventType(e)
    <3>1. n \in {_commitPenStrokeFromCapture(Hand), MotionWhileDown(Hand, e)}
      <4>1. n = _onPress(Hand, e)
        BY <2>1, <2>2 DEF Dispatch, isDiscretePressEventType
      <4> HIDE DEF n
      <4> QED BY <1>2, <4>1 DEF _onPress
    <3> QED BY <1>3, <1>4, <3>1 DEF Outcome
  <2>3. CASE e.kind \in {"motion", "other"}
    <3>1. n \in {Hand, MotionWhileDown(Hand, e)}
      BY <1>2, <2>1, <2>3 DEF Dispatch, _onMotion, isDiscretePressEventType
    <3>2. Keeps(Hand, e)
      BY <1>1 DEF Keeps, Hand
    <3> QED BY <1>4, <3>1, <3>2 DEF Outcome
  <2>4. CASE e.kind = "release"
    <3>1. n = _commitPenStrokeFromCapture(Hand)
      BY <1>2, <2>1, <2>4 DEF Dispatch, _onRelease, isDiscretePressEventType
    <3> QED BY <1>3, <3>1 DEF Outcome
  <2>5. CASE e.kind = "out"
    <3> DEFINE h == [Hand EXCEPT !.s.await = TRUE, !.s.anchor = FALSE]
    <3>1. n = _commitPenStrokeFromCapture(h)
      BY <1>1, <1>2, <2>1, <2>5
         DEF Dispatch, _onRelease, Hand, Session, isDiscretePressEventType
    <3>2. Commits(_commitPenStrokeFromCapture(h))
      BY <1>1 DEF Commits, Hand, _commitPenStrokeFromCapture, Session
    <3> QED BY <3>1, <3>2 DEF Outcome
  <2> QED BY <2>2, <2>3, <2>4, <2>5 DEF AnyEvent, isDiscretePressEventType
<1> QED BY <1>5, <1>6

\* While it is up.
LEMMA UpOutcome ==
  ASSUME OverlayInv, session.visible, ~session.penDown, NEW e \in AnyEvent
  PROVE  Outcome(_onPenStageCaptured(Hand, e), e)
<1> DEFINE n == _onPenStageCaptured(Hand, e)
<1>1. /\ session \in Session
      /\ session.anchor => session.await
  BY DEF OverlayInv, Deferral
<1>2. Hand = [s |-> session, m |-> model, cleared |-> FALSE]
  BY DEF Hand
<1>3. ASSUME ~(Ends(e) /\ session.anchor) \/ e.place = "dock" PROVE Keeps(Hand, e)
  BY <1>1, <1>2, <1>3 DEF Keeps
<1>4. _commitPenStrokeFromCapture(Hand) = Hand
  BY <1>2 DEF _commitPenStrokeFromCapture
<1>5. Ends(e) /\ session.anchor => _penCaptureAcceptsEvent(Hand, e)
  BY <1>1, <1>2 DEF _penCaptureAcceptsEvent, Deferred, Ends
<1>6. CASE ~_penCaptureAcceptsEvent(Hand, e)
  BY <1>3, <1>5, <1>6 DEF _onPenStageCaptured, Outcome
<1>7. CASE _penCaptureAcceptsEvent(Hand, e) /\ e.place = "dock"
  <2>1. n \in {Hand, _forwardPenDockIfSwatchHit(Hand, e)}
    BY <1>2, <1>7 DEF _onPenStageCaptured
  <2>2. Outcome(_forwardPenDockIfSwatchHit(Hand, e), e)
    BY <1>2, <1>3, <1>7 DEF _forwardPenDockIfSwatchHit, Outcome, Clears
  <2> QED BY <1>3, <1>7, <2>1, <2>2 DEF Outcome
<1>8. CASE _penCaptureAcceptsEvent(Hand, e) /\ e.place # "dock"
  <2>1. n = Dispatch(Hand, e) /\ e.pen
    BY <1>2, <1>8 DEF _onPenStageCaptured, _penCaptureAcceptsEvent
  <2>2. CASE isDiscretePressEventType(e)
    <3>1. n = _onPress(Hand, e) /\ ~Ends(e)
      BY <2>1, <2>2 DEF Dispatch, Ends, isDiscretePressEventType
    <3>2. CASE e.clear
      BY <1>2, <2>1, <2>2, <3>1, <3>2
         DEF _onPress, _forwardPenDockIfSwatchHit, Outcome, Clears
    <3>3. CASE ~e.clear /\ Near(e)
      BY <1>2, <1>3, <1>4, <3>1, <3>3 DEF _onPress, Outcome
    <3>4. CASE ~e.clear /\ ~Near(e) /\ session.await
      <4> DEFINE k == [session EXCEPT !.anchor = TRUE]
      <4>1. n = [s |-> k, m |-> model, cleared |-> FALSE]
        BY <1>2, <2>1, <2>2, <3>1, <3>4 DEF _onPress
      <4>2. /\ k \in Session /\ k.visible = session.visible
            /\ k.penDown = session.penDown /\ k.await
        BY <1>1, <3>4 DEF Session
      <4>3. n.m = model /\ n.cleared = FALSE /\ n.s = k
        BY <4>1
      <4> HIDE DEF k, n
      <4>4. Keeps(n, e)
        BY <2>1, <2>2, <4>2, <4>3 DEF Keeps, Session, Presses
      <4> QED BY <4>4 DEF Outcome, n
    <3>5. CASE ~e.clear /\ ~Near(e) /\ ~session.await
      <4>1. n = BeginInk(Hand, e)
        BY <1>2, <2>1, <2>2, <3>1, <3>5 DEF _onPress
      <4> QED BY <1>1, <1>2, <2>1, <2>2, <4>1
             DEF BeginInk, Outcome, Starts, Session, Presses
    <3> QED BY <3>2, <3>3, <3>4, <3>5
  <2>3. CASE e.kind = "motion"
    <3>1. n \in {Hand, MotionWhileUp(Hand, e)} /\ ~Ends(e)
      BY <1>2, <2>1, <2>3 DEF Dispatch, _onMotion, Ends, isDiscretePressEventType
    <3> DEFINE f == [session EXCEPT !.await = FALSE, !.anchor = FALSE]
               h == [Hand EXCEPT !.s = f]
    <3>2. h = [Hand EXCEPT !.s.await = FALSE, !.s.anchor = FALSE]
      BY <1>1, <1>2 DEF Session
    <3>3. /\ f \in Session /\ f.visible = session.visible
          /\ f.penDown = session.penDown /\ ~f.anchor
          /\ [f EXCEPT !.penDown = TRUE, !.await = FALSE, !.anchor = FALSE]
               = [session EXCEPT !.penDown = TRUE, !.await = FALSE, !.anchor = FALSE]
      BY <1>1 DEF Session
    <3>4. Keeps(Hand, e)
      BY <1>3, <3>1
    <3>5. Keeps(h, e)
      <4> HIDE DEF f
      <4>1. h.s = f /\ h.m = model /\ h.cleared = FALSE
        BY <1>2
      <4> HIDE DEF h
      <4> QED BY <3>3, <4>1 DEF Keeps
    <3>6. ASSUME NEW g \in Session, NEW k,
                 k \in {Hand, [Hand EXCEPT !.s = g]}, k.s = g, Keeps(k, e),
                 [g EXCEPT !.penDown = TRUE, !.await = FALSE, !.anchor = FALSE]
                   = [session EXCEPT !.penDown = TRUE, !.await = FALSE, !.anchor = FALSE],
                 (DeviceTypes /\ ~session.await) \/ session.anchor
          PROVE  Outcome(_onPress(k, e), e)
      <4>1. ~k.s.penDown
        BY <3>6 DEF Keeps
      <4>2. _onPress(k, e) \in {k, BeginInk(k, e)}
        BY <2>1, <2>3, <4>1
           DEF _onPress, _commitPenStrokeFromCapture, isDiscretePressEventType
      <4>3. /\ BeginInk(k, e).s =
                 [g EXCEPT !.penDown = TRUE, !.await = FALSE, !.anchor = FALSE]
            /\ BeginInk(k, e).m =
                 IF e.erase THEN beginErase(model, e.windowSeq, e.touched)
                 ELSE beginStroke(finishErase(model), e.windowSeq)
            /\ BeginInk(k, e).cleared = FALSE
        BY <1>2, <3>6 DEF BeginInk, Session
      <4>4. Starts(BeginInk(k, e), e)
        BY <2>3, <3>6, <4>3 DEF Starts
      <4> QED BY <3>6, <4>2, <4>4 DEF Outcome
    <3>7. CASE session.await /\ session.anchor /\ e.kind = "motion"
      <4>1. MotionWhileUp(Hand, e) \in {Hand, _onPress(h, e)}
        BY <1>2, <3>2, <3>7 DEF MotionWhileUp
      <4>2. Outcome(_onPress(h, e), e)
        <5>1. h.s = f
          BY <1>2
        <5> HIDE DEF f
        <5> QED BY <3>3, <3>5, <3>6, <3>7, <5>1
      <4> QED BY <3>1, <3>4, <4>1, <4>2 DEF Outcome
    <3>8. CASE ~(session.await /\ session.anchor /\ e.kind = "motion")
      <4>1. MotionWhileUp(Hand, e) = Hand
              \/ /\ DeviceTypes /\ ~session.await
                 /\ MotionWhileUp(Hand, e) = _onPress(Hand, e)
        BY <1>2, <3>8 DEF MotionWhileUp, AnyEvent
      <4>2. DeviceTypes /\ ~session.await => Outcome(_onPress(Hand, e), e)
        BY <1>1, <1>2, <3>4, <3>6
      <4> QED BY <3>1, <3>4, <4>1, <4>2 DEF Outcome
    <3> QED BY <3>7, <3>8
  <2>4. CASE e.kind \in {"release", "out"}
    <3> DEFINE k == [Hand EXCEPT !.s = [session EXCEPT !.anchor = FALSE]]
               h == [Hand EXCEPT !.s = [session EXCEPT !.await = TRUE, !.anchor = FALSE]]
    <3>1. n \in {k, h}
      <4>1. e.kind = "release" => n = k
        BY <1>1, <1>2, <2>1, <2>4
           DEF Dispatch, _onRelease, _commitPenStrokeFromCapture, Session,
               isDiscretePressEventType
      <4>2. e.kind = "out" => n = h
        BY <1>1, <1>2, <2>1, <2>4
           DEF Dispatch, _onRelease, _commitPenStrokeFromCapture, Session,
               isDiscretePressEventType
      <4> QED BY <2>4, <4>1, <4>2
    <3>2. Keeps(k, e) /\ Keeps(h, e)
      BY <1>1, <1>2 DEF Keeps, Session
    <3> QED BY <3>1, <3>2 DEF Outcome
  <2>5. CASE e.kind = "other"
    <3>1. n = Hand /\ ~Ends(e)
      BY <1>2, <2>1, <2>5 DEF Dispatch, Ends, isDiscretePressEventType
    <3> QED BY <1>3, <3>1 DEF Outcome
  <2> QED BY <2>2, <2>3, <2>4, <2>5 DEF AnyEvent, isDiscretePressEventType
<1> QED BY <1>6, <1>7, <1>8

-----------------------------------------------------------------------------
(* Every step keeps the invariant                                          *)

\* The store and the edits after a callback.
Filed ==
  /\ model' \in Capped(moves)
  /\ past' \in Seq(Edit) /\ Matched(past', model'.undoStack)

Idle(s, m) ==
  /\ ~s.penDown => m.current = Null /\ m.eraserPath = Null
  /\ m.current = Null \/ m.eraserPath = Null

LEMMA InvFacts ==
  ASSUME OverlayInv
  PROVE  /\ session \in Session /\ moves \in 0 .. MaxMove /\ model \in Capped(moves)
         /\ past \in Seq(Edit) /\ Len(past) <= UndoCap
         /\ Matched(past, model.undoStack) /\ Idle(session, model)
         /\ model.strokes \in SUBSET StrokeUpTo(moves) /\ model.strokes \subseteq Stroke
         /\ model.undoStack \in Seq(SUBSET StrokeUpTo(moves))
         /\ Len(model.undoStack) <= UndoCap
<1>1. moves \in 0 .. MaxMove /\ model \in Capped(moves)
  BY DEF OverlayInv
<1>2. /\ model.strokes \subseteq StrokeUpTo(moves) /\ StrokeUpTo(moves) \subseteq Stroke
      /\ model.undoStack \in Seq(SUBSET StrokeUpTo(moves))
      /\ Len(model.undoStack) <= UndoCap
  BY <1>1, StoreFacts
<1> QED BY <1>1, <1>2 DEF OverlayInv, IdleModelEmpty, Idle, Matched

\* An edit, and the state it pushes.
LEMMA FiledPush ==
  ASSUME OverlayInv, NEW r \in BOOLEAN,
         Remember(<<[erase |-> r, picture |-> model.strokes]>>),
         model' \in Capped(moves),
         model'.undoStack = Pushed(model.undoStack, model.strokes)
  PROVE  Filed
<1> DEFINE e == [erase |-> r, picture |-> model.strokes]
<1>1. e \in Edit /\ e.picture = model.strokes
  BY InvFacts DEF Edit
<1>2. past' = Pushed(past, e)
  BY <1>1, InvFacts, RememberFacts
<1> HIDE DEF e
<1>3. past' \in Seq(Edit)
  BY <1>1, <1>2, InvFacts, PushFacts
<1>4. Matched(past', model'.undoStack)
  BY <1>1, <1>2, InvFacts, MatchedPush
<1> QED BY <1>3, <1>4 DEF Filed

\* No edit, and the same states.
LEMMA FiledStill ==
  ASSUME OverlayInv, Remember(<<>>), model' \in Capped(moves),
         model'.undoStack = model.undoStack
  PROVE  Filed
<1>1. [erase |-> TRUE, picture |-> {}] \in Edit
  BY DEF Edit
<1>2. past' = past
  BY <1>1, InvFacts, RememberFacts
<1> QED BY <1>2, InvFacts DEF Filed

\* A stroke or a path that is finished, or nothing in hand.
LEMMA FiledCommit ==
  ASSUME OverlayInv, NEW n, model' = n.m, Remember(Edits(n)), ~n.cleared,
         n.m = IF model.eraserPath # Null THEN finishErase(model)
               ELSE commitCurrent(model)
  PROVE  Filed /\ model'.current = Null /\ model'.eraserPath = Null
<1>1. Idle(session, model) /\ moves \in 0 .. MaxMove /\ model \in Capped(moves)
  BY InvFacts
<1>2. CASE model.eraserPath # Null
  <2>1. /\ n.m \in Capped(moves) /\ n.m.eraserPath = Null /\ n.m.current = Null
        /\ n.m.undoStack = Pushed(model.undoStack, model.strokes)
    BY <1>1, <1>2, Finishes DEF Idle
  <2>2. Edits(n) = <<[erase |-> TRUE, picture |-> model.strokes]>>
    BY <1>2, <2>1 DEF Edits
  <2> QED BY <2>1, <2>2, FiledPush
<1>3. CASE model.eraserPath = Null /\ model.current # Null
  <2>1. /\ n.m \in Capped(moves) /\ n.m.eraserPath = Null /\ n.m.current = Null
        /\ n.m.undoStack = Pushed(model.undoStack, model.strokes)
    BY <1>1, <1>3, Finishes
  <2>2. Edits(n) = <<[erase |-> FALSE, picture |-> model.strokes]>>
    BY <1>3, <2>1 DEF Edits
  <2> QED BY <2>1, <2>2, FiledPush
<1>4. CASE model.eraserPath = Null /\ model.current = Null
  <2>1. n.m = model
    BY <1>4 DEF commitCurrent
  <2>2. Edits(n) = <<>>
    BY <1>4, <2>1 DEF Edits
  <2> QED BY <1>1, <1>4, <2>1, <2>2, FiledStill
<1> QED BY <1>2, <1>3, <1>4

\* All cleared.
LEMMA FiledClear ==
  ASSUME OverlayInv, NEW n, model' = n.m, Remember(Edits(n)), n.cleared,
         n.m = clearAll(model)
  PROVE  Filed /\ model'.current = Null /\ model'.eraserPath = Null
<1>1. /\ n.m \in Capped(moves) /\ n.m.eraserPath = Null /\ n.m.current = Null
      /\ n.m.undoStack = Pushed(model.undoStack, model.strokes)
  BY InvFacts, Finishes
<1>2. Edits(n) = <<[erase |-> FALSE, picture |-> model.strokes]>>
  BY DEF Edits
<1> QED BY <1>1, <1>2, FiledPush

\* A captured event, whatever its outcome.
LEMMA OutcomeFiled ==
  ASSUME OverlayInv, NEW e \in AnyEvent, NEW n, Outcome(n, e),
         n.m.next <= MaxStroke + 1,
         session' = n.s, model' = n.m, Remember(Edits(n))
  PROVE  Filed /\ Idle(session', model')
<1>1. /\ Idle(session, model) /\ moves \in 0 .. MaxMove /\ model \in Capped(moves)
      /\ session \in Session
  BY InvFacts
<1>2. CASE Keeps(n, e)
  <2>1. Edits(n) = <<>>
    BY <1>2 DEF Edits, Keeps
  <2> QED BY <1>1, <1>2, <2>1, FiledStill DEF Keeps, Idle
<1>3. CASE Commits(n)
  BY <1>3, FiledCommit DEF Commits, Idle
<1>4. CASE Extends(n, e)
  <2>1. e.touched \in SUBSET StrokeId
    BY DEF AnyEvent
  <2>2. /\ n.m \in Capped(moves) /\ n.m.undoStack = model.undoStack
        /\ n.m.current = model.current /\ n.m.eraserPath # Null
    BY <1>1, <1>4, <2>1, Appends DEF Extends
  <2>3. Edits(n) = <<>>
    BY <1>4, <2>2 DEF Extends, Edits
  <2>4. Filed
    BY <2>2, <2>3, FiledStill
  <2> QED BY <1>1, <1>4, <2>2, <2>4 DEF Extends, Idle
<1>5. CASE Starts(n, e)
  <2>1. /\ e.windowSeq \in WindowSeq \cup {NoWindow} /\ e.touched \in SUBSET StrokeId
        /\ model.current = Null /\ model.eraserPath = Null /\ session'.penDown
    BY <1>1, <1>5 DEF AnyEvent, Starts, Idle, Session
  <2>2. /\ n.m \in Capped(moves) /\ n.m.undoStack = model.undoStack
        /\ n.m.current = Null \/ n.m.eraserPath = Null
    <3>1. CASE e.erase
      BY <1>1, <1>5, <2>1, <3>1, Begins DEF Starts
    <3>2. CASE ~e.erase
      <4>1. n.m = beginStroke(model, e.windowSeq) /\ n.m.next = model.next + 1
        BY <1>1, <1>5, <2>1, <3>2, Begins DEF Starts
      <4>2. model.next <= MaxStroke
        <5>1. model.next \in 1 .. MaxStroke + 1 /\ MaxStroke \in Nat
          BY <1>1, StoreFacts, StrokeModelAssumption
        <5> QED BY <4>1, <5>1
      <4> QED BY <1>1, <2>1, <4>1, <4>2, Begins
    <3> QED BY <3>1, <3>2
  <2>3. Edits(n) = <<>>
    BY <1>5, <2>1 DEF Starts, Edits
  <2>4. Filed
    BY <2>2, <2>3, FiledStill
  <2> QED BY <2>1, <2>2, <2>4 DEF Idle
<1>6. CASE Clears(n, e)
  BY <1>6, FiledClear DEF Clears, Idle
<1> QED BY <1>2, <1>3, <1>4, <1>5, <1>6 DEF Outcome

\* What the pen does in the step that captures e.
PenDoes(e) ==
  /\ pen' \subseteq PenPart
  /\ e.pen /\ e.kind = "press" => pen' # {}
  /\ ~session.penDown => Ends(e) \/ e.kind = "press" \/ pen' = pen
  /\ ~session.penDown => e.pen

\* A reason for ink: a press, what was taken for one, or a motion that presses.
Meant == pen' # {} \/ arrived' \/ swallowed \/ (DeviceTypes /\ ~session.await)

\* A captured event keeps the invariant, and begins ink only for a reason.
LEMMA CapturedInv ==
  ASSUME OverlayInv, NEW e \in AnyEvent, Captured(e), PenDoes(e)
  PROVE  /\ OverlayInv'
         /\ ~session.penDown /\ session'.penDown => Meant
<1> DEFINE n == _onPenStageCaptured(Hand, e)
<1>1. /\ session.visible /\ n.m.next <= MaxStroke + 1
      /\ session' = n.s /\ model' = n.m /\ Remember(Edits(n))
      /\ UNCHANGED <<matches, moves>>
      /\ swallowed' = (session'.anchor /\
           (swallowed \/ (e.kind \in {"release", "out"} /\ e.place = "dock")))
      /\ arrived' = (e.kind = "in" \/ (arrived /\ e.kind \notin {"release", "out"}))
  BY DEF Captured, Becomes
<1>2. Outcome(n, e)
  BY <1>1, DownOutcome, UpOutcome
<1> HIDE DEF n
<1>3. Filed /\ Idle(session', model')
  BY <1>1, <1>2, OutcomeFiled
<1>4. /\ session \in Session /\ matches' \in 0 .. MaxMatch /\ moves' \in 0 .. MaxMove
      /\ Deferral /\ swallowed \in BOOLEAN /\ moves' = moves
      /\ arrived \in BOOLEAN
  BY <1>1 DEF OverlayInv
<1>5. session' \in Session /\ session'.visible
  BY <1>1, <1>2, <1>4
     DEF Outcome, Keeps, Commits, Extends, Starts, Clears, Session
<1>6. swallowed' \in BOOLEAN /\ arrived' \in BOOLEAN
  BY <1>1, <1>4, <1>5 DEF Session
<1>7. session'.anchor => /\ session'.await /\ ~session'.penDown
                         /\ pen' # {} \/ arrived' \/ swallowed'
  <2> SUFFICES ASSUME session'.anchor
               PROVE  /\ session'.await /\ ~session'.penDown
                      /\ pen' # {} \/ arrived' \/ swallowed'
    OBVIOUS
  <2>1. CASE Keeps(n, e)
    <3>1. CASE Presses(e)
      <4>1. pen' # {} \/ arrived'
        BY <1>1, <3>1 DEF Presses, isDiscretePressEventType, PenDoes
      <4> QED BY <1>1, <2>1, <4>1 DEF Keeps, Session
    <3>2. CASE session.anchor /\ (Ends(e) => e.place = "dock")
      <4>1. pen # {} \/ arrived \/ swallowed
        BY <1>4, <3>2 DEF Deferral
      <4> QED BY <1>1, <1>4, <2>1, <3>2, <4>1 DEF Keeps, PenDoes, Ends
    <3> QED BY <1>1, <2>1, <3>1, <3>2 DEF Keeps
  <2>2. CASE Clears(n, e)
    <3>1. session.anchor /\ (Ends(e) => e.place = "dock") /\ (pen # {} \/ arrived \/ swallowed)
          /\ session.await
      BY <1>1, <1>4, <2>2 DEF Clears, Deferral
    <3> QED BY <1>1, <1>4, <2>2, <3>1 DEF Clears, PenDoes, Ends
  <2>3. CASE Extends(n, e)
    BY <1>1, <1>4, <2>3 DEF Extends, Deferral
  <2>4. ~Commits(n) /\ ~Starts(n, e)
    BY <1>1, <1>4 DEF Commits, Starts, Session
  <2> QED BY <1>2, <2>1, <2>2, <2>3, <2>4 DEF Outcome
<1>8. ~session.penDown /\ session'.penDown => Meant
  <2> SUFFICES ASSUME ~session.penDown, session'.penDown
               PROVE  Meant
    OBVIOUS
  <2>1. Starts(n, e)
    BY <1>1, <1>2 DEF Outcome, Keeps, Commits, Extends, Clears
  <2>2. CASE Presses(e)
    BY <1>1, <2>2 DEF PenDoes, Presses, isDiscretePressEventType, Meant
  <2>3. CASE DeviceTypes /\ ~session.await
    BY <2>3 DEF Meant
  <2>4. CASE session.anchor /\ e.kind = "motion"
    BY <1>1, <1>4, <2>4 DEF PenDoes, Ends, Deferral, Meant
  <2> QED BY <2>1, <2>2, <2>3, <2>4 DEF Starts
<1>9. OverlayInv'
  BY <1>3, <1>4, <1>5, <1>6, <1>7
     DEF OverlayInv, Filed, Idle, IdleModelEmpty, Deferral, PenDoes
<1> QED BY <1>8, <1>9

\* The events that are enumerated are events.
LEMMA EventFacts ==
  ASSUME OverlayInv, NEW kind \in {"press", "motion", "release", "in", "out", "other"},
         NEW isPen \in BOOLEAN, NEW erase \in BOOLEAN, NEW e \in Event(kind, isPen, erase)
  PROVE  e \in AnyEvent /\ e.kind = kind /\ e.pen = isPen
<1>1. {s.id : s \in model.strokes} \subseteq StrokeId
  BY InvFacts DEF StrokeUpTo
<1> QED BY <1>1 DEF Event, AnyEvent

\* What captures an event.
LEMMA CaptureKeeps ==
  ASSUME OverlayInv, NEW part \in PenPart,
         PenPress(part) \/ PenRelease(part) \/ PenMove \/ PenRange \/ MouseEvent
  PROVE  /\ OverlayInv'
         /\ ~session.penDown /\ session'.penDown => Meant
<1>0. pen \subseteq PenPart
  BY DEF OverlayInv
<1>1. CASE PenPress(part)
  <2>1. PICK e \in Event("press", TRUE, part = "barrel") : Captured(e)
    BY <1>1 DEF PenPress
  <2>2. e \in AnyEvent /\ e.kind = "press" /\ e.pen
    BY <2>1, EventFacts
  <2>3. PenDoes(e)
    BY <1>0, <1>1, <2>2 DEF PenPress, PenDoes, Ends
  <2> QED BY <2>1, <2>2, <2>3, CapturedInv
<1>2. CASE PenRelease(part)
  <2>1. PICK e \in Event("release", TRUE, FALSE) : Captured(e)
    BY <1>2 DEF PenRelease
  <2>2. e \in AnyEvent /\ e.kind = "release" /\ e.pen
    BY <2>1, EventFacts
  <2>3. PenDoes(e)
    BY <1>0, <1>2, <2>2 DEF PenRelease, PenDoes, Ends
  <2> QED BY <2>1, <2>2, <2>3, CapturedInv
<1>3. CASE PenMove
  <2>1. PICK kind \in {"motion", "other"} : \E e \in Event(kind, TRUE, FALSE) : Captured(e)
    BY <1>3 DEF PenMove
  <2>2. PICK e \in Event(kind, TRUE, FALSE) : Captured(e)
    BY <2>1
  <2>3. e \in AnyEvent /\ e.kind = kind /\ e.pen
    BY <2>2, EventFacts
  <2>4. PenDoes(e)
    BY <1>0, <1>3, <2>3 DEF PenMove, PenDoes, Ends
  <2> QED BY <2>2, <2>3, <2>4, CapturedInv
<1>4. CASE PenRange
  <2>1. PICK kind \in {"in", "out"} : \E e \in Event(kind, TRUE, FALSE) : Captured(e)
    BY <1>4 DEF PenRange
  <2>2. PICK e \in Event(kind, TRUE, FALSE) : Captured(e)
    BY <2>1
  <2>3. e \in AnyEvent /\ e.kind = kind /\ e.pen
    BY <2>2, EventFacts
  <2>4. PenDoes(e)
    BY <1>0, <1>4, <2>3 DEF PenRange, PenDoes, Ends
  <2> QED BY <2>2, <2>3, <2>4, CapturedInv
<1>5. CASE MouseEvent
  <2>1. PICK kind \in {"press", "motion", "release", "other"} :
          \E e \in Event(kind, FALSE, FALSE) : Captured(e)
    BY <1>5 DEF MouseEvent
  <2>2. PICK e \in Event(kind, FALSE, FALSE) : Captured(e)
    BY <2>1
  <2>3. e \in AnyEvent /\ e.kind = kind /\ ~e.pen
    <3>1. {s.id : s \in model.strokes} \subseteq StrokeId
      BY InvFacts DEF StrokeUpTo
    <3>2. e.kind = kind /\ e.pen = FALSE
      BY <2>2 DEF Event
    <3>3. e \in AnyEvent
      BY <2>2, <3>1 DEF Event, AnyEvent
    <3> QED BY <3>2, <3>3
  <2>4. PenDoes(e)
    BY <1>0, <1>5, <2>3 DEF MouseEvent, PenDoes, Ends
  <2> QED BY <2>2, <2>3, <2>4, CapturedInv
<1> QED BY <1>1, <1>2, <1>3, <1>4, <1>5

\* The buttons, the switch and the self-test.
LEMMA CommandKeeps ==
  ASSUME OverlayInv,
         ClickUndo \/ ClickClear \/ Toggle \/ runSyntheticMotionSelfTest
  PROVE  OverlayInv' /\ (session'.penDown => session.penDown)
<1>1. /\ Idle(session, model) /\ moves \in 0 .. MaxMove /\ model \in Capped(moves)
      /\ session \in Session /\ Deferral /\ swallowed \in BOOLEAN /\ arrived \in BOOLEAN
      /\ session.penDown => session.visible
      /\ pen \subseteq PenPart /\ matches \in 0 .. MaxMatch
  BY InvFacts DEF OverlayInv
<1>2. CASE ClickUndo
  <2>1. undoOne(model) \in Capped(moves)
    BY <1>1, Undoes
  <2>2. past' \in Seq(Edit) /\ Matched(past', model'.undoStack)
    <3> DEFINE u == model.undoStack
               v == SubSeq(u, 1, Len(u) - 1)
               q == SubSeq(past, 1, Len(past) - 1)
    <3>1. /\ past \in Seq(Edit) /\ Len(past) \in Nat /\ Len(past) = Len(u)
          /\ \A i \in 1 .. Len(past) : past[i].erase \/ u[i] = past[i].picture
      BY InvFacts, LenProperties DEF Matched
    <3>2. /\ q \in Seq(Edit)
          /\ Len(q) = IF 1 <= Len(past) - 1 THEN Len(past) - 1 - 1 + 1 ELSE 0
          /\ \A i \in 1 .. Len(past) - 1 - 1 + 1 : q[i] = past[1 + i - 1]
      <4>1. \A i \in 1 .. Len(past) - 1 : past[i] \in Edit
        BY <3>1, ElementOfSeq
      <4>2. 1 \in Int /\ Len(past) - 1 \in Int
        BY <3>1
      <4> QED BY <4>1, <4>2, SubSeqProperties
    <3>3. /\ Len(v) = IF 1 <= Len(u) - 1 THEN Len(u) - 1 - 1 + 1 ELSE 0
          /\ \A i \in 1 .. Len(u) - 1 - 1 + 1 : v[i] = u[1 + i - 1]
      <4>1. u \in Seq(SUBSET StrokeUpTo(moves))
        BY InvFacts
      <4>2. \A i \in 1 .. Len(u) - 1 : u[i] \in SUBSET StrokeUpTo(moves)
        BY <3>1, <4>1, ElementOfSeq
      <4>3. 1 \in Int /\ Len(u) - 1 \in Int
        BY <3>1
      <4> HIDE DEF u
      <4> QED BY <4>2, <4>3, SubSeqProperties
    <3>4. past' = q
      BY <1>2 DEF ClickUndo
    <3>5. CASE u # <<>>
      <4>1. model'.undoStack = v
        BY <1>1, <1>2, <3>5, Undoes DEF ClickUndo
      <4> HIDE DEF u, v, q
      <4>2. Len(q) = Len(v) /\ \A i \in 1 .. Len(q) : i \in 1 .. Len(past) /\
              q[i] = past[i] /\ v[i] = u[i]
        BY <3>1, <3>2, <3>3
      <4> QED BY <3>1, <3>2, <3>4, <4>1, <4>2 DEF Matched
    <3>6. CASE u = <<>>
      <4>1. model'.undoStack = u /\ Len(u) = 0
        BY <1>1, <1>2, <3>6, Undoes DEF ClickUndo
      <4> HIDE DEF u, v, q
      <4> QED BY <3>1, <3>2, <3>4, <4>1 DEF Matched
    <3> QED BY <3>5, <3>6
  <2>3. Idle(session', model')
    BY <1>1, <1>2, Undoes DEF ClickUndo, Idle
  <2> QED BY <1>1, <1>2, <2>1, <2>2, <2>3
         DEF ClickUndo, OverlayInv, Idle, IdleModelEmpty, Deferral
<1>3. CASE ClickClear
  <2> DEFINE n == [Hand EXCEPT !.m = clearAll(@), !.cleared = TRUE]
  <2>1. n.m = clearAll(model) /\ n.cleared /\ n.s = session
    BY DEF Hand
  <2>2. /\ session' = n.s /\ model' = n.m /\ Remember(Edits(n))
        /\ UNCHANGED <<matches, moves, pen, swallowed, arrived>>
    BY <1>3 DEF ClickClear, Becomes
  <2> HIDE DEF n
  <2>3. Filed /\ model'.current = Null /\ model'.eraserPath = Null
    BY <2>1, <2>2, FiledClear
  <2> QED BY <1>1, <2>1, <2>2, <2>3
         DEF Filed, OverlayInv, IdleModelEmpty, Deferral
<1>4. CASE Toggle
  <2> DEFINE n == toggle(Hand)
             f == [visible |-> ~session.visible, penDown |-> FALSE, await |-> TRUE,
                   anchor |-> FALSE]
  <2>1. /\ n.s = f /\ ~n.cleared
        /\ n.m = IF session.visible THEN finishErase(commitCurrent(model)) ELSE model
    BY DEF Hand, toggle
  <2>2. /\ session' = n.s /\ model' = n.m /\ Remember(Edits(n))
        /\ UNCHANGED <<matches, moves, pen>> /\ swallowed' = FALSE
        /\ arrived' = FALSE
    BY <1>4 DEF Toggle, Becomes
  <2>3. f \in Session /\ ~f.penDown /\ ~f.anchor
    BY DEF Session
  <2> HIDE DEF n, f
  <2>4. Filed /\ model'.current = Null /\ model'.eraserPath = Null
    <3>1. CASE session.visible
      <4>1. model.eraserPath # Null => commitCurrent(model) = model
        BY <1>1 DEF Idle, commitCurrent
      <4>2. model.eraserPath = Null => commitCurrent(model).eraserPath = Null
        BY <1>1, Finishes DEF commitCurrent
      <4>3. n.m = IF model.eraserPath # Null THEN finishErase(model)
                  ELSE commitCurrent(model)
        BY <2>1, <3>1, <4>1, <4>2 DEF finishErase
      <4> QED BY <2>1, <2>2, <4>3, FiledCommit
    <3>2. CASE ~session.visible
      <4>1. model.current = Null /\ model.eraserPath = Null /\ n.m = model
        BY <1>1, <2>1, <3>2 DEF Idle
      <4>2. Edits(n) = <<>>
        BY <2>1, <4>1 DEF Edits
      <4> QED BY <1>1, <2>2, <4>1, <4>2, FiledStill
    <3> QED BY <3>1, <3>2
  <2> QED BY <1>1, <2>1, <2>2, <2>3, <2>4
         DEF Filed, OverlayInv, IdleModelEmpty, Deferral
<1>5. CASE runSyntheticMotionSelfTest
  <2> DEFINE c == clearAll(model)
             b == beginStroke(c, NoWindow)
             d == commitCurrent(b)
             e == [erase |-> FALSE, picture |-> model.strokes]
             g == [erase |-> FALSE, picture |-> {}]
  <2>1. /\ model.next <= MaxStroke /\ model' = d /\ Remember(<<e, g>>)
        /\ matches' \in {matches, matches + 1} \cap 0 .. MaxMatch
        /\ UNCHANGED <<session, pen, moves, swallowed, arrived>>
    BY <1>5 DEF runSyntheticMotionSelfTest
  <2>2. /\ c \in Capped(moves) /\ c.undoStack = Pushed(model.undoStack, model.strokes)
        /\ c.strokes = {} /\ c.next = model.next /\ c.current = Null /\ c.eraserPath = Null
    BY <1>1, Finishes
  <2> HIDE DEF c
  <2>3. /\ b \in Capped(moves) /\ b.undoStack = c.undoStack /\ b.strokes = {}
        /\ b.current # Null /\ b.eraserPath = Null
    BY <1>1, <2>1, <2>2, Begins
  <2> HIDE DEF b
  <2>4. /\ d \in Capped(moves) /\ d.undoStack = Pushed(c.undoStack, {})
        /\ d.current = Null /\ d.eraserPath = Null
    <3>1. /\ d \in Capped(moves) /\ d.undoStack = Pushed(b.undoStack, b.strokes)
          /\ d.current = Null /\ d.eraserPath = b.eraserPath
      BY <1>1, <2>3, Finishes
    <3> QED BY <2>3, <3>1
  <2> HIDE DEF d
  <2>5. e \in Edit /\ e.picture = model.strokes /\ g \in Edit /\ g.picture = {}
    BY InvFacts DEF Edit
  <2>6. past' = Pushed(Pushed(past, e), g)
    BY <2>1, <2>5, InvFacts, RememberTwo
  <2> HIDE DEF e, g
  <2>7. /\ Pushed(past, e) \in Seq(Edit) /\ Len(Pushed(past, e)) <= UndoCap
        /\ Matched(Pushed(past, e), c.undoStack)
    <3>1. Pushed(past, e) \in Seq(Edit)
      BY <2>5, InvFacts, PushFacts
    <3>2. Matched(Pushed(past, e), Pushed(model.undoStack, model.strokes))
      BY <2>5, InvFacts, MatchedPush
    <3>3. Len(c.undoStack) <= UndoCap
      BY <1>1, <2>2, StoreFacts
    <3> QED BY <2>2, <3>1, <3>2, <3>3 DEF Matched
  <2>8. /\ c.undoStack \in Seq(SUBSET StrokeUpTo(moves)) /\ Len(c.undoStack) <= UndoCap
        /\ {} \in SUBSET StrokeUpTo(moves)
    BY <1>1, <2>2, StoreFacts
  <2>9. past' \in Seq(Edit) /\ Matched(past', model'.undoStack)
    <3>1. past' \in Seq(Edit)
      BY <2>5, <2>6, <2>7, PushFacts
    <3> DEFINE p == Pushed(past, e)
               u == c.undoStack
    <3>2. /\ p \in Seq(Edit) /\ u \in Seq(SUBSET StrokeUpTo(moves)) /\ Matched(p, u)
          /\ Len(u) <= UndoCap
      BY <2>7, <2>8
    <3> HIDE DEF p, u
    <3>3. Matched(Pushed(p, g), Pushed(u, {}))
      BY <2>5, <2>8, <3>2, MatchedPush
    <3> QED BY <2>1, <2>4, <2>6, <3>1, <3>3 DEF p, u
  <2>10. matches' \in 0 .. MaxMatch
    BY <2>1
  <2> QED BY <1>1, <2>1, <2>4, <2>9, <2>10 DEF OverlayInv, IdleModelEmpty, Deferral
<1> QED BY <1>2, <1>3, <1>4, <1>5

\* The rest of the actions.
LEMMA QuietKeeps ==
  ASSUME OverlayInv, PenUnseen \/ MatchDone \/ UNCHANGED overlayVars
  PROVE  OverlayInv' /\ session' = session
<1>1. CASE PenUnseen
  BY <1>1 DEF PenUnseen, OverlayInv, IdleModelEmpty, Deferral
<1>2. CASE MatchDone
  <2>1. /\ moves \in 0 .. MaxMove /\ model \in Capped(moves) /\ matches \in 0 .. MaxMatch
        /\ MaxMove \in Nat /\ MaxMatch \in Nat
    BY StrokeModelAssumption, OverlayAssumption DEF OverlayInv
  <2>2. matches' \in 0 .. MaxMatch
    BY <1>2, <2>1 DEF MatchDone
  <2>3. /\ moves' \in 0 .. MaxMove /\ model' \in Capped(moves')
        /\ model'.undoStack = model.undoStack
        /\ model'.current = Null <=> model.current = Null
        /\ model'.eraserPath = model.eraserPath
    <3>1. CASE UNCHANGED <<moves, model>>
      BY <2>1, <3>1
    <3>2. CASE moves < MaxMove /\ moves' = moves + 1 /\ model' = translateAll(model)
      <4>1. moves \in 0 .. MaxMove - 1 /\ moves' \in 0 .. MaxMove
        BY <2>1, <3>2
      <4>2. /\ translateAll(model) \in Capped(moves + 1)
            /\ translateAll(model).undoStack = model.undoStack
            /\ translateAll(model).current = Null <=> model.current = Null
            /\ translateAll(model).eraserPath = model.eraserPath
        BY <2>1, <4>1, Translates
      <4> QED BY <3>2, <4>1, <4>2
    <3> QED BY <1>2, <3>1, <3>2 DEF MatchDone
  <2> QED BY <1>2, <2>2, <2>3
         DEF MatchDone, OverlayInv, IdleModelEmpty, Deferral, Matched
<1>3. CASE UNCHANGED overlayVars
  BY <1>3 DEF overlayVars, OverlayInv, IdleModelEmpty, Deferral, Matched
<1> QED BY <1>1, <1>2, <1>3

\* The inductive step, and what it says of ink that begins.
LEMMA OverlayNextInv ==
  OverlayInv /\ [OverlayNext]_overlayVars =>
    /\ OverlayInv'
    /\ ~session.penDown /\ session'.penDown => Meant
<1> SUFFICES ASSUME OverlayInv, [OverlayNext]_overlayVars
             PROVE  /\ OverlayInv'
                    /\ ~session.penDown /\ session'.penDown => Meant
  OBVIOUS
<1>1. CASE \E part \in PenPart : PenPress(part) \/ PenRelease(part)
  BY <1>1, CaptureKeeps
<1>2. CASE PenMove \/ PenRange \/ MouseEvent
  <2>1. "tip" \in PenPart
    BY DEF PenPart
  <2> QED BY <1>2, <2>1, CaptureKeeps
<1>3. CASE ClickUndo \/ ClickClear \/ Toggle \/ runSyntheticMotionSelfTest
  BY <1>3, CommandKeeps
<1>4. CASE PenUnseen \/ MatchDone \/ UNCHANGED overlayVars
  BY <1>4, QuietKeeps
<1> QED BY <1>1, <1>2, <1>3, <1>4 DEF OverlayNext

\* An overlay that is loaded.
LEMMA OverlayInitInv == OverlayInit => OverlayInv
<1> SUFFICES ASSUME OverlayInit PROVE OverlayInv
  OBVIOUS
<1>1. /\ MaxStroke \in Nat /\ UndoCap \in Nat /\ MaxMove \in Nat /\ MaxMatch \in Nat
  BY StrokeModelAssumption, OverlayAssumption
<1>2. model \in Capped(0) /\ model.undoStack = <<>>
      /\ model.current = Null /\ model.eraserPath = Null
  BY <1>1 DEF OverlayInit, NewStrokeModel, Capped, Store
<1>3. Matched(past, model.undoStack) /\ past \in Seq(Edit)
  BY <1>2 DEF OverlayInit, Matched
<1>4. /\ session \in Session /\ ~session.visible /\ ~session.penDown
      /\ ~session.anchor
  BY DEF OverlayInit, Session
<1>5. /\ moves = 0 /\ matches = 0 /\ pen = {} /\ swallowed \in BOOLEAN
      /\ arrived \in BOOLEAN
      /\ moves \in 0 .. MaxMove /\ matches \in 0 .. MaxMatch
  <2>1. moves = 0 /\ matches = 0 /\ pen = {} /\ swallowed = FALSE
        /\ arrived = FALSE
    BY DEF OverlayInit
  <2>2. 0 \in 0 .. MaxMove /\ 0 \in 0 .. MaxMatch
    BY <1>1
  <2> QED BY <2>1, <2>2
<1>6. IdleModelEmpty
  BY <1>2, <1>4 DEF IdleModelEmpty
<1>7. Deferral
  BY <1>4, <1>5 DEF Deferral
<1> QED BY <1>2, <1>3, <1>4, <1>5, <1>6, <1>7 DEF OverlayInv

-----------------------------------------------------------------------------
(* Theorems                                                                *)

\* The inductive invariant of the session, its store and the pen.
THEOREM OverlayInvariance == OverlaySpec => []OverlayInv
<1> QED BY OverlayInitInv, OverlayNextInv, PTL DEF OverlaySpec

\* Types, and the cap on undo states.
THEOREM OverlayTypeCorrect == OverlaySpec => []OverlayTypeOK
<1>1. OverlayInv => OverlayTypeOK
  <2> SUFFICES ASSUME OverlayInv PROVE OverlayTypeOK
    OBVIOUS
  <2>1. /\ moves \in 0 .. MaxMove /\ model \in Store(moves)
        /\ Len(model.undoStack) <= UndoCap
        /\ StrokeUpTo(moves) \subseteq Stroke
    BY StoreFacts DEF OverlayInv
  <2>2. model.undoStack \in Seq(SUBSET Stroke)
    <3>1. SUBSET StrokeUpTo(moves) \subseteq SUBSET Stroke
      BY <2>1
    <3>2. model.undoStack \in Seq(SUBSET StrokeUpTo(moves))
      BY InvFacts
    <3> QED BY <3>1, <3>2, SeqMonotonic
  <2>3. model \in StrokeModel
    BY <2>1, <2>2 DEF Store, StrokeModel
  <2> QED BY <2>1, <2>3 DEF OverlayInv, OverlayTypeOK
<1> QED BY <1>1, OverlayInvariance, PTL

\* However a gesture ends, nothing of it stays in the store's hand.
THEOREM NothingLeftInHand == OverlaySpec => []IdleModelEmpty
<1>1. OverlayInv => IdleModelEmpty
  BY DEF OverlayInv
<1> QED BY <1>1, OverlayInvariance, PTL

\* The undo stack holds the pictures before the last UndoCap edits, in order,
\* for any cap and any number of strokes, translations and self-tests between
\* them (erasing excused).
THEOREM UndoIsTrue == OverlaySpec => []UndoStackTrue
<1>1. OverlayInv => UndoStackTrue
  <2> SUFFICES ASSUME OverlayInv PROVE UndoStackTrue
    OBVIOUS
  <2>1. DOMAIN past = 1 .. Len(past)
    BY InvFacts, LenProperties
  <2> QED BY <2>1, InvFacts DEF Matched, UndoStackTrue
<1> QED BY <1>1, OverlayInvariance, PTL

\* Ink begins under a pressed pen, after the dock has swallowed a release, or
\* while the pen's coming into range stands for a press; and by a motion alone
\* only if events tell their device and ink is unlocked.
THEOREM InkBeginsPressed == OverlaySpec => InkNeedsPress
<1>1. OverlayInv /\ [OverlayNext]_overlayVars =>
        [~session.penDown /\ session'.penDown =>
           \/ pen' # {} \/ arrived' \/ swallowed
           \/ DeviceTypes /\ ~session.await]_overlayVars
  BY OverlayNextInv DEF Meant
<1> QED BY <1>1, OverlayInvariance, PTL DEF OverlaySpec, InkNeedsPress
=============================================================================
