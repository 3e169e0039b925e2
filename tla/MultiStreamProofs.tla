-------------------------- MODULE MultiStreamProofs --------------------------
(***************************************************************************)
(* Proofs about MultiStream for any streams, levels, instances and bounds: *)
(* the arrays stay sorted, an undisturbed write reaches exactly the streams*)
(* the line is for, ids name one entry, metadata is never older than the   *)
(* line, and end() and a fatal write leave nothing in a buffer.            *)
(***************************************************************************)
EXTENDS MultiStream, SequenceLemmas, TLAPS

\* The array stays sorted when an entry is added at its place.
LEMMA InsertKeepsSorted ==
    ASSUME NEW es \in Seq(Entry), NEW e \in Entry, NEW p \in 1 .. (Len(es) + 1),
           \A i \in 1 .. Len(es) : es[i].level \in Nat,
           e.level \in Nat,
           Sorted(es), IsSortedPlace(es, e.level, p)
    PROVE  Sorted(InsertAt(es, p, e))
  <1> DEFINE new == InsertAt(es, p, e)
  <1>1. /\ Len(new) = Len(es) + 1
        /\ \A i \in 1 .. (Len(es) + 1) :
              new[i] = IF i < p THEN es[i] ELSE IF i = p THEN e ELSE es[i - 1]
    BY InsertAtProperties, SMTT(60)
  <1>2. \A i, j \in 1 .. Len(es) : i =< j => es[i].level =< es[j].level
    BY DEF Sorted, AtMost
  <1> HIDE DEF new
  <1>3. ASSUME NEW i \in 1 .. Len(new)
        PROVE  new[i].level \in Nat
    <2>1. CASE i < p
      BY <2>1, <1>1
    <2>2. CASE i = p
      BY <2>2, <1>1
    <2>3. CASE i > p
      <3>1. i - 1 \in 1 .. Len(es) /\ new[i] = es[i - 1]
        BY <2>3, <1>1
      <3> QED BY <3>1
    <2> QED BY <2>1, <2>2, <2>3
  <1>4. ASSUME NEW i \in 1 .. Len(new), NEW j \in 1 .. Len(new), i =< j
        PROVE  new[i].level =< new[j].level
    <2>1. CASE j < p
      BY <2>1, <1>1, <1>2, <1>4
    <2>2. CASE j = p /\ i < p
      BY <2>2, <1>1, <1>4 DEF IsSortedPlace
    <2>3. CASE j = p /\ i = p
      BY <2>3, <1>1
    <2>4. CASE j > p /\ i < p
      <3>1. /\ new[i] = es[i] /\ i \in 1 .. (p - 1)
            /\ new[j] = es[j - 1] /\ j - 1 \in p .. Len(es)
        BY <2>4, <1>1
      <3>2. es[i].level < e.level /\ e.level =< es[j - 1].level
        BY <3>1 DEF IsSortedPlace
      <3>3. es[i].level \in Nat /\ es[j - 1].level \in Nat
        BY <3>1
      <3> QED BY <3>1, <3>2, <3>3
    <2>5. CASE j > p /\ i = p
      <3>1. new[i] = e /\ new[j] = es[j - 1] /\ j - 1 \in p .. Len(es)
        BY <2>5, <1>1
      <3> QED BY <3>1 DEF IsSortedPlace
    <2>6. CASE j > p /\ i > p
      <3>1. /\ new[i] = es[i - 1] /\ i - 1 \in 1 .. Len(es)
            /\ new[j] = es[j - 1] /\ j - 1 \in 1 .. Len(es)
        BY <2>6, <1>1
      <3> QED BY <3>1, <1>2, <1>4
    <2> QED BY <2>1, <2>2, <2>3, <2>4, <2>5, <2>6, <1>4
  <1>5. Sorted(new)
    BY <1>3, <1>4 DEF Sorted, AtMost
  <1> QED BY <1>5 DEF new

\* ... and when one is taken out.
LEMMA RemoveKeepsSorted ==
    ASSUME NEW es \in Seq(Entry), NEW p \in 1 .. Len(es), Sorted(es)
    PROVE  Sorted(RemoveAt(es, p))
  <1> DEFINE new == RemoveAt(es, p)
  <1>1. /\ Len(new) = Len(es) - 1
        /\ \A i \in 1 .. (Len(es) - 1) : new[i] = IF i < p THEN es[i] ELSE es[i + 1]
    BY RemoveAtProperties
  <1> HIDE DEF new
  <1>2. CASE \A i \in 1 .. Len(es) : es[i].level \notin Nat
    BY <1>1, <1>2 DEF Sorted, new
  <1>3. CASE \A i, j \in 1 .. Len(es) : i =< j => AtMost(es[i].level, es[j].level)
    <2>1. \A i, j \in 1 .. Len(new) : i =< j => AtMost(new[i].level, new[j].level)
      BY <1>1, <1>3
    <2> QED BY <2>1 DEF Sorted, new
  <1> QED BY <1>2, <1>3 DEF Sorted

-----------------------------------------------------------------------------
(* Type correctness *)

\* A sequence without its last element.
LEMMA FrontProperties ==
    ASSUME NEW S, NEW s \in Seq(S), Len(s) >= 1
    PROVE  /\ SubSeq(s, 1, Len(s) - 1) \in Seq(S)
           /\ Len(SubSeq(s, 1, Len(s) - 1)) = Len(s) - 1
           /\ \A i \in 1 .. (Len(s) - 1) : SubSeq(s, 1, Len(s) - 1)[i] = s[i]
  <1> DEFINE n == Len(s) - 1
             front == SubSeq(s, 1, n)
  <1>1. n \in Nat /\ \A i \in 1 .. n : s[i] \in S
    OBVIOUS
  <1> HIDE DEF n
  <1>2. /\ front \in Seq(S)
        /\ Len(front) = IF 1 <= n THEN n - 1 + 1 ELSE 0
        /\ \A i \in 1 .. n - 1 + 1 : front[i] = s[1 + i - 1]
    BY <1>1, SubSeqProperties
  <1> HIDE DEF front
  <1>3. /\ front \in Seq(S) /\ Len(front) = n
        /\ \A i \in 1 .. n : front[i] = s[i]
    BY <1>1, <1>2
  <1> QED BY <1>3 DEF front, n

\* An entry's level is a number, or compares with none.
LEMMA LevelIsNumber ==
    \A e \in Entry : e.level \in Level /\ e.level \in Int \cup {NotANumber}
  <1>1. \A e \in Entry : e.level \in Level
    BY DEF Entry
  <1>2. Level \subseteq Int \cup {NotANumber}
    BY MultiStreamAssumption DEF Level
  <1> QED BY <1>1, <1>2

\* The innermost frame is a frame, and replacing or popping it leaves a stack.
LEMMA TopProperties ==
    ASSUME TypeOK, stack # << >>
    PROVE  /\ Top \in Frame /\ Len(stack) \in 1 .. Len(stack)
           /\ Pop \in Seq(Frame) /\ Len(Pop) = Len(stack) - 1
           /\ \A d \in 1 .. (Len(stack) - 1) : Pop[d] = stack[d]
           /\ \A f \in Frame :
                 /\ SetTop(f) \in Seq(Frame) /\ Len(SetTop(f)) = Len(stack)
                 /\ \A d \in 1 .. Len(stack) :
                       SetTop(f)[d] = IF d = Len(stack) THEN f ELSE stack[d]
  <1>1. stack \in Seq(Frame) /\ Len(stack) \in 1 .. Len(stack)
    BY EmptySeq DEF TypeOK, StackOK
  <1>2. Top \in Frame
    BY <1>1 DEF Top
  <1>3. /\ Pop \in Seq(Frame) /\ Len(Pop) = Len(stack) - 1
        /\ \A d \in 1 .. (Len(stack) - 1) : Pop[d] = stack[d]
    BY <1>1, FrontProperties DEF Pop
  <1>4. ASSUME NEW f \in Frame
        PROVE  /\ SetTop(f) \in Seq(Frame) /\ Len(SetTop(f)) = Len(stack)
               /\ \A d \in 1 .. Len(stack) :
                     SetTop(f)[d] = IF d = Len(stack) THEN f ELSE stack[d]
    BY <1>1, ExceptSeq DEF SetTop
  <1> QED BY <1>1, <1>2, <1>3, <1>4

\* Marking the frames of an instance as disturbed changes nothing else of them.
LEMMA DisturbedProperties ==
    ASSUME TypeOK, NEW inst \in Instance
    PROVE  /\ Disturbed(inst) \in Seq(Frame)
           /\ Len(Disturbed(inst)) = Len(stack)
           /\ \A d \in 1 .. Len(stack) :
                 LET f == stack[d]
                     g == Disturbed(inst)[d]
                 IN  /\ g.inst = f.inst /\ g.line = f.line /\ g.level = f.level
                     /\ g.i = f.i /\ g.recordedLevel = f.recordedLevel
                     /\ g.inside = f.inside /\ g.start = f.start /\ g.sent = f.sent
                     /\ g.calm => f.calm /\ f.inst # inst
  <1>1. stack \in Seq(Frame) /\ Len(stack) \in Nat
    BY DEF TypeOK, StackOK
  <1> DEFINE mark(d) == [stack[d] EXCEPT !.calm = stack[d].calm /\ stack[d].inst # inst]
  <1>2. ASSUME NEW d \in 1 .. Len(stack)
        PROVE  LET f == stack[d]
                   g == mark(d)
               IN  /\ g \in Frame
                   /\ g.inst = f.inst /\ g.line = f.line /\ g.level = f.level
                   /\ g.i = f.i /\ g.recordedLevel = f.recordedLevel
                   /\ g.inside = f.inside /\ g.start = f.start /\ g.sent = f.sent
                   /\ g.calm => f.calm /\ f.inst # inst
    <2>1. stack[d] \in Frame
      BY <1>1
    <2> DEFINE c == stack[d].calm /\ stack[d].inst # inst
    <2>2. c \in BOOLEAN /\ (c => stack[d].calm /\ stack[d].inst # inst)
      OBVIOUS
    <2> HIDE DEF c
    <2>3. /\ [stack[d] EXCEPT !.calm = c] \in Frame
          /\ [stack[d] EXCEPT !.calm = c].calm = c
      BY <2>1, <2>2 DEF Frame
    <2>4. LET f == stack[d]
              g == [stack[d] EXCEPT !.calm = c]
          IN  /\ g.inst = f.inst /\ g.line = f.line /\ g.level = f.level
              /\ g.i = f.i /\ g.recordedLevel = f.recordedLevel
              /\ g.inside = f.inside /\ g.start = f.start /\ g.sent = f.sent
      BY <2>1 DEF Frame
    <2> QED BY <2>2, <2>3, <2>4 DEF c
  <1>3. Disturbed(inst) = [d \in 1 .. Len(stack) |-> mark(d)]
    BY DEF Disturbed
  <1> HIDE DEF mark
  <1> QED BY <1>1, <1>2, <1>3

\* The entry the innermost frame looks at when its loop goes on.
LEMMA DestProperties ==
    ASSUME TypeOK, stack # << >>, LoopGoesOn, Top.i =< Len(held[Top.inst])
    PROVE  /\ held[Top.inst] \in Seq(Entry)
           /\ Top.i \in 1 .. Len(held[Top.inst])
           /\ Dest \in Entry
  <1>1. Top \in Frame /\ (Top.inside \/ ~dedupe => Top.i >= 1)
    BY TopProperties DEF TypeOK, StackOK, Top
  <1>2. Top.inst \in Instance /\ Top.i \in Nat /\ Top.i >= 1
    BY <1>1 DEF Frame, LoopGoesOn
  <1>3. held[Top.inst] \in Seq(Entry)
    BY <1>2 DEF TypeOK
  <1> QED BY <1>2, <1>3 DEF Dest

\* Moving a frame to another position, or into and out of a stream.
LEMMA FrameUpdates ==
    ASSUME NEW f \in Frame, NEW n \in Nat, NEW b \in BOOLEAN, NEW r \in Level \cup {0},
           NEW x \in [at : Nat, id : Nat \cup {Absent}]
    PROVE  /\ [f EXCEPT !.i = n] \in Frame
           /\ [f EXCEPT !.inside = b, !.i = n] \in Frame
           /\ [f EXCEPT !.inside = b, !.sent = f.sent \cup {x}, !.recordedLevel = r] \in Frame
  <1>1. f.sent \cup {x} \in SUBSET [at : Nat, id : Nat \cup {Absent}]
    BY DEF Frame
  <1> QED BY <1>1 DEF Frame

\* The ways the steps change the stack.
LEMMA StackTopSet ==
    ASSUME TypeOK, stack # << >>, NEW f \in Frame, f.inside \/ ~dedupe => f.i >= 1,
           stack' = SetTop(f), dedupe' = dedupe
    PROVE  StackOK'
  <1>1. SetTop(f) \in Seq(Frame) /\ Len(SetTop(f)) = Len(stack)
    BY TopProperties
  <1>2. ASSUME NEW d \in 1 .. Len(SetTop(f)), SetTop(f)[d].inside \/ ~dedupe
        PROVE  SetTop(f)[d].i >= 1
    <2>1. d \in 1 .. Len(stack) /\ SetTop(f)[d] = IF d = Len(stack) THEN f ELSE stack[d]
      BY <1>1, TopProperties
    <2> QED BY <1>2, <2>1 DEF TypeOK, StackOK
  <1> QED BY <1>1, <1>2 DEF StackOK

LEMMA StackPopped ==
    ASSUME TypeOK, stack # << >>, stack' = Pop, dedupe' = dedupe
    PROVE  StackOK'
  <1>1. Pop \in Seq(Frame) /\ Len(Pop) = Len(stack) - 1 /\ stack \in Seq(Frame)
    BY TopProperties DEF TypeOK, StackOK
  <1>2. ASSUME NEW d \in 1 .. Len(Pop), Pop[d].inside \/ ~dedupe
        PROVE  Pop[d].i >= 1
    <2>1. d \in 1 .. Len(stack) /\ Pop[d] = stack[d]
      BY <1>1, TopProperties
    <2> QED BY <1>2, <2>1 DEF TypeOK, StackOK
  <1> QED BY <1>1, <1>2 DEF StackOK

LEMMA StackPushed ==
    ASSUME TypeOK, NEW f \in Frame, f.inside \/ ~dedupe => f.i >= 1,
           stack' = Append(stack, f), dedupe' = dedupe
    PROVE  StackOK'
  <1>1. /\ stack \in Seq(Frame) /\ Append(stack, f) \in Seq(Frame)
        /\ Len(Append(stack, f)) = Len(stack) + 1
    BY AppendProperties DEF TypeOK, StackOK
  <1>2. ASSUME NEW d \in 1 .. Len(Append(stack, f)), Append(stack, f)[d].inside \/ ~dedupe
        PROVE  Append(stack, f)[d].i >= 1
    <2>1. d \in 1 .. Len(stack) => Append(stack, f)[d] = stack[d]
      BY <1>1, AppendProperties
    <2>2. d \notin 1 .. Len(stack) => Append(stack, f)[d] = f
      BY <1>1, AppendProperties
    <2> QED BY <1>2, <2>1, <2>2 DEF TypeOK, StackOK
  <1> QED BY <1>1, <1>2 DEF StackOK

LEMMA StackDisturbed ==
    ASSUME TypeOK, NEW inst \in Instance, stack' = Disturbed(inst), dedupe' = dedupe
    PROVE  StackOK'
  <1>1. Disturbed(inst) \in Seq(Frame) /\ Len(Disturbed(inst)) = Len(stack)
    BY DisturbedProperties
  <1>2. ASSUME NEW d \in 1 .. Len(stack), Disturbed(inst)[d].inside \/ ~dedupe
        PROVE  Disturbed(inst)[d].i >= 1
    <2>1. Disturbed(inst)[d].i = stack[d].i /\ Disturbed(inst)[d].inside = stack[d].inside
      BY DisturbedProperties
    <2> QED BY <1>2, <2>1 DEF TypeOK, StackOK
  <1> QED BY <1>1, <1>2 DEF StackOK

LEMMA TypeInit == Init => TypeOK
  BY MultiStreamAssumption DEF Init, TypeOK, StackOK, Entry, Frame

\* Every action keeps the types.
LEMMA TypeStep ==
    ASSUME TypeOK, [Next]_vars
    PROVE  TypeOK'
  <1> USE MultiStreamAssumption
  <1>1. ASSUME NEW inst \in Alive, NEW s \in Stream, NEW level \in StreamLevels,
               AddStream(inst, s, level)
        PROVE  TypeOK'
    <2>1. inst \in Instance /\ held[inst] \in Seq(Entry)
      BY DEF TypeOK, Alive
    <2>2. PICK p \in 1 .. (Len(held[inst]) + 1) :
             held' = [held EXCEPT ![inst] = InsertAt(held[inst], p,
                         [stream |-> s, level |-> level, id |-> lastId + 1])]
      BY <1>1 DEF AddStream
    <2> DEFINE e == [stream |-> s, level |-> level, id |-> lastId + 1]
    <2>3. e \in Entry
      BY DEF Entry, Level, TypeOK
    <2> HIDE DEF e
    <2>4. InsertAt(held[inst], p, e) \in Seq(Entry) /\ Len(InsertAt(held[inst], p, e)) >= 1
      BY <2>1, <2>3, InsertAtProperties
    <2>5. held' \in [Instance -> Seq(Entry)] /\ held'[inst] = InsertAt(held[inst], p, e)
      BY <2>1, <2>2, <2>4 DEF TypeOK, e
    <2>6. held'[inst][1] \in Entry
      BY <2>4, <2>5
    <2>7. minLevel' \in [Instance -> Int \cup {NotANumber}]
      <3>1. held'[inst][1].level \in Int \cup {NotANumber}
        BY <2>6, LevelIsNumber
      <3>2. minLevel' = [minLevel EXCEPT ![inst] = held'[inst][1].level]
        BY <1>1 DEF AddStream
      <3> QED BY <2>1, <3>1, <3>2 DEF TypeOK
    <2>8. StackOK'
      BY <1>1, <2>1, StackDisturbed DEF AddStream
    <2> QED BY <1>1, <2>5, <2>7, <2>8 DEF AddStream, TypeOK, destinations
  <1>2. ASSUME NEW inst \in Alive, NEW id \in Ids, RemoveStream(inst, id)
        PROVE  TypeOK'
    <2>1. inst \in Instance /\ held[inst] \in Seq(Entry)
      BY DEF TypeOK, Alive
    <2>2. PICK i \in 1 .. Len(held[inst]) :
             held' = [held EXCEPT ![inst] = RemoveAt(held[inst], i)]
      BY <1>2 DEF RemoveStream
    <2>3. RemoveAt(held[inst], i) \in Seq(Entry)
      BY <2>1, RemoveAtProperties
    <2>4. held' \in [Instance -> Seq(Entry)]
      BY <2>1, <2>2, <2>3 DEF TypeOK
    <2>5. held'[inst] # << >> => held'[inst][1] \in Entry
      BY <2>1, <2>4, EmptySeq
    <2>6. minLevel' \in [Instance -> Int \cup {NotANumber}]
      <3> DEFINE m == IF held'[inst] = << >> THEN -1 ELSE held'[inst][1].level
      <3>1. m \in Int \cup {NotANumber}
        BY <2>5, LevelIsNumber
      <3>2. minLevel' = [minLevel EXCEPT ![inst] = m]
        BY <1>2 DEF RemoveStream
      <3> HIDE DEF m
      <3> QED BY <2>1, <3>1, <3>2 DEF TypeOK
    <2>7. StackOK'
      BY <1>2, <2>1, StackDisturbed DEF RemoveStream
    <2> QED BY <1>2, <2>4, <2>6, <2>7 DEF RemoveStream, TypeOK, destinations
  <1>3. ASSUME NEW inst \in Alive, NEW c \in Instance, NEW level \in CloneLevels,
               Clone(inst, c, level)
        PROVE  TypeOK'
    <2>1. inst \in Instance /\ held[inst] \in Seq(Entry) /\ Len(held[inst]) \in Nat
      BY DEF TypeOK, Alive
    <2>2. \A i \in 1 .. Len(held[inst]) :
             [stream |-> held[inst][i].stream, level |-> level, id |-> Absent] \in Entry
      <3>1. \A i \in 1 .. Len(held[inst]) : held[inst][i] \in Entry
        BY <2>1
      <3>2. level \in Level
        BY DEF Level
      <3> QED BY <3>1, <3>2 DEF Entry
    <2>3. held' \in [Instance -> Seq(Entry)]
      BY <1>3, <2>1, <2>2 DEF Clone, TypeOK
    <2> QED BY <1>3, <2>3 DEF Clone, TypeOK, StackOK, Alive, destinations
  <1>4. ASSUME NEW inst \in Alive, FlushSync(inst)
        PROVE  TypeOK'
    BY <1>4 DEF FlushSync, TypeOK, StackOK, arrays
  <1>5. ASSUME NEW inst \in Alive, End(inst)
        PROVE  TypeOK'
    <2>1. \A i \in 1 .. Len(held[inst]) : held[inst][i].stream \in Stream
      <3>1. held[inst] \in Seq(Entry)
        BY DEF TypeOK, Alive
      <3>2. \A i \in 1 .. Len(held[inst]) : held[inst][i] \in Entry
        BY <3>1
      <3> QED BY <3>2 DEF Entry
    <2> QED BY <1>5, <2>1 DEF End, TypeOK, StackOK, arrays
  <1>6. ASSUME NEW inst \in Alive, NEW level \in LineLevels, Write(inst, level)
        PROVE  TypeOK'
    <2> DEFINE f == [inst |-> inst, line |-> lines + 1, level |-> level,
                     i |-> IF dedupe THEN Len(held[inst]) ELSE 1,
                     recordedLevel |-> 0, inside |-> FALSE,
                     start |-> held[inst], sent |-> {}, calm |-> TRUE]
    <2>1. inst \in Instance /\ held[inst] \in Seq(Entry) /\ Len(held[inst]) \in Nat
      BY DEF TypeOK, Alive
    <2>2. f \in Frame /\ (f.inside \/ ~dedupe => f.i >= 1)
      BY <2>1 DEF Frame, TypeOK
    <2>3. stack' = Append(stack, f) /\ dedupe' = dedupe
      BY <1>6 DEF Write
    <2> HIDE DEF f
    <2>4. StackOK'
      BY <2>2, <2>3, StackPushed
    <2> QED BY <1>6, <2>1, <2>4 DEF Write, SetMetadata, TypeOK, arrays, destinations
  <1>7. CASE Return \/ TypeError \/ StreamThrows
    <2>1. stack # << >> /\ stack' = Pop /\ dedupe' = dedupe
      BY <1>7 DEF Return, TypeError, StreamThrows, AtLoop
    <2>2. StackOK'
      BY <2>1, StackPopped
    <2>3. dirty' \subseteq Stream
      BY <1>7 DEF Return, TypeError, StreamThrows, TypeOK, destinations
    <2> QED BY <1>7, <2>2, <2>3 DEF Return, TypeError, StreamThrows, TypeOK, arrays, destinations
  <1>8. CASE Skip
    <2>1. Top \in Frame /\ Top.i >= 1 /\ NextIndex(Top) \in Nat /\ dedupe /\ stack # << >>
      BY <1>8, TopProperties DEF Skip, AtLoop, LoopGoesOn, NextIndex, Frame
    <2> DEFINE n == NextIndex(Top)
               f == [Top EXCEPT !.i = n]
    <2>4. stack' = SetTop(f) /\ dedupe' = dedupe /\ n \in Nat
      BY <1>8, <2>1 DEF Skip
    <2> HIDE DEF n
    <2>3. f \in Frame /\ f.inside = FALSE
      BY <1>8, <2>1, <2>4, FrameUpdates DEF Skip, AtLoop, Frame
    <2> HIDE DEF f
    <2>5. StackOK'
      BY <2>1, <2>3, <2>4, StackTopSet
    <2> QED BY <1>8, <2>5 DEF Skip, TypeOK, arrays, destinations
  <1>9. CASE Deliver
    <2>1. Top \in Frame /\ stack # << >>
      BY <1>9, TopProperties DEF Deliver, AtLoop
    <2>2. Top.i >= 1 /\ Dest \in Entry
      BY <1>9, <2>1, DestProperties DEF Deliver
    <2> DEFINE r == IF dedupe THEN Dest.level ELSE Top.recordedLevel
               x == [at |-> Top.i, id |-> Dest.id]
               f == [Top EXCEPT !.inside = TRUE, !.sent = Top.sent \cup {x}, !.recordedLevel = r]
    <2>3. r \in Level \cup {0} /\ x \in [at : Nat, id : Nat \cup {Absent}]
      BY <2>1, <2>2 DEF Frame, Entry
    <2>4. stack' = SetTop(f) /\ dedupe' = dedupe
      BY <1>9 DEF Deliver
    <2> HIDE DEF r, x
    <2>5. f \in Frame
      BY <2>1, <2>3, FrameUpdates
    <2>6. f.i = Top.i
      BY <2>1 DEF Frame
    <2> HIDE DEF f
    <2>7. StackOK'
      BY <2>1, <2>2, <2>4, <2>5, <2>6, StackTopSet
    <2>8. dirty' \subseteq Stream
      BY <1>9, <2>2 DEF Deliver, TypeOK, Entry
    <2> QED BY <1>9, <2>7, <2>8 DEF Deliver, TypeOK, arrays
  <1>11. CASE StreamReturns
    <2>1. Top \in Frame /\ Top.i >= 1 /\ stack # << >>
      BY <1>11, TopProperties DEF StreamReturns, TypeOK, StackOK, Top
    <2>2. NextIndex(Top) \in Nat /\ (~dedupe => NextIndex(Top) >= 1)
      BY <2>1 DEF NextIndex, Frame
    <2> DEFINE n == NextIndex(Top)
               f == [Top EXCEPT !.inside = FALSE, !.i = n]
    <2>4. stack' = SetTop(f) /\ dedupe' = dedupe /\ n \in Nat /\ (~dedupe => n >= 1)
      BY <1>11, <2>2 DEF StreamReturns
    <2> HIDE DEF n
    <2>3. f \in Frame /\ f.i = n /\ f.inside = FALSE
      BY <2>1, <2>4, FrameUpdates, ZenonT(60) DEF Frame
    <2> HIDE DEF f
    <2>5. StackOK'
      BY <2>1, <2>2, <2>3, <2>4, StackTopSet
    <2> QED BY <1>11, <2>5 DEF StreamReturns, TypeOK, arrays, destinations
  <1>13. ASSUME NEW s \in Stream, Open(s) \/ Drain(s)
         PROVE  TypeOK'
    BY <1>13 DEF Open, Drain, TypeOK, StackOK, arrays
  <1>14. CASE UNCHANGED vars
    BY <1>14 DEF vars, TypeOK, StackOK
  <1> QED BY <1>1, <1>2, <1>3, <1>4, <1>5, <1>6, <1>7, <1>8, <1>9, <1>11,
             <1>13, <1>14 DEF Next

\* Every reachable state of multistream.js has the declared types.
THEOREM TypeCorrect == Spec => []TypeOK
  BY TypeInit, TypeStep, PTL DEF Spec

-----------------------------------------------------------------------------
(* Order *)

\* Every action keeps the arrays sorted and minLevel at their first level.
LEMMA OrderStep ==
    ASSUME TypeOK, OrderedByLevel, [Next]_vars
    PROVE  OrderedByLevel'
  <1> USE MultiStreamAssumption
  <1>1. ASSUME NEW inst \in Alive, NEW s \in Stream, NEW level \in StreamLevels,
               AddStream(inst, s, level)
        PROVE  OrderedByLevel'
    <2> DEFINE e == [stream |-> s, level |-> level, id |-> lastId + 1]
    <2>1. inst \in Instance /\ held[inst] \in Seq(Entry) /\ Sorted(held[inst])
      BY DEF TypeOK, Alive, OrderedByLevel
    <2>2. e \in Entry /\ e.level = level /\ level \in Nat
      BY DEF Entry, Level, TypeOK
    <2>3. PICK p \in 1 .. (Len(held[inst]) + 1) :
             /\ IsSortedPlace(held[inst], level, p)
             /\ held' = [held EXCEPT ![inst] = InsertAt(held[inst], p, e)]
      BY <1>1 DEF AddStream
    <2>4. \A i \in 1 .. Len(held[inst]) : held[inst][i].level \in Nat
      BY <1>1 DEF AddStream
    <2> HIDE DEF e
    <2>5. Sorted(InsertAt(held[inst], p, e))
      BY <2>1, <2>2, <2>3, <2>4, InsertKeepsSorted
    <2>6. \A a \in Instance : held'[a] = IF a = inst THEN InsertAt(held[inst], p, e) ELSE held[a]
      BY <2>1, <2>3 DEF TypeOK
    <2>7. \A a \in Instance :
             minLevel'[a] = IF a = inst THEN held'[inst][1].level ELSE minLevel[a]
      BY <1>1, <2>1 DEF AddStream, TypeOK
    <2>8. Alive' = Alive /\ Alive \subseteq Instance
      BY <1>1 DEF AddStream, Alive, TypeOK
    <2> QED BY <2>5, <2>6, <2>7, <2>8 DEF OrderedByLevel
  <1>2. ASSUME NEW inst \in Alive, NEW id \in Ids, RemoveStream(inst, id)
        PROVE  OrderedByLevel'
    <2>1. inst \in Instance /\ held[inst] \in Seq(Entry) /\ Sorted(held[inst])
      BY DEF TypeOK, Alive, OrderedByLevel
    <2>2. PICK i \in 1 .. Len(held[inst]) :
             held' = [held EXCEPT ![inst] = RemoveAt(held[inst], i)]
      BY <1>2 DEF RemoveStream
    <2>3. Sorted(RemoveAt(held[inst], i))
      BY <2>1, RemoveKeepsSorted
    <2>4. \A a \in Instance : held'[a] = IF a = inst THEN RemoveAt(held[inst], i) ELSE held[a]
      BY <2>1, <2>2 DEF TypeOK
    <2>5. \A a \in Instance :
             minLevel'[a] = IF a = inst
                            THEN IF held'[inst] = << >> THEN -1 ELSE held'[inst][1].level
                            ELSE minLevel[a]
      BY <1>2, <2>1 DEF RemoveStream, TypeOK
    <2>6. Alive' = Alive /\ Alive \subseteq Instance
      BY <1>2 DEF RemoveStream, Alive, TypeOK
    <2> QED BY <2>3, <2>4, <2>5, <2>6 DEF OrderedByLevel
  <1>3. ASSUME NEW inst \in Alive, NEW c \in Instance, NEW level \in CloneLevels,
               Clone(inst, c, level)
        PROVE  OrderedByLevel'
    <2> DEFINE es == [i \in 1 .. Len(held[inst]) |->
                         [stream |-> held[inst][i].stream, level |-> level, id |-> Absent]]
    <2>1. held[inst] \in Seq(Entry) /\ Len(held[inst]) \in Nat
      BY DEF TypeOK, Alive
    <2>2. Len(es) = Len(held[inst]) /\ \A i \in 1 .. Len(es) : es[i].level = level
      BY <2>1
    <2>3. \A a \in Instance : /\ held'[a] = IF a = c THEN es ELSE held[a]
                              /\ minLevel'[a] = IF a = c THEN level ELSE minLevel[a]
      BY <1>3 DEF Clone, TypeOK
    <2>4. Alive' = Alive \cup {c} /\ Alive \subseteq Instance
      BY <1>3 DEF Clone, Alive, TypeOK
    <2>5. es # << >> => 1 \in 1 .. Len(es)
      BY <2>1, <2>2
    <2> HIDE DEF es
    <2>6. Sorted(es)
      BY <2>2 DEF Sorted, AtMost
    <2>7. es # << >> => es[1].level = level
      BY <2>2, <2>5
    <2> QED BY <2>3, <2>4, <2>6, <2>7 DEF OrderedByLevel
  <1>4. CASE UNCHANGED <<held, minLevel, clones>>
    BY <1>4 DEF OrderedByLevel, Alive
  <1>5. ASSUME NEW inst \in Alive,
               FlushSync(inst) \/ End(inst) \/ \E level \in LineLevels : Write(inst, level)
        PROVE  OrderedByLevel'
    BY <1>5, <1>4 DEF FlushSync, End, Write, arrays
  <1>6. CASE Return \/ Skip \/ Deliver \/ TypeError \/ StreamReturns \/ StreamThrows
    BY <1>6, <1>4 DEF Return, Skip, Deliver, TypeError, StreamReturns, StreamThrows, arrays
  <1>7. CASE (\E s \in Stream : Open(s) \/ Drain(s)) \/ UNCHANGED vars
    BY <1>7, <1>4 DEF Open, Drain, arrays, vars
  <1> QED BY <1>1, <1>2, <1>3, <1>5, <1>6, <1>7 DEF Next

\* The arrays of a multistream and of its clones are always sorted by level and
\* minLevel is the level of the first entry, so the early exit of write skips
\* streams the line is not for and no other.
THEOREM OrderedAlways == Spec => []OrderedByLevel
  <1>1. Init => OrderedByLevel
    <2>1. Init => \A inst \in Alive : held[inst] = << >>
      BY MultiStreamAssumption DEF Init, Alive
    <2> QED BY <2>1 DEF OrderedByLevel, Sorted
  <1>2. TypeOK /\ OrderedByLevel /\ [Next]_vars => OrderedByLevel'
    BY OrderStep
  <1> QED BY <1>1, <1>2, TypeCorrect, PTL DEF Spec

-----------------------------------------------------------------------------
(* Fan-out *)

\* A loop that ends has written to every stream the line is for, as the array is
\* sorted: without dedupe it ends behind the last one or at one above the level ...
LEMMA ReturnReachesAll ==
    ASSUME NEW f \in Frame, Sorted(f.start), Reached(f, FALSE), ~f.inside,
           f.i =< Len(f.start) => ~AtMost(f.start[f.i].level, f.level)
    PROVE  At(f.sent) = Targets(f.start, f.level, FALSE)
  <1> DEFINE es == f.start
             n == Len(es)
             at == At(f.sent)
  <1>1. es \in Seq(Entry) /\ n \in Nat /\ f.i \in Nat /\ f.i >= 1 /\ f.i - 1 =< n
    BY DEF Frame, Reached
  <1>2. at = 1 .. (f.i - 1) /\ \A j \in at : AtMost(es[j].level, f.level)
    BY DEF Reached
  <1>3. Sorted(es) /\ (f.i =< n => ~AtMost(es[f.i].level, f.level))
    OBVIOUS
  <1> HIDE DEF es, n, at
  <1>4. ASSUME NEW j \in 1 .. n, AtMost(es[j].level, f.level), j >= f.i
        PROVE  FALSE
    <2>1. f.i \in 1 .. n /\ f.i =< j
      BY <1>1, <1>4
    <2>2. es[j].level \in Nat
      BY <1>4 DEF AtMost
    <2>3. AtMost(es[f.i].level, es[j].level)
      BY <1>3, <2>1, <2>2 DEF Sorted, n
    <2>4. AtMost(es[f.i].level, f.level)
      BY <2>3, <1>4 DEF AtMost
    <2> QED BY <2>1, <2>4, <1>3
  <1>5. at = {j \in 1 .. n : AtMost(es[j].level, f.level)}
    BY <1>1, <1>2, <1>4
  <1> QED BY <1>5 DEF Targets, es, n, at

\* ... and with dedupe before the first one or at one of a lower level.
LEMMA ReturnReachesOneLevel ==
    ASSUME NEW f \in Frame, Sorted(f.start), Reached(f, TRUE), ~f.inside,
           f.i >= 1 => /\ AtMost(f.start[f.i].level, f.level)
                       /\ f.recordedLevel # 0
                       /\ f.recordedLevel # f.start[f.i].level
    PROVE  At(f.sent) = Targets(f.start, f.level, TRUE)
  <1> DEFINE es == f.start
             n == Len(es)
             at == At(f.sent)
             eligible == {j \in 1 .. n : AtMost(es[j].level, f.level)}
             rec == f.recordedLevel
             i == f.i
  <1>1. es \in Seq(Entry) /\ n \in Nat /\ i \in Nat /\ i =< n
    BY DEF Frame, Reached
  <1>2. /\ at = {j \in (i + 1) .. n : AtMost(es[j].level, f.level)}
        /\ \A j \in at : es[j].level = rec
        /\ at = {} => rec = 0
    BY DEF Reached
  <1>3. /\ Sorted(es)
        /\ i >= 1 => AtMost(es[i].level, f.level) /\ rec # 0 /\ rec # es[i].level
    OBVIOUS
  <1>4. Targets(f.start, f.level, TRUE) =
           {j \in eligible : \A k \in eligible : es[k].level =< es[j].level}
    BY DEF Targets
  <1> HIDE DEF es, at, rec, i
  <1>5. \A j \in eligible : es[j].level \in Nat
    BY DEF AtMost
  <1>6. at \subseteq eligible
    BY <1>1, <1>2
  <1>7. CASE i = 0
    <2>1. at = eligible
      BY <1>1, <1>2, <1>7
    <2>2. \A j, k \in eligible : es[k].level =< es[j].level
      BY <2>1, <1>2, <1>5
    <2> QED BY <2>1, <2>2, <1>4 DEF at
  <1>8. CASE i >= 1
    <2>1. i \in 1 .. n /\ es[i].level \in Nat /\ AtMost(es[i].level, f.level)
      BY <1>1, <1>3, <1>8 DEF AtMost
    <2>2. \A j, k \in 1 .. n : j =< k => AtMost(es[j].level, es[k].level)
      BY <1>3, <2>1 DEF Sorted
    <2>3. PICK k0 \in at : TRUE
      BY <1>2, <1>3, <1>8
    <2>4. k0 \in eligible /\ es[k0].level = rec /\ rec \in Nat /\ k0 \in (i + 1) .. n
      BY <2>3, <1>2, <1>5, <1>6
    <2>5. es[i].level < rec
      <3>1. AtMost(es[i].level, es[k0].level)
        BY <1>1, <2>1, <2>2, <2>4
      <3> QED BY <3>1, <2>1, <2>4, <1>3, <1>8 DEF AtMost
    <2>6. ASSUME NEW j \in eligible, j \notin at
          PROVE  es[j].level < rec
      <3>1. j \in 1 .. n /\ j =< i
        BY <2>6, <1>1, <1>2
      <3>2. AtMost(es[j].level, es[i].level)
        BY <3>1, <2>1, <2>2
      <3> QED BY <3>2, <2>1, <2>4, <2>5 DEF AtMost
    <2> HIDE DEF eligible
    <2>7. ASSUME NEW j \in at
          PROVE  \A k \in eligible : es[k].level =< es[j].level
      BY <1>2, <1>5, <2>4, <2>6
    <2>8. ASSUME NEW j \in eligible, j \notin at
          PROVE  ~ \A k \in eligible : es[k].level =< es[j].level
      BY <1>5, <2>4, <2>6, <2>8
    <2> QED BY <1>4, <1>6, <2>7, <2>8 DEF at
  <1>9. i = 0 \/ i >= 1
    BY <1>1
  <1> QED BY <1>7, <1>8, <1>9

\* One turn of the loop keeps what a frame has reached: the three ways it moves.
LEMMA SkipReaches ==
    ASSUME NEW f \in Frame, NEW g \in Frame, Reached(f, TRUE), ~f.inside,
           f.i \in 1 .. Len(f.start), ~AtMost(f.start[f.i].level, f.level),
           g = [f EXCEPT !.i = f.i - 1]
    PROVE  Reached(g, TRUE)
  <1>1. /\ g.inside = FALSE /\ g.i = f.i - 1 /\ g.start = f.start /\ g.sent = f.sent
        /\ g.level = f.level /\ g.recordedLevel = f.recordedLevel /\ f.i \in Nat
    BY DEF Frame
  <1> DEFINE es == f.start
             n == Len(es)
             i == f.i
             at == At(f.sent)
  <1>2. n \in Nat /\ i \in 1 .. n /\ i - 1 + 1 = i
    BY DEF Frame
  <1>3. /\ at = {j \in (i + 1) .. n : AtMost(es[j].level, f.level)}
        /\ \A j \in at : es[j].level = f.recordedLevel
        /\ at = {} => f.recordedLevel = 0
    BY DEF Reached
  <1>4. ~AtMost(es[i].level, f.level)
    OBVIOUS
  <1>5. at = {j \in i .. n : AtMost(es[j].level, f.level)}
    <2> HIDE DEF es, n, i, at
    <2> QED BY <1>2, <1>3, <1>4
  <1> QED BY <1>1, <1>2, <1>3, <1>5 DEF Reached

LEMMA AtOfUnion ==
    ASSUME NEW S, NEW x
    PROVE  At(S \cup {x}) = At(S) \cup {x.at}
  BY DEF At

LEMMA DeliverReaches ==
    ASSUME NEW f \in Frame, NEW g \in Frame, NEW oneLevel \in BOOLEAN, NEW id,
           Reached(f, oneLevel), Sorted(f.start), ~f.inside,
           f.i \in 1 .. Len(f.start), AtMost(f.start[f.i].level, f.level),
           f.recordedLevel = 0 \/ f.recordedLevel = f.start[f.i].level,
           g.inside = TRUE, g.i = f.i, g.start = f.start, g.level = f.level,
           g.sent = f.sent \cup {[at |-> f.i, id |-> id]},
           g.recordedLevel = IF oneLevel THEN f.start[f.i].level ELSE f.recordedLevel
    PROVE  Reached(g, oneLevel)
  <1> DEFINE es == f.start
             n == Len(es)
             i == f.i
             at == At(f.sent)
             rec == f.recordedLevel
  <1>1. n \in Nat /\ i \in 1 .. n
    BY DEF Frame
  <1>2. At(g.sent) = at \cup {i}
    <2> DEFINE x == [at |-> f.i, id |-> id]
    <2>1. x.at = i /\ g.sent = f.sent \cup {x}
      OBVIOUS
    <2> HIDE DEF x
    <2>2. At(f.sent \cup {x}) = At(f.sent) \cup {x.at}
      BY AtOfUnion
    <2> QED BY <2>1, <2>2
  <1>3. /\ AtMost(es[i].level, f.level) /\ Sorted(es)
        /\ rec = 0 \/ rec = es[i].level
    OBVIOUS
  <1>4. es[i].level \in Nat
    BY <1>3 DEF AtMost
  <1>5. \A j, k \in 1 .. n : j =< k => AtMost(es[j].level, es[k].level)
    BY <1>1, <1>3, <1>4 DEF Sorted
  <1>6. CASE oneLevel
    <2>1. /\ at = {j \in (i + 1) .. n : AtMost(es[j].level, f.level)}
          /\ \A j \in at : es[j].level = rec
      BY <1>6 DEF Reached
    <2> HIDE DEF es, n, i, at, rec
    <2>2. at \cup {i} = {j \in i .. n : AtMost(es[j].level, f.level)}
      BY <1>1, <1>3, <2>1
    <2>3. ASSUME NEW j \in at
          PROVE  es[j].level = es[i].level
      <3>1. j \in 1 .. n /\ i =< j
        BY <1>1, <2>1
      <3>2. AtMost(es[i].level, es[j].level)
        BY <1>1, <1>5, <3>1
      <3> QED BY <1>3, <1>4, <2>1, <3>2 DEF AtMost
    <2>4. g.i >= 1 /\ g.i =< Len(g.start)
      BY <1>1 DEF n, i, es
    <2>5. At(g.sent) = {j \in g.i .. Len(g.start) : AtMost(g.start[j].level, g.level)}
      BY <1>2, <2>2 DEF es, n, i
    <2>6. \A j \in At(g.sent) : g.start[j].level = g.recordedLevel
      BY <1>2, <1>6, <2>3 DEF es, i
    <2>7. At(g.sent) # {}
      BY <1>2
    <2> QED BY <1>6, <2>4, <2>5, <2>6, <2>7 DEF Reached
  <1>7. CASE ~oneLevel
    <2>1. at = 1 .. (i - 1) /\ rec = 0 /\ \A j \in at : AtMost(es[j].level, f.level)
      BY <1>7 DEF Reached
    <2> HIDE DEF es, n, i, at, rec
    <2>2. at \cup {i} = 1 .. i
      BY <1>1, <2>1
    <2>3. g.i >= 1 /\ g.i =< Len(g.start)
      BY <1>1 DEF n, i, es
    <2>4. At(g.sent) = 1 .. g.i
      BY <1>2, <2>2 DEF i
    <2>5. \A j \in At(g.sent) : AtMost(g.start[j].level, g.level)
      BY <1>2, <1>3, <2>1 DEF es, i
    <2>6. g.recordedLevel = 0
      BY <1>7, <2>1 DEF rec
    <2> QED BY <1>7, <2>3, <2>4, <2>5, <2>6 DEF Reached
  <1> QED BY <1>6, <1>7

LEMMA StreamReturnReachesOneLevel ==
    ASSUME NEW f \in Frame, NEW g \in Frame, Reached(f, TRUE), f.inside, f.i >= 1,
           g.inside = FALSE, g.i = f.i - 1, g.start = f.start, g.level = f.level,
           g.sent = f.sent, g.recordedLevel = f.recordedLevel
    PROVE  Reached(g, TRUE)
  <1>1. f.i \in Nat /\ Len(f.start) \in Nat /\ f.i - 1 + 1 = f.i
    BY DEF Frame
  <1> QED BY <1>1 DEF Reached

LEMMA StreamReturnReachesAll ==
    ASSUME NEW f \in Frame, NEW g \in Frame, Reached(f, FALSE), f.inside, f.i >= 1,
           g.inside = FALSE, g.i = f.i + 1, g.start = f.start, g.level = f.level,
           g.sent = f.sent, g.recordedLevel = f.recordedLevel
    PROVE  Reached(g, FALSE)
  <1>1. f.i \in Nat /\ Len(f.start) \in Nat /\ f.i + 1 - 1 = f.i
    BY DEF Frame
  <1> QED BY <1>1 DEF Reached

\* A frame whose array stays as it is stays all right.
LEMMA FrameStays ==
    ASSUME NEW f, FrameOK(f, dedupe, held, Alive),
           Alive \subseteq Alive', f.calm => held'[f.inst] = held[f.inst], dedupe' = dedupe
    PROVE  FrameOK(f, dedupe', held', Alive')
  BY DEF FrameOK

\* The frames below the top are not touched by a write.
LEMMA FramesPopped ==
    ASSUME TypeOK, FramesOK, stack # << >>, stack' = Pop, dedupe' = dedupe,
           held' = held, Alive' = Alive
    PROVE  FramesOK'
  <1>1. /\ Len(Pop) = Len(stack) - 1 /\ Len(stack) \in Nat
        /\ \A d \in 1 .. (Len(stack) - 1) : Pop[d] = stack[d]
    BY TopProperties
  <1>2. ASSUME NEW d \in 1 .. Len(Pop)
        PROVE  FrameOK(Pop[d], dedupe', held', Alive')
    <2>1. d \in 1 .. Len(stack) /\ Pop[d] = stack[d]
      BY <1>1
    <2> QED BY <2>1 DEF FramesOK
  <1> QED BY <1>2 DEF FramesOK

LEMMA FramesTopSet ==
    ASSUME TypeOK, FramesOK, stack # << >>, NEW f \in Frame,
           FrameOK(f, dedupe, held, Alive), stack' = SetTop(f), dedupe' = dedupe,
           held' = held, Alive' = Alive
    PROVE  FramesOK'
  <1>1. /\ Len(SetTop(f)) = Len(stack)
        /\ \A d \in 1 .. Len(stack) : SetTop(f)[d] = IF d = Len(stack) THEN f ELSE stack[d]
    BY TopProperties
  <1>2. ASSUME NEW d \in 1 .. Len(SetTop(f))
        PROVE  FrameOK(SetTop(f)[d], dedupe', held', Alive')
    <2>1. d \in 1 .. Len(stack) /\ (SetTop(f)[d] = f \/ SetTop(f)[d] = stack[d])
      BY <1>1
    <2> QED BY <2>1 DEF FramesOK
  <1> QED BY <1>2 DEF FramesOK

LEMMA FramesDisturbed ==
    ASSUME TypeOK, FramesOK, NEW inst \in Instance, stack' = Disturbed(inst),
           \A a \in Instance \ {inst} : held'[a] = held[a],
           dedupe' = dedupe, Alive' = Alive
    PROVE  FramesOK'
  <1>1. Len(Disturbed(inst)) = Len(stack)
    BY DisturbedProperties
  <1>2. ASSUME NEW d \in 1 .. Len(stack)
        PROVE  FrameOK(Disturbed(inst)[d], dedupe', held', Alive')
    <2> DEFINE f == stack[d]
               g == Disturbed(inst)[d]
    <2>1. /\ g.inst = f.inst /\ g.line = f.line /\ g.level = f.level
          /\ g.i = f.i /\ g.recordedLevel = f.recordedLevel
          /\ g.inside = f.inside /\ g.start = f.start /\ g.sent = f.sent
          /\ g.calm => f.calm /\ f.inst # inst
      BY DisturbedProperties
    <2>2. FrameOK(f, dedupe, held, Alive) /\ Alive \subseteq Instance
      BY MultiStreamAssumption DEF FramesOK, Alive, TypeOK
    <2> HIDE DEF f, g
    <2>3. Reached(f, dedupe) => Reached(g, dedupe)
      BY <2>1 DEF Reached
    <2>4. FrameOK(g, dedupe', held', Alive')
      BY <2>1, <2>2, <2>3 DEF FrameOK
    <2> QED BY <2>4 DEF g
  <1> QED BY <1>1, <1>2 DEF FramesOK

\* The innermost frame is all right.
LEMMA TopOK ==
    ASSUME TypeOK, FramesOK, stack # << >>
    PROVE  Top \in Frame /\ FrameOK(Top, dedupe, held, Alive) /\ Sorted(Top.start)
  BY TopProperties DEF FramesOK, Top, FrameOK

\* Every action keeps the frames in step with what they have written.
LEMMA FramesStep ==
    ASSUME TypeOK, OrderedByLevel, FramesOK, [Next]_vars
    PROVE  FramesOK'
  <1> USE MultiStreamAssumption
  <1>1. Alive \subseteq Instance
    BY DEF Alive, TypeOK
  <1>2. ASSUME NEW inst \in Alive, NEW s \in Stream, NEW level \in StreamLevels,
               AddStream(inst, s, level)
        PROVE  FramesOK'
    <2>1. PICK es : held' = [held EXCEPT ![inst] = es]
      BY <1>2 DEF AddStream
    <2>2. \A a \in Instance \ {inst} : held'[a] = held[a]
      BY <2>1 DEF TypeOK
    <2> QED BY <1>1, <1>2, <2>2, FramesDisturbed DEF AddStream, Alive
  <1>3. ASSUME NEW inst \in Alive, NEW id \in Ids, RemoveStream(inst, id)
        PROVE  FramesOK'
    <2>1. PICK es : held' = [held EXCEPT ![inst] = es]
      BY <1>3 DEF RemoveStream
    <2>2. \A a \in Instance \ {inst} : held'[a] = held[a]
      BY <2>1 DEF TypeOK
    <2> QED BY <1>1, <1>3, <2>2, FramesDisturbed DEF RemoveStream, Alive
  <1>4. ASSUME NEW inst \in Alive, NEW c \in Instance, NEW level \in CloneLevels,
               Clone(inst, c, level)
        PROVE  FramesOK'
    <2>1. PICK es : held' = [held EXCEPT ![c] = es]
      BY <1>4 DEF Clone
    <2>2. \A a \in Instance \ {c} : held'[a] = held[a]
      BY <2>1 DEF TypeOK
    <2>3. Alive \subseteq Alive' /\ c \notin Alive /\ stack' = stack /\ dedupe' = dedupe
      BY <1>4 DEF Clone, Alive
    <2>4. ASSUME NEW d \in 1 .. Len(stack)
          PROVE  FrameOK(stack[d], dedupe', held', Alive')
      <3>1. FrameOK(stack[d], dedupe, held, Alive)
        BY DEF FramesOK
      <3>2. held'[stack[d].inst] = held[stack[d].inst]
        BY <3>1, <1>1, <2>2, <2>3 DEF FrameOK
      <3> QED BY <3>1, <3>2, <2>3, FrameStays
    <2> QED BY <2>3, <2>4 DEF FramesOK
  <1>5. CASE UNCHANGED <<dedupe, held, clones, stack>>
    BY <1>5 DEF FramesOK, Alive
  <1>6. ASSUME NEW inst \in Alive, FlushSync(inst) \/ End(inst)
        PROVE  FramesOK'
    BY <1>5, <1>6 DEF FlushSync, End, arrays
  <1>7. ASSUME NEW inst \in Alive, NEW level \in LineLevels, Write(inst, level)
        PROVE  FramesOK'
    <2> DEFINE f == [inst |-> inst, line |-> lines + 1, level |-> level,
                     i |-> IF dedupe THEN Len(held[inst]) ELSE 1,
                     recordedLevel |-> 0, inside |-> FALSE,
                     start |-> held[inst], sent |-> {}, calm |-> TRUE]
    <2>1. stack' = Append(stack, f) /\ held' = held /\ dedupe' = dedupe /\ Alive' = Alive
      BY <1>7 DEF Write, arrays, Alive
    <2>2. stack \in Seq(Frame) /\ held[inst] \in Seq(Entry) /\ Len(held[inst]) \in Nat
      BY <1>1 DEF TypeOK, StackOK
    <2>3. /\ f.inst = inst /\ f.i = IF dedupe THEN Len(held[inst]) ELSE 1
          /\ f.recordedLevel = 0 /\ f.inside = FALSE /\ f.start = held[inst] /\ f.sent = {}
      OBVIOUS
    <2> HIDE DEF f
    <2>4. At(f.sent) = {}
      BY <2>3 DEF At
    <2>5. Reached(f, dedupe)
      <3>1. CASE dedupe
        <4>1. f.i = Len(held[inst]) /\ f.start = held[inst] /\ f.inside = FALSE
          BY <2>3, <3>1
        <4>2. At(f.sent) = {j \in (f.i + 1) .. Len(f.start) : AtMost(f.start[j].level, f.level)}
          BY <2>2, <2>4, <4>1
        <4> QED BY <2>2, <2>3, <2>4, <3>1, <4>1, <4>2 DEF Reached
      <3>2. CASE ~dedupe
        <4>1. f.i = 1 /\ f.start = held[inst] /\ f.inside = FALSE
          BY <2>3, <3>2
        <4>2. At(f.sent) = 1 .. (f.i - 1) /\ f.i - 1 =< Len(f.start)
          BY <2>2, <2>4, <4>1
        <4>3. \A j \in At(f.sent) : AtMost(f.start[j].level, f.level)
          BY <2>4
        <4>4. Reached(f, FALSE)
          BY <2>3, <4>1, <4>2, <4>3 DEF Reached
        <4> QED BY <3>2, <4>4 DEF TypeOK
      <3> QED BY <3>1, <3>2
    <2>6. FrameOK(f, dedupe, held, Alive)
      BY <2>3, <2>5 DEF FrameOK, OrderedByLevel
    <2>7. \A d \in 1 .. Len(stack) : Append(stack, f)[d] = stack[d]
      BY <2>2
    <2>8. Append(stack, f)[Len(stack) + 1] = f /\ Len(Append(stack, f)) = Len(stack) + 1
      BY <2>2
    <2>9. ASSUME NEW d \in 1 .. Len(Append(stack, f))
          PROVE  FrameOK(Append(stack, f)[d], dedupe, held, Alive)
      <3>1. d \in 1 .. Len(stack) \/ d = Len(stack) + 1
        BY <2>2, <2>8
      <3> QED BY <3>1, <2>6, <2>7, <2>8 DEF FramesOK
    <2> QED BY <2>1, <2>9 DEF FramesOK
  <1>8. CASE Return \/ TypeError \/ StreamThrows
    BY <1>8, FramesPopped DEF Return, TypeError, StreamThrows, AtLoop, arrays, Alive
  <1>9. CASE Skip
    <2> DEFINE n == NextIndex(Top)
               f == [Top EXCEPT !.i = n]
    <2>1. /\ stack # << >> /\ ~Top.inside /\ dedupe /\ ~Eligible
          /\ LoopGoesOn /\ Top.i =< Len(held[Top.inst]) /\ stack' = SetTop(f)
          /\ dedupe' = dedupe /\ held' = held /\ Alive' = Alive
      BY <1>9 DEF Skip, AtLoop, arrays, Alive
    <2>2. Top \in Frame /\ FrameOK(Top, dedupe, held, Alive)
      BY <2>1, TopOK
    <2>3. Top.i \in 1 .. Len(held[Top.inst]) /\ n = Top.i - 1 /\ n \in Nat
      BY <2>1, DestProperties DEF NextIndex
    <2> HIDE DEF n
    <2>4. f \in Frame
      <3>1. Top \in Frame /\ n \in Nat
        BY <2>2, <2>3
      <3> QED BY <3>1 DEF Frame
    <2>5. Top.calm => Reached(f, TRUE)
      <3> SUFFICES ASSUME Top.calm PROVE Reached(f, TRUE)
        OBVIOUS
      <3>1. Top.start = held[Top.inst] /\ Reached(Top, TRUE)
        BY <2>1, <2>2 DEF FrameOK
      <3>2. ~AtMost(Top.start[Top.i].level, Top.level)
        BY <2>1, <3>1 DEF Eligible, Dest
      <3>3. f = [Top EXCEPT !.i = Top.i - 1]
        BY <2>3
      <3> QED BY <2>1, <2>2, <2>3, <2>4, <3>1, <3>2, <3>3, SkipReaches
    <2>6. f.inst = Top.inst /\ f.start = Top.start /\ f.calm = Top.calm
      BY <2>2 DEF Frame
    <2>7. FrameOK(f, dedupe, held, Alive)
      BY <2>1, <2>2, <2>5, <2>6 DEF FrameOK
    <2> HIDE DEF f
    <2> QED BY <2>1, <2>4, <2>7, FramesTopSet
  <1>10. CASE Deliver
    <2> DEFINE r == IF dedupe THEN Dest.level ELSE Top.recordedLevel
               x == [at |-> Top.i, id |-> Dest.id]
               f == [Top EXCEPT !.inside = TRUE, !.sent = Top.sent \cup {x}, !.recordedLevel = r]
    <2>1. /\ stack # << >> /\ ~Top.inside /\ Eligible /\ ~OtherLevelRecorded
          /\ LoopGoesOn /\ Top.i =< Len(held[Top.inst]) /\ stack' = SetTop(f)
          /\ dedupe' = dedupe /\ held' = held /\ Alive' = Alive
      BY <1>10 DEF Deliver, AtLoop, arrays, Alive
    <2>2. Top \in Frame /\ FrameOK(Top, dedupe, held, Alive)
      BY <2>1, TopOK
    <2>3. Top.i \in 1 .. Len(held[Top.inst]) /\ Dest \in Entry
      BY <2>1, DestProperties
    <2>4. r \in Level \cup {0} /\ x \in [at : Nat, id : Nat \cup {Absent}]
      BY <2>2, <2>3 DEF Frame, Entry
    <2>5. r = IF dedupe THEN Dest.level ELSE Top.recordedLevel
      OBVIOUS
    <2>6. x = [at |-> Top.i, id |-> Dest.id]
      OBVIOUS
    <2> HIDE DEF r, x
    <2>7. f \in Frame
      BY <2>2, <2>4, FrameUpdates
    <2>8. /\ f.inst = Top.inst /\ f.start = Top.start /\ f.calm = Top.calm /\ f.i = Top.i
          /\ f.level = Top.level /\ f.inside = TRUE /\ f.sent = Top.sent \cup {x}
          /\ f.recordedLevel = r
      BY <2>2 DEF Frame
    <2> HIDE DEF f
    <2>9. Top.calm => Reached(f, dedupe)
      <3> SUFFICES ASSUME Top.calm PROVE Reached(f, dedupe)
        OBVIOUS
      <3>1. Top.start = held[Top.inst] /\ Reached(Top, dedupe) /\ Sorted(Top.start)
        BY <2>2 DEF FrameOK
      <3>2. AtMost(Top.start[Top.i].level, Top.level)
        BY <2>1, <3>1 DEF Eligible, Dest
      <3>3. Top.recordedLevel = 0 \/ Top.recordedLevel = Top.start[Top.i].level
        BY <2>1, <3>1 DEF OtherLevelRecorded, Dest
      <3>4. f.recordedLevel = IF dedupe THEN Top.start[Top.i].level ELSE Top.recordedLevel
        BY <2>5, <2>8, <3>1 DEF Dest
      <3>5. f.sent = Top.sent \cup {[at |-> Top.i, id |-> Dest.id]}
        BY <2>6, <2>8
      <3>6. dedupe \in BOOLEAN /\ Top.i \in 1 .. Len(Top.start)
        BY <2>3, <3>1 DEF TypeOK
      <3> QED BY <2>1, <2>2, <2>7, <2>8, <3>1, <3>2, <3>3, <3>4, <3>5, <3>6, DeliverReaches, ZenonT(60)
    <2>10. FrameOK(f, dedupe, held, Alive)
      BY <2>2, <2>8, <2>9 DEF FrameOK
    <2> QED BY <2>1, <2>7, <2>10, FramesTopSet
  <1>11. CASE StreamReturns
    <2> DEFINE n == NextIndex(Top)
               f == [Top EXCEPT !.inside = FALSE, !.i = n]
    <2>1. /\ stack # << >> /\ Top.inside /\ stack' = SetTop(f)
          /\ dedupe' = dedupe /\ held' = held /\ Alive' = Alive
      BY <1>11 DEF StreamReturns, arrays, Alive
    <2>2. Top \in Frame /\ FrameOK(Top, dedupe, held, Alive) /\ Top.i \in Nat /\ Top.i >= 1
      BY <2>1, TopOK, TopProperties DEF TypeOK, StackOK, Top, Frame
    <2>3. n = (IF dedupe THEN Top.i - 1 ELSE Top.i + 1) /\ n \in Nat
      BY <2>2 DEF NextIndex
    <2> HIDE DEF n
    <2>4. f \in Frame
      <3>1. Top \in Frame /\ n \in Nat
        BY <2>2, <2>3
      <3> QED BY <3>1 DEF Frame
    <2>5. /\ f.inst = Top.inst /\ f.start = Top.start /\ f.calm = Top.calm /\ f.i = n
          /\ f.level = Top.level /\ f.inside = FALSE /\ f.sent = Top.sent
          /\ f.recordedLevel = Top.recordedLevel
      BY <2>2 DEF Frame
    <2> HIDE DEF f
    <2>6. Top.calm => Reached(f, dedupe)
      <3> SUFFICES ASSUME Top.calm PROVE Reached(f, dedupe)
        OBVIOUS
      <3>1. Top \in Frame /\ Top.inside /\ Top.i >= 1
        BY <2>1, <2>2
      <3>2. /\ f.inside = FALSE /\ f.start = Top.start /\ f.level = Top.level
            /\ f.sent = Top.sent /\ f.recordedLevel = Top.recordedLevel
        BY <2>5
      <3>3. CASE dedupe
        <4>1. dedupe = TRUE /\ Reached(Top, TRUE) /\ f.i = Top.i - 1
          BY <2>2, <2>3, <2>5, <3>3 DEF FrameOK, TypeOK
        <4>2. Reached(f, TRUE)
          BY <2>4, <3>1, <3>2, <4>1, StreamReturnReachesOneLevel
        <4> QED BY <4>1, <4>2
      <3>4. CASE ~dedupe
        <4>1. dedupe = FALSE /\ Reached(Top, FALSE) /\ f.i = Top.i + 1
          BY <2>2, <2>3, <2>5, <3>4 DEF FrameOK, TypeOK
        <4>2. Reached(f, FALSE)
          BY <2>4, <3>1, <3>2, <4>1, StreamReturnReachesAll
        <4> QED BY <4>1, <4>2
      <3> QED BY <3>3, <3>4
    <2>7. FrameOK(f, dedupe, held, Alive)
      BY <2>2, <2>5, <2>6 DEF FrameOK
    <2> QED BY <2>1, <2>4, <2>7, FramesTopSet
  <1>12. CASE (\E s \in Stream : Open(s) \/ Drain(s)) \/ UNCHANGED vars
    BY <1>5, <1>12 DEF Open, Drain, arrays, vars
  <1> QED BY <1>2, <1>3, <1>4, <1>6, <1>7, <1>8, <1>9, <1>10, <1>11, <1>12 DEF Next

\* A write returns having written to its targets.
LEMMA FanOutStep ==
    ASSUME TypeOK, FramesOK, FanOutExact, [Next]_vars
    PROVE  FanOutExact'
  <1>1. CASE Return
    <2> SUFFICES ASSUME Top.calm
                 PROVE  At(Top.sent) = Targets(Top.start, Top.level, dedupe)
      BY <1>1 DEF Return, FanOutExact
    <2>1. stack # << >> /\ ~Top.inside
      BY <1>1 DEF Return, AtLoop
    <2>2. /\ Top \in Frame /\ Top.start = held[Top.inst]
          /\ Reached(Top, dedupe) /\ Sorted(Top.start) /\ dedupe \in BOOLEAN
      BY <2>1, TopOK DEF FrameOK, TypeOK
    <2>3. LoopGoesOn => /\ Top.i =< Len(Top.start)
                        /\ IF Eligible THEN OtherLevelRecorded ELSE ~dedupe
      BY <1>1, <2>2 DEF Return
    <2>4. Dest = Top.start[Top.i]
      BY <2>2 DEF Dest
    <2>5. CASE dedupe
      <3>1. Top.i >= 1 => /\ AtMost(Top.start[Top.i].level, Top.level)
                          /\ Top.recordedLevel # 0
                          /\ Top.recordedLevel # Top.start[Top.i].level
        BY <2>3, <2>4, <2>5 DEF LoopGoesOn, Eligible, OtherLevelRecorded
      <3> QED BY <2>1, <2>2, <2>5, <3>1, ReturnReachesOneLevel
    <2>6. CASE ~dedupe
      <3>1. Top.recordedLevel = 0
        BY <2>2, <2>6 DEF Reached
      <3>2. Top.i =< Len(Top.start) => ~AtMost(Top.start[Top.i].level, Top.level)
        BY <2>2, <2>3, <2>4, <2>6, <3>1 DEF LoopGoesOn, Eligible, OtherLevelRecorded
      <3> QED BY <2>1, <2>2, <2>6, <3>2, ReturnReachesAll
    <2> QED BY <2>5, <2>6
  <1>2. CASE obs'.kind # "written"
    BY <1>2 DEF FanOutExact
  <1>3. ASSUME NEW inst \in Alive, NEW s \in Stream, NEW level \in StreamLevels,
               AddStream(inst, s, level)
        PROVE  FanOutExact'
    BY <1>2, <1>3 DEF AddStream, Quiet
  <1>4. ASSUME NEW inst \in Alive, NEW id \in Ids, RemoveStream(inst, id)
        PROVE  FanOutExact'
    BY <1>2, <1>4 DEF RemoveStream, Quiet
  <1>5. ASSUME NEW inst \in Alive, NEW c \in Instance, NEW level \in CloneLevels,
               Clone(inst, c, level)
        PROVE  FanOutExact'
    BY <1>2, <1>5 DEF Clone, Quiet
  <1>6. ASSUME NEW inst \in Alive,
               FlushSync(inst) \/ End(inst) \/ \E level \in LineLevels : Write(inst, level)
        PROVE  FanOutExact'
    <2>1. CASE FlushSync(inst)
      BY <1>2, <2>1 DEF FlushSync
    <2>2. CASE End(inst)
      BY <1>2, <2>2 DEF End
    <2>3. CASE \E level \in LineLevels : Write(inst, level)
      BY <1>2, <2>3 DEF Write, Quiet
    <2> QED BY <1>6, <2>1, <2>2, <2>3
  <1>7. CASE Skip \/ Deliver \/ TypeError \/ StreamReturns \/ StreamThrows
    BY <1>2, <1>7 DEF Skip, Deliver, TypeError, StreamReturns, StreamThrows, Quiet
  <1>8. ASSUME NEW s \in Stream, Open(s) \/ Drain(s)
        PROVE  FanOutExact'
    BY <1>2, <1>8 DEF Open, Drain, Quiet
  <1>9. CASE UNCHANGED vars
    BY <1>9 DEF vars, FanOutExact
  <1> QED BY <1>1, <1>3, <1>4, <1>5, <1>6, <1>7, <1>8, <1>9 DEF Next

\* Whatever streams, levels and instances there are, and whatever the streams do
\* inside a write (log again, add, remove or clone): a write that returns, of an
\* array nobody changed meanwhile, called stream.write on every stream the line
\* is for, on no other, and with dedupe only on those of the highest such level.
THEOREM FanOutAlways == Spec => []FanOutExact
  <1>1. Init => FramesOK /\ FanOutExact
    BY DEF Init, FramesOK, FanOutExact, Quiet
  <1>2. TypeOK /\ OrderedByLevel /\ FramesOK /\ FanOutExact /\ [Next]_vars
           => FramesOK' /\ FanOutExact'
    BY FramesStep, FanOutStep
  <1> QED BY <1>1, <1>2, TypeCorrect, OrderedAlways, PTL DEF Spec

-----------------------------------------------------------------------------
(* Ids *)

\* The counter is ahead of every id.
IdsBounded ==
    \A a \in Alive : \A i \in 1 .. Len(held[a]) :
        held[a][i].id # Absent => held[a][i].id =< lastId

\* Every entry of an array of a step, but one with a fresh id or none, is one of
\* the entries before it, and two places never hold the same one.
LEMMA IdsStep ==
    ASSUME TypeOK, IdsBounded, IdsAreUnique, [Next]_vars
    PROVE  IdsBounded' /\ IdsAreUnique'
  <1> USE MultiStreamAssumption
  <1> DEFINE bounded == \A a \in Alive : \A i \in 1 .. Len(held[a]) :
                            held[a][i].id # Absent =>
                                held[a][i].id \in Nat /\ held[a][i].id =< lastId
  <1>1. Alive \subseteq Instance /\ lastId \in Nat
    BY DEF Alive, TypeOK
  <1>2. bounded
    <2>1. \A a \in Alive : \A i \in 1 .. Len(held[a]) : held[a][i].id \in Nat \cup {Absent}
      <3> SUFFICES ASSUME NEW a \in Alive, NEW i \in 1 .. Len(held[a])
                   PROVE  held[a][i].id \in Nat \cup {Absent}
        OBVIOUS
      <3>1. held[a] \in Seq(Entry)
        BY <1>1 DEF TypeOK
      <3>2. held[a][i] \in Entry
        BY <3>1
      <3> QED BY <3>2 DEF Entry
    <2> QED BY <2>1 DEF IdsBounded
  <1>3. ASSUME NEW inst \in Alive, NEW s \in Stream, NEW level \in StreamLevels,
               AddStream(inst, s, level)
        PROVE  IdsBounded' /\ IdsAreUnique'
    <2> DEFINE e == [stream |-> s, level |-> level, id |-> lastId + 1]
    <2>1. inst \in Instance /\ held[inst] \in Seq(Entry) /\ Len(held[inst]) \in Nat
      BY <1>1 DEF TypeOK
    <2>2. PICK p \in 1 .. (Len(held[inst]) + 1) :
             held' = [held EXCEPT ![inst] = InsertAt(held[inst], p, e)]
      BY <1>3 DEF AddStream
    <2>3. e \in Entry /\ e.id = lastId + 1
      BY <1>1 DEF Entry, Level
    <2> DEFINE new == InsertAt(held[inst], p, e)
               was(i) == IF i < p THEN i ELSE i - 1
    <2> HIDE DEF e
    <2>4. /\ Len(new) = Len(held[inst]) + 1
          /\ \A i \in 1 .. Len(new) :
                new[i] = IF i < p THEN held[inst][i] ELSE IF i = p THEN e ELSE held[inst][i - 1]
      BY <2>1, <2>3, InsertAtProperties, SMTT(60)
    <2>5. /\ Alive' = Alive /\ lastId' = lastId + 1
          /\ \A a \in Alive : held'[a] = IF a = inst THEN new ELSE held[a]
      BY <1>1, <1>3, <2>1, <2>2 DEF AddStream, Alive, TypeOK
    <2> HIDE DEF new
    <2>6. \A i \in 1 .. Len(new) : i # p =>
             was(i) \in 1 .. Len(held[inst]) /\ new[i] = held[inst][was(i)]
      BY <2>1, <2>4
    <2>7. \A i, j \in 1 .. Len(new) : i # p /\ j # p /\ was(i) = was(j) => i = j
      BY <2>1, <2>4
    <2>8. new[p].id = lastId + 1 /\ p \in 1 .. Len(new)
      BY <2>1, <2>3, <2>4
    <2> HIDE DEF was
    <2>9. \A i \in 1 .. Len(new) : i # p /\ new[i].id # Absent =>
              new[i].id \in Nat /\ new[i].id =< lastId
      BY <1>2, <2>6
    <2>10. IdsBounded'
      BY <1>1, <1>2, <2>5, <2>8, <2>9, SMTT(30) DEF IdsBounded
    <2>11. ASSUME NEW a \in Alive, NEW b \in Alive, NEW i \in 1 .. Len(held'[a]),
                  NEW j \in 1 .. Len(held'[b]), held'[a][i].id = held'[b][j].id,
                  held'[a][i].id # Absent
           PROVE  a = b /\ i = j
      <3>1. CASE a = inst /\ b = inst
        <4>1. i \in 1 .. Len(new) /\ j \in 1 .. Len(new) /\ new[i].id = new[j].id /\ new[i].id # Absent
          BY <2>5, <2>11, <3>1
        <4>2. i = p <=> j = p
          BY <1>1, <2>8, <2>9, <4>1
        <4>3. ASSUME i # p, j # p PROVE was(i) = was(j)
          <5>1. /\ was(i) \in 1 .. Len(held[inst]) /\ was(j) \in 1 .. Len(held[inst])
                /\ held[inst][was(i)].id = held[inst][was(j)].id
                /\ held[inst][was(i)].id # Absent
            BY <2>6, <4>1, <4>3
          <5> QED BY <5>1 DEF IdsAreUnique
        <4> QED BY <2>7, <3>1, <4>1, <4>2, <4>3
      <3>2. CASE a = inst /\ b # inst
        <4>1. i \in 1 .. Len(new) /\ j \in 1 .. Len(held[b]) /\ new[i].id = held[b][j].id
              /\ new[i].id # Absent
          BY <2>5, <2>11, <3>2
        <4>2. i # p
          BY <1>1, <1>2, <2>8, <4>1
        <4>3. /\ was(i) \in 1 .. Len(held[inst])
              /\ held[inst][was(i)].id = held[b][j].id /\ held[inst][was(i)].id # Absent
          BY <2>6, <4>1, <4>2
        <4> QED BY <3>2, <4>1, <4>3 DEF IdsAreUnique
      <3>3. CASE a # inst /\ b = inst
        <4>1. i \in 1 .. Len(held[a]) /\ j \in 1 .. Len(new) /\ new[j].id = held[a][i].id
              /\ new[j].id # Absent
          BY <2>5, <2>11, <3>3
        <4>2. j # p
          BY <1>1, <1>2, <2>8, <4>1
        <4>3. /\ was(j) \in 1 .. Len(held[inst])
              /\ held[inst][was(j)].id = held[a][i].id /\ held[inst][was(j)].id # Absent
          BY <2>6, <4>1, <4>2
        <4> QED BY <3>3, <4>1, <4>3 DEF IdsAreUnique
      <3>4. CASE a # inst /\ b # inst
        BY <2>5, <2>11, <3>4, SMTT(30) DEF IdsAreUnique
      <3> QED BY <3>1, <3>2, <3>3, <3>4
    <2> QED BY <2>5, <2>10, <2>11 DEF IdsAreUnique
  <1>4. ASSUME NEW inst \in Alive, NEW id \in Ids, RemoveStream(inst, id)
        PROVE  IdsBounded' /\ IdsAreUnique'
    <2>1. inst \in Instance /\ held[inst] \in Seq(Entry) /\ Len(held[inst]) \in Nat
      BY <1>1 DEF TypeOK
    <2>2. PICK p \in 1 .. Len(held[inst]) :
             held' = [held EXCEPT ![inst] = RemoveAt(held[inst], p)]
      BY <1>4 DEF RemoveStream
    <2> DEFINE new == RemoveAt(held[inst], p)
               was(a, i) == IF a = inst /\ i >= p THEN i + 1 ELSE i
    <2>3. /\ Len(new) = Len(held[inst]) - 1
          /\ \A i \in 1 .. Len(new) : new[i] = IF i < p THEN held[inst][i] ELSE held[inst][i + 1]
      BY <2>1, RemoveAtProperties
    <2>4. /\ Alive' = Alive /\ lastId' = lastId
          /\ \A a \in Alive : held'[a] = IF a = inst THEN new ELSE held[a]
      BY <1>1, <1>4, <2>1, <2>2 DEF RemoveStream, Alive, TypeOK
    <2> HIDE DEF new
    <2>5. ASSUME NEW a \in Alive, NEW i \in 1 .. Len(held'[a])
          PROVE  was(a, i) \in 1 .. Len(held[a]) /\ held'[a][i] = held[a][was(a, i)]
      BY <2>1, <2>3, <2>4
    <2>6. \A a \in Alive : \A i, j \in 1 .. Len(held'[a]) : was(a, i) = was(a, j) => i = j
      <3> SUFFICES ASSUME NEW a \in Alive, NEW i \in Nat, NEW j \in Nat, was(a, i) = was(a, j)
                   PROVE  i = j
        BY <1>1, <2>1, <2>3, <2>4
      <3> QED OBVIOUS
    <2> HIDE DEF was
    <2>7. IdsBounded'
      BY <2>4, <2>5 DEF IdsBounded
    <2>8. ASSUME NEW a \in Alive, NEW b \in Alive, NEW i \in 1 .. Len(held'[a]),
                 NEW j \in 1 .. Len(held'[b]), held'[a][i].id = held'[b][j].id,
                 held'[a][i].id # Absent
          PROVE  a = b /\ i = j
      <3>1. /\ was(a, i) \in 1 .. Len(held[a]) /\ was(b, j) \in 1 .. Len(held[b])
            /\ held[a][was(a, i)].id = held[b][was(b, j)].id /\ held[a][was(a, i)].id # Absent
        BY <2>5, <2>8
      <3>2. a = b /\ was(a, i) = was(b, j)
        BY <3>1 DEF IdsAreUnique
      <3> QED BY <2>6, <3>2
    <2>9. IdsAreUnique'
      BY <2>4, <2>8 DEF IdsAreUnique
    <2> QED BY <2>7, <2>9
  <1>5. ASSUME NEW inst \in Alive, NEW c \in Instance, NEW level \in CloneLevels,
               Clone(inst, c, level)
        PROVE  IdsBounded' /\ IdsAreUnique'
    <2>1. held[inst] \in Seq(Entry) /\ Len(held[inst]) \in Nat
      BY <1>1 DEF TypeOK
    <2> DEFINE es == [i \in 1 .. Len(held[inst]) |->
                         [stream |-> held[inst][i].stream, level |-> level, id |-> Absent]]
    <2>2. Len(es) = Len(held[inst]) /\ \A i \in 1 .. Len(es) : es[i].id = Absent
      BY <2>1
    <2>3. /\ Alive' = Alive \cup {c} /\ lastId' = lastId /\ c \notin Alive
          /\ \A a \in Alive' : held'[a] = IF a = c THEN es ELSE held[a]
      BY <1>1, <1>5 DEF Clone, Alive, TypeOK
    <2> HIDE DEF es
    <2>4. IdsBounded'
      BY <2>2, <2>3 DEF IdsBounded
    <2>5. ASSUME NEW a \in Alive', NEW b \in Alive', NEW i \in 1 .. Len(held'[a]),
                 NEW j \in 1 .. Len(held'[b]), held'[a][i].id = held'[b][j].id,
                 held'[a][i].id # Absent
          PROVE  a = b /\ i = j
      <3>1. a # c /\ b # c
        BY <2>2, <2>3, <2>5
      <3> QED BY <2>3, <2>5, <3>1 DEF IdsAreUnique
    <2> QED BY <2>4, <2>5 DEF IdsAreUnique
  <1>6. CASE UNCHANGED <<held, lastId, clones>>
    BY <1>6 DEF IdsBounded, IdsAreUnique, Alive
  <1>7. ASSUME NEW inst \in Alive,
               FlushSync(inst) \/ End(inst) \/ \E level \in LineLevels : Write(inst, level)
        PROVE  IdsBounded' /\ IdsAreUnique'
    BY <1>6, <1>7 DEF FlushSync, End, Write, arrays
  <1>8. CASE Return \/ Skip \/ Deliver \/ TypeError \/ StreamReturns \/ StreamThrows
    BY <1>6, <1>8 DEF Return, Skip, Deliver, TypeError, StreamReturns, StreamThrows, arrays
  <1>9. CASE (\E s \in Stream : Open(s) \/ Drain(s)) \/ UNCHANGED vars
    BY <1>6, <1>9 DEF Open, Drain, arrays, vars
  <1> QED BY <1>3, <1>4, <1>5, <1>7, <1>8, <1>9 DEF Next

\* remove(id) takes one entry of one array, whatever was added, removed and cloned
\* before (multistream.js:106-158).
THEOREM IdsAlwaysUnique == Spec => []IdsAreUnique
  <1>1. Init => IdsBounded /\ IdsAreUnique
    <2>1. Init => \A inst \in Alive : held[inst] = << >>
      BY MultiStreamAssumption DEF Init, Alive
    <2> QED BY <2>1 DEF IdsBounded, IdsAreUnique
  <1>2. TypeOK /\ IdsBounded /\ IdsAreUnique /\ [Next]_vars => IdsBounded' /\ IdsAreUnique'
    BY IdsStep
  <1> QED BY <1>1, <1>2, TypeCorrect, PTL DEF Spec

-----------------------------------------------------------------------------
(* The frames of the call stack *)

\* No step but write() adds a frame, and none changes whose line a frame writes.
LEMMA FramesKept ==
    ASSUME TypeOK, TypeOK', [Next]_vars,
           ~\E inst \in Alive, level \in LineLevels : Write(inst, level)
    PROVE  /\ Len(stack') =< Len(stack)
           /\ \A d \in 1 .. Len(stack') :
                 stack'[d].inst = stack[d].inst /\ stack'[d].line = stack[d].line
  <1> DEFINE Kept == /\ Len(stack') =< Len(stack)
                     /\ \A d \in 1 .. Len(stack') :
                           stack'[d].inst = stack[d].inst /\ stack'[d].line = stack[d].line
  <1> SUFFICES Kept
    OBVIOUS
  <1>1. stack \in Seq(Frame) /\ stack' \in Seq(Frame) /\ Len(stack) \in Nat
    BY DEF TypeOK, StackOK
  <1>2. ASSUME NEW inst \in Alive, stack' = Disturbed(inst) PROVE Kept
    <2>1. inst \in Instance
      BY MultiStreamAssumption DEF Alive, TypeOK
    <2> QED BY <1>1, <1>2, <2>1, DisturbedProperties
  <1>3. CASE stack' = stack
    BY <1>1, <1>3
  <1>4. CASE stack # << >> /\ stack' = Pop
    <2>1. Len(Pop) = Len(stack) - 1 /\ \A d \in 1 .. (Len(stack) - 1) : Pop[d] = stack[d]
      BY <1>4, TopProperties
    <2> QED BY <1>1, <1>4, <2>1
  <1>5. ASSUME NEW f, stack # << >>, stack' = SetTop(f), f.inst = Top.inst, f.line = Top.line
        PROVE  Kept
    <2>1. DOMAIN stack' = DOMAIN stack
      BY <1>5 DEF SetTop
    <2>2. Len(stack') = Len(stack)
      BY <1>1, <2>1
    <2>3. \A d \in 1 .. Len(stack) : stack'[d] = IF d = Len(stack) THEN f ELSE stack[d]
      BY <1>1, <1>5 DEF SetTop
    <2> QED BY <1>1, <1>5, <2>2, <2>3 DEF Top
  <1>6. stack # << >> => Top \in Frame
    BY TopProperties
  <1>7. CASE Skip
    <2> DEFINE n == NextIndex(Top)
    <2>1. stack # << >> /\ stack' = SetTop([Top EXCEPT !.i = n])
      BY <1>7 DEF Skip, AtLoop
    <2> HIDE DEF n
    <2>2. [Top EXCEPT !.i = n].inst = Top.inst /\ [Top EXCEPT !.i = n].line = Top.line
      BY <1>6, <2>1 DEF Frame
    <2> QED BY <1>5, <2>1, <2>2
  <1>8. CASE StreamReturns
    <2> DEFINE n == NextIndex(Top)
    <2>1. stack # << >> /\ stack' = SetTop([Top EXCEPT !.inside = FALSE, !.i = n])
      BY <1>8 DEF StreamReturns
    <2> HIDE DEF n
    <2>2. /\ [Top EXCEPT !.inside = FALSE, !.i = n].inst = Top.inst
          /\ [Top EXCEPT !.inside = FALSE, !.i = n].line = Top.line
      BY <1>6, <2>1 DEF Frame
    <2> QED BY <1>5, <2>1, <2>2
  <1>9. CASE Deliver
    <2> DEFINE x == Top.sent \cup {[at |-> Top.i, id |-> Dest.id]}
               r == IF dedupe THEN Dest.level ELSE Top.recordedLevel
               f == [Top EXCEPT !.inside = TRUE, !.sent = x, !.recordedLevel = r]
    <2>1. stack # << >> /\ stack' = SetTop(f)
      BY <1>9 DEF Deliver, AtLoop
    <2> HIDE DEF x, r
    <2>2. f.inst = Top.inst /\ f.line = Top.line
      BY <1>6, <2>1 DEF Frame
    <2> HIDE DEF f
    <2> QED BY <1>5, <2>1, <2>2
  <1>10. CASE Return \/ TypeError \/ StreamThrows
    BY <1>4, <1>10 DEF Return, TypeError, StreamThrows, AtLoop
  <1>11. ASSUME NEW inst \in Alive, NEW s \in Stream, NEW level \in StreamLevels,
                AddStream(inst, s, level)
         PROVE  Kept
    BY <1>2, <1>11 DEF AddStream
  <1>12. ASSUME NEW inst \in Alive, NEW id \in Ids, RemoveStream(inst, id) PROVE Kept
    BY <1>2, <1>12 DEF RemoveStream
  <1>13. ASSUME NEW inst \in Alive, NEW c \in Instance, NEW level \in CloneLevels,
                Clone(inst, c, level)
         PROVE  Kept
    BY <1>3, <1>13 DEF Clone
  <1>14. ASSUME NEW inst \in Alive, FlushSync(inst) \/ End(inst) PROVE Kept
    BY <1>3, <1>14 DEF FlushSync, End
  <1>15. CASE (\E s \in Stream : Open(s) \/ Drain(s)) \/ UNCHANGED vars
    BY <1>3, <1>15 DEF Open, Drain, vars
  <1> HIDE DEF Kept
  <1> QED BY <1>7, <1>8, <1>9, <1>10, <1>11, <1>12, <1>13, <1>14, <1>15 DEF Next

-----------------------------------------------------------------------------
(* Metadata *)

\* The metadata of an instance is of a line that was logged, and never older than
\* a line that is being written to it.
LastLineOK ==
    /\ \A a \in Instance : lastLine[a] =< lines
    /\ \A d \in 1 .. Len(stack) : stack[d].line =< lastLine[stack[d].inst]

LEMMA LastLineStep ==
    ASSUME TypeOK, TypeOK', LastLineOK, [Next]_vars
    PROVE  LastLineOK'
  <1>1. /\ stack \in Seq(Frame) /\ Len(stack) \in Nat /\ lines \in Nat
        /\ lastLine \in [Instance -> Nat] /\ Alive \subseteq Instance
    BY MultiStreamAssumption DEF TypeOK, StackOK, Alive
  <1>2. \A d \in 1 .. Len(stack) : stack[d].inst \in Instance /\ stack[d].line \in Nat
    <2>1. \A d \in 1 .. Len(stack) : stack[d] \in Frame
      BY <1>1
    <2> QED BY <2>1 DEF Frame
  <1>3. ASSUME NEW inst \in Alive, NEW level \in LineLevels, Write(inst, level)
        PROVE  LastLineOK'
    <2>1. PICK f : stack' = Append(stack, f) /\ f.inst = inst /\ f.line = lines + 1
      BY <1>3 DEF Write
    <2>2. lines' = lines + 1 /\ lastLine' = [lastLine EXCEPT ![inst] = lines + 1]
      BY <1>3 DEF Write, SetMetadata
    <2>3. \A a \in Instance : lastLine'[a] = IF a = inst THEN lines + 1 ELSE lastLine[a]
      BY <1>1, <2>2
    <2>4. /\ Len(stack') = Len(stack) + 1 /\ stack'[Len(stack) + 1] = f
          /\ \A d \in 1 .. Len(stack) : stack'[d] = stack[d]
      BY <1>1, <2>1, AppendProperties
    <2>5. \A a \in Instance : lastLine'[a] =< lines'
      BY <1>1, <2>2, <2>3 DEF LastLineOK
    <2>6. ASSUME NEW d \in 1 .. Len(stack')
          PROVE  stack'[d].line =< lastLine'[stack'[d].inst]
      <3>1. CASE d \in 1 .. Len(stack)
        <4>1. stack[d].line =< lastLine[stack[d].inst] /\ lastLine[stack[d].inst] =< lines
          BY <1>2, <3>1 DEF LastLineOK
        <4> QED BY <1>1, <1>2, <2>3, <2>4, <3>1, <4>1, SMTT(60)
      <3>2. CASE d = Len(stack) + 1
        BY <1>1, <2>1, <2>3, <2>4, <3>2
      <3> QED BY <1>1, <2>4, <3>1, <3>2
    <2> QED BY <2>5, <2>6 DEF LastLineOK
  <1>4. CASE ~\E inst \in Alive, level \in LineLevels : Write(inst, level)
    <2>1. UNCHANGED <<lastLine, lines>>
      BY <1>4 DEF Next, AddStream, RemoveStream, Clone, FlushSync, End, Return, Skip, Deliver,
                  TypeError, StreamReturns, StreamThrows, Open, Drain, vars
    <2>2. /\ Len(stack') =< Len(stack) /\ Len(stack') \in Nat
          /\ \A d \in 1 .. Len(stack') :
                stack'[d].inst = stack[d].inst /\ stack'[d].line = stack[d].line
      BY <1>4, FramesKept, SMTT(30) DEF TypeOK, StackOK
    <2> QED BY <1>1, <2>1, <2>2 DEF LastLineOK
  <1> QED BY <1>3, <1>4

LEMMA MetadataStep ==
    ASSUME TypeOK, LastLineOK, MetadataNotOlder, [Next]_vars
    PROVE  MetadataNotOlder'
  <1>1. CASE Deliver
    <2>1. obs'.metadata = lastLine[Top.inst] /\ obs'.line = Top.line /\ stack # << >>
      BY <1>1 DEF Deliver, AtLoop
    <2>2. Top.line =< lastLine[Top.inst] /\ Top \in Frame
      BY <2>1, TopProperties DEF LastLineOK, Top
    <2>3. lastLine[Top.inst] \in Nat /\ Top.line \in Nat
      BY <2>2 DEF Frame, TypeOK
    <2> QED BY <2>1, <2>2, <2>3 DEF MetadataNotOlder
  <1>2. CASE obs'.kind # "delivered"
    BY <1>2 DEF MetadataNotOlder
  <1>3. ASSUME NEW inst \in Alive,
               \/ \E s \in Stream, level \in StreamLevels : AddStream(inst, s, level)
               \/ \E id \in Ids : RemoveStream(inst, id)
               \/ \E c \in Instance, level \in CloneLevels : Clone(inst, c, level)
               \/ \E level \in LineLevels : Write(inst, level)
        PROVE  MetadataNotOlder'
    <2>1. obs' = Quiet
      BY <1>3, Zenon DEF AddStream, RemoveStream, Clone, Write
    <2> QED BY <1>2, <2>1 DEF Quiet
  <1>4. ASSUME NEW inst \in Alive, FlushSync(inst) \/ End(inst) PROVE MetadataNotOlder'
    BY <1>2, <1>4 DEF FlushSync, End
  <1>5. CASE Return \/ TypeError \/ StreamThrows
    BY <1>2, <1>5 DEF Return, TypeError, StreamThrows
  <1>6. CASE Skip \/ StreamReturns \/ (\E s \in Stream : Open(s) \/ Drain(s))
    BY <1>2, <1>6 DEF Skip, StreamReturns, Open, Drain, Quiet
  <1>7. CASE UNCHANGED vars
    BY <1>7 DEF vars, MetadataNotOlder
  <1> QED BY <1>1, <1>3, <1>4, <1>5, <1>6, <1>7 DEF Next

\* What a stream finds in lastLevel, lastMsg and the others (multistream.js:72-79)
\* is never of an older line than the one it is given, however writes nest.
THEOREM MetadataNeverOlder == Spec => []MetadataNotOlder
  <1>1. Init => LastLineOK /\ MetadataNotOlder
    BY DEF Init, LastLineOK, MetadataNotOlder, Quiet
  <1>2. TypeOK /\ TypeOK' /\ LastLineOK /\ MetadataNotOlder /\ [Next]_vars
           => LastLineOK' /\ MetadataNotOlder'
    BY LastLineStep, MetadataStep
  <1> QED BY <1>1, <1>2, TypeCorrect, PTL DEF Spec

-----------------------------------------------------------------------------
(* Flush and end *)

\* What Flushed is made of.
LEMMA FlushedIs ==
    ASSUME NEW inst, NEW i \in 1 .. Len(held[inst]), Flushable(inst, i), FlushReaches(inst, i)
    PROVE  held[inst][i].stream \in Flushed(inst)
  BY DEF Flushed

\* No stream of an array that is being written to was ended.
StacksOpen ==
    \A d \in 1 .. Len(stack) :
        LET inst == stack[d].inst
        IN  \A i \in 1 .. Len(held[inst]) : held[inst][i].stream \notin ended

LEMMA StacksOpenStep ==
    ASSUME TypeOK, TypeOK', FramesOK, StacksOpen, [Next]_vars
    PROVE  StacksOpen'
  <1>1. /\ stack \in Seq(Frame) /\ Len(stack) \in Nat /\ Alive \subseteq Instance
        /\ held \in [Instance -> Seq(Entry)]
        /\ \A d \in 1 .. Len(stack) : stack[d].inst \in Alive
    BY MultiStreamAssumption DEF TypeOK, StackOK, Alive, FramesOK, FrameOK
  <1>2. ASSUME NEW inst \in Alive, NEW level \in LineLevels, Write(inst, level)
        PROVE  StacksOpen'
    <2>1. PICK f : stack' = Append(stack, f) /\ f.inst = inst
      BY <1>2 DEF Write
    <2>2. UNCHANGED <<held, ended>>
      BY <1>2 DEF Write, arrays, destinations
    <2>3. \A i \in 1 .. Len(held[inst]) : held[inst][i].stream \notin ended
      BY <1>2 DEF Write
    <2>4. /\ Len(stack') = Len(stack) + 1 /\ stack'[Len(stack) + 1] = f
          /\ \A d \in 1 .. Len(stack) : stack'[d] = stack[d]
      BY <1>1, <2>1, AppendProperties
    <2>5. \A d \in 1 .. Len(stack') : d \in 1 .. Len(stack) \/ d = Len(stack) + 1
      BY <1>1, <2>4
    <2> QED BY <2>1, <2>2, <2>3, <2>4, <2>5 DEF StacksOpen
  <1>3. ASSUME ~\E inst \in Alive, level \in LineLevels : Write(inst, level),
               \A d \in 1 .. Len(stack) : \A i \in 1 .. Len(held'[stack[d].inst]) :
                  held'[stack[d].inst][i].stream \notin ended'
        PROVE  StacksOpen'
    <2>1. /\ Len(stack') =< Len(stack) /\ Len(stack') \in Nat
          /\ \A d \in 1 .. Len(stack') : stack'[d].inst = stack[d].inst
      <3>1. ~\E inst \in Alive, level \in LineLevels : Write(inst, level)
        BY <1>3
      <3>2. Len(stack') \in Nat
        BY DEF TypeOK, StackOK
      <3> QED BY <3>1, <3>2, FramesKept
    <2>2. \A d \in 1 .. Len(stack') : d \in 1 .. Len(stack)
      BY <1>1, <2>1
    <2> QED BY <1>3, <2>1, <2>2 DEF StacksOpen
  <1>4. ASSUME NEW inst \in Alive, NEW s \in Stream, NEW level \in StreamLevels,
               AddStream(inst, s, level),
               ~\E a \in Alive, l \in LineLevels : Write(a, l)
        PROVE  StacksOpen'
    <2> DEFINE e == [stream |-> s, level |-> level, id |-> lastId + 1]
    <2>1. PICK p \in 1 .. (Len(held[inst]) + 1) :
             held' = [held EXCEPT ![inst] = InsertAt(held[inst], p, e)]
      BY <1>4 DEF AddStream
    <2>2. s \notin ended /\ ended' = ended
      BY <1>4 DEF AddStream, destinations
    <2>3. e \in Entry /\ e.stream = s
      BY MultiStreamAssumption DEF Entry, Level, TypeOK
    <2> HIDE DEF e
    <2>4. /\ Len(InsertAt(held[inst], p, e)) = Len(held[inst]) + 1
          /\ \A i \in 1 .. (Len(held[inst]) + 1) :
                InsertAt(held[inst], p, e)[i] = IF i < p THEN held[inst][i]
                                                ELSE IF i = p THEN e ELSE held[inst][i - 1]
      BY <1>1, <2>3, InsertAtProperties, SMTT(60)
    <2>5. \A a \in Alive : held'[a] = IF a = inst THEN InsertAt(held[inst], p, e) ELSE held[a]
      BY <1>1, <2>1
    <2>6. ASSUME NEW d \in 1 .. Len(stack), NEW i \in 1 .. Len(held'[stack[d].inst])
          PROVE  held'[stack[d].inst][i].stream \notin ended'
      <3>1. CASE stack[d].inst # inst
        BY <1>1, <2>2, <2>5, <2>6, <3>1 DEF StacksOpen
      <3>2. CASE stack[d].inst = inst
        <4>1. \A j \in 1 .. Len(held[inst]) : held[inst][j].stream \notin ended
          BY <3>2 DEF StacksOpen
        <4>2. held[inst] \in Seq(Entry) /\ Len(held[inst]) \in Nat
          BY <1>1
        <4>3. \/ held'[inst][i] = e
              \/ \E j \in 1 .. Len(held[inst]) : held'[inst][i] = held[inst][j]
          <5>1. i \in 1 .. (Len(held[inst]) + 1)
            BY <2>4, <2>5, <2>6, <3>2
          <5>2. CASE i < p
            BY <2>4, <2>5, <4>2, <5>1, <5>2
          <5>3. CASE i = p
            BY <2>4, <2>5, <5>1, <5>3
          <5>4. CASE i > p
            <6>1. i - 1 \in 1 .. Len(held[inst])
              BY <4>2, <5>1, <5>4
            <6> QED BY <2>4, <2>5, <5>1, <5>4, <6>1
          <5> QED BY <4>2, <5>1, <5>2, <5>3, <5>4
        <4> QED BY <2>2, <2>3, <3>2, <4>1, <4>3
      <3> QED BY <3>1, <3>2
    <2> QED BY <1>3, <1>4, <2>6
  <1>5. ASSUME NEW inst \in Alive, NEW id \in Ids, RemoveStream(inst, id),
               ~\E a \in Alive, l \in LineLevels : Write(a, l)
        PROVE  StacksOpen'
    <2>1. PICK p \in 1 .. Len(held[inst]) : held' = [held EXCEPT ![inst] = RemoveAt(held[inst], p)]
      BY <1>5 DEF RemoveStream
    <2>2. ended' = ended
      BY <1>5 DEF RemoveStream, destinations
    <2>3. /\ Len(RemoveAt(held[inst], p)) = Len(held[inst]) - 1
          /\ \A i \in 1 .. (Len(held[inst]) - 1) :
                RemoveAt(held[inst], p)[i] = IF i < p THEN held[inst][i] ELSE held[inst][i + 1]
      BY <1>1, RemoveAtProperties
    <2>4. \A a \in Alive : held'[a] = IF a = inst THEN RemoveAt(held[inst], p) ELSE held[a]
      BY <1>1, <2>1
    <2>5. ASSUME NEW d \in 1 .. Len(stack), NEW i \in 1 .. Len(held'[stack[d].inst])
          PROVE  held'[stack[d].inst][i].stream \notin ended'
      <3>1. CASE stack[d].inst # inst
        BY <1>1, <2>2, <2>4, <2>5, <3>1 DEF StacksOpen
      <3>2. CASE stack[d].inst = inst
        <4>1. \A j \in 1 .. Len(held[inst]) : held[inst][j].stream \notin ended
          BY <3>2 DEF StacksOpen
        <4>2. held[inst] \in Seq(Entry) /\ Len(held[inst]) \in Nat
          BY <1>1
        <4>3. i \in 1 .. (Len(held[inst]) - 1)
          BY <2>3, <2>4, <2>5, <3>2
        <4>4. i \in 1 .. Len(held[inst]) /\ i + 1 \in 1 .. Len(held[inst])
          BY <4>2, <4>3
        <4>5. held'[inst][i] = held[inst][i] \/ held'[inst][i] = held[inst][i + 1]
          BY <2>3, <2>4, <4>3
        <4> QED BY <2>2, <3>2, <4>1, <4>4, <4>5
      <3> QED BY <3>1, <3>2
    <2> QED BY <1>3, <1>5, <2>5
  <1>6. ASSUME NEW inst \in Alive, NEW c \in Instance, NEW level \in CloneLevels,
               Clone(inst, c, level),
               ~\E a \in Alive, l \in LineLevels : Write(a, l)
        PROVE  StacksOpen'
    <2>1. PICK es : held' = [held EXCEPT ![c] = es]
      BY <1>6 DEF Clone
    <2>2. c \notin Alive /\ ended' = ended
      BY <1>6 DEF Clone, destinations
    <2>3. \A a \in Alive : held'[a] = held[a]
      BY <1>1, <2>1, <2>2
    <2> QED BY <1>1, <1>3, <1>6, <2>2, <2>3 DEF StacksOpen
  <1>7. ASSUME NEW inst \in Alive, End(inst)
        PROVE  StacksOpen'
    <2>1. stack = << >> /\ stack' = stack
      BY <1>7 DEF End
    <2> QED BY <2>1 DEF StacksOpen
  <1>8. ASSUME UNCHANGED <<held, ended>>,
               ~\E inst \in Alive, level \in LineLevels : Write(inst, level)
        PROVE  StacksOpen'
    BY <1>3, <1>8 DEF StacksOpen
  <1>9. ASSUME NEW inst \in Alive, FlushSync(inst)
        PROVE  StacksOpen'
    BY <1>9 DEF FlushSync, arrays, StacksOpen
  <1>10. CASE Return \/ Skip \/ Deliver \/ TypeError \/ StreamReturns \/ StreamThrows
    <2>1. UNCHANGED <<held, ended>>
      BY <1>10 DEF Return, Skip, Deliver, TypeError, StreamReturns, StreamThrows, arrays,
                   destinations
    <2> QED BY <1>2, <1>8, <2>1
  <1>11. CASE (\E s \in Stream : Open(s) \/ Drain(s)) \/ UNCHANGED vars
    BY <1>11 DEF Open, Drain, arrays, vars, StacksOpen
  <1> QED BY <1>2, <1>4, <1>5, <1>6, <1>7, <1>9, <1>10, <1>11 DEF Next

LEMMA EndedStep ==
    ASSUME TypeOK, StacksOpen, EndedIsFlushed, [Next]_vars
    PROVE  EndedIsFlushed'
  <1>1. ASSUME dirty' \subseteq dirty, ended' = ended PROVE EndedIsFlushed'
    BY <1>1 DEF EndedIsFlushed
  <1>2. ASSUME NEW inst \in Alive, End(inst)
        PROVE  EndedIsFlushed'
    <2>1. /\ dirty' = dirty \ Flushed(inst)
          /\ ended' = ended \cup
                {held[inst][i].stream : i \in {j \in 1 .. Len(held[inst]) : FlushReaches(inst, j)}}
      BY <1>2 DEF End
    <2>2. ASSUME NEW i \in 1 .. Len(held[inst]), FlushReaches(inst, i),
                 held[inst][i].stream \in HasFlushSync
          PROVE  held[inst][i].stream \notin dirty'
      BY <2>1, <2>2, FlushedIs DEF Flushable
    <2> QED BY <2>1, <2>2 DEF EndedIsFlushed
  <1>3. CASE Deliver
    <2>1. /\ stack # << >> /\ dirty' = dirty \cup {Dest.stream} /\ ended' = ended
          /\ LoopGoesOn /\ Top.i =< Len(held[Top.inst])
      BY <1>3 DEF Deliver, AtLoop
    <2>2. Top.i \in 1 .. Len(held[Top.inst]) /\ Len(stack) \in 1 .. Len(stack)
      BY <2>1, DestProperties, TopProperties
    <2>3. Dest.stream \notin ended
      BY <2>2 DEF StacksOpen, Top, Dest
    <2> QED BY <2>1, <2>3 DEF EndedIsFlushed
  <1>4. ASSUME NEW inst \in Alive,
               \/ \E s \in Stream, level \in StreamLevels : AddStream(inst, s, level)
               \/ \E id \in Ids : RemoveStream(inst, id)
               \/ \E c \in Instance, level \in CloneLevels : Clone(inst, c, level)
               \/ \E level \in LineLevels : Write(inst, level)
               \/ FlushSync(inst)
        PROVE  EndedIsFlushed'
    BY <1>1, <1>4 DEF AddStream, RemoveStream, Clone, Write, FlushSync, destinations
  <1>5. CASE Return \/ Skip \/ TypeError \/ StreamReturns \/ StreamThrows
    BY <1>1, <1>5 DEF Return, Skip, TypeError, StreamReturns, StreamThrows, destinations
  <1>6. CASE (\E s \in Stream : Open(s) \/ Drain(s)) \/ UNCHANGED vars
    BY <1>1, <1>6 DEF Open, Drain, vars
  <1> QED BY <1>2, <1>3, <1>4, <1>5, <1>6 DEF Next

\* end() never ends a stream that has a line left in its buffer, and no write that
\* is under way gives it one afterwards (multistream.js:67-96, :160-167).
THEOREM EndedAlwaysFlushed == Spec => []EndedIsFlushed
  <1>1. Init => StacksOpen /\ EndedIsFlushed /\ FramesOK
    BY DEF Init, StacksOpen, EndedIsFlushed, FramesOK
  <1>2. TypeOK /\ TypeOK' /\ OrderedByLevel /\ FramesOK /\ StacksOpen /\ EndedIsFlushed
           /\ [Next]_vars => FramesOK' /\ StacksOpen' /\ EndedIsFlushed'
    BY FramesStep, StacksOpenStep, EndedStep
  <1> QED BY <1>1, <1>2, TypeCorrect, OrderedAlways, PTL DEF Spec

-----------------------------------------------------------------------------
(* Fatal *)

\* Without a flushSync that throws every stream that has one is reached.
LEMMA AllFlushed ==
    ASSUME NEW inst, ~FlushThrows(inst), Len(held[inst]) \in Nat,
           NEW i \in 1 .. Len(held[inst]), held[inst][i].stream \in HasFlushSync
    PROVE  held[inst][i].stream \in Flushed(inst)
  <1>1. FlushReaches(inst, i)
    BY DEF FlushThrows, FlushReaches
  <1> QED BY <1>1, FlushedIs DEF Flushable

LEMMA FatalStep ==
    ASSUME TypeOK, FatalLeavesNothing, [Next]_vars
    PROVE  FatalLeavesNothing'
  <1>1. CASE Return
    <2> SUFFICES ASSUME Top.level = Fatal, ~FlushThrows(Top.inst),
                        NEW i \in 1 .. Len(held[Top.inst]),
                        held[Top.inst][i].stream \in HasFlushSync
                 PROVE  held[Top.inst][i].stream \notin dirty'
      BY <1>1 DEF Return, FatalLeavesNothing, FlushThrows, Flushable, arrays
    <2>1. dirty' = dirty \ Flushed(Top.inst) /\ stack # << >>
      BY <1>1 DEF Return, AtLoop
    <2>2. Top.inst \in Instance
      BY <2>1, TopProperties DEF Frame
    <2>3. Len(held[Top.inst]) \in Nat
      BY <2>2 DEF TypeOK
    <2> QED BY <2>1, <2>3, AllFlushed
  <1>2. CASE obs'.kind # "written"
    BY <1>2 DEF FatalLeavesNothing
  <1>3. ASSUME NEW inst \in Alive,
               \/ \E s \in Stream, level \in StreamLevels : AddStream(inst, s, level)
               \/ \E id \in Ids : RemoveStream(inst, id)
               \/ \E c \in Instance, level \in CloneLevels : Clone(inst, c, level)
               \/ \E level \in LineLevels : Write(inst, level)
        PROVE  FatalLeavesNothing'
    <2>1. obs' = Quiet
      BY <1>3, Zenon DEF AddStream, RemoveStream, Clone, Write
    <2> QED BY <1>2, <2>1 DEF Quiet
  <1>4. ASSUME NEW inst \in Alive, FlushSync(inst) \/ End(inst) PROVE FatalLeavesNothing'
    BY <1>2, <1>4 DEF FlushSync, End
  <1>5. CASE Deliver \/ TypeError \/ StreamThrows
    BY <1>2, <1>5 DEF Deliver, TypeError, StreamThrows
  <1>6. CASE Skip \/ StreamReturns \/ (\E s \in Stream : Open(s) \/ Drain(s))
    BY <1>2, <1>6 DEF Skip, StreamReturns, Open, Drain, Quiet
  <1>7. CASE UNCHANGED vars
    BY <1>7 DEF vars, FatalLeavesNothing, FlushThrows, Flushable
  <1> QED BY <1>1, <1>3, <1>4, <1>5, <1>6, <1>7 DEF Next

\* A fatal line that returns leaves no line in a buffer that could be flushed,
\* whatever was written before it and inside it (levels.js:17-28).
THEOREM FatalAlwaysLeavesNothing == Spec => []FatalLeavesNothing
  <1>1. Init => FatalLeavesNothing
    BY DEF Init, FatalLeavesNothing, Quiet
  <1>2. TypeOK /\ FatalLeavesNothing /\ [Next]_vars => FatalLeavesNothing'
    BY FatalStep
  <1> QED BY <1>1, <1>2, TypeCorrect, PTL DEF Spec
=============================================================================
