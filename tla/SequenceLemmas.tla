--------------------------- MODULE SequenceLemmas ---------------------------
(* What adding to and taking from a sequence at a place does, for the proofs *)
(* about the arrays of a multistream, of the exit registry and of listeners.  *)
EXTENDS Integers, SequencesExt, SequenceTheorems, TLAPS

-----------------------------------------------------------------------------
\* What unshift and sort (multistream.js:139-140) make of an array: the new
\* entry at its place and the others around it in their order.
LEMMA InsertAtProperties ==
    ASSUME NEW S, NEW es \in Seq(S), NEW e \in S, NEW p \in 1 .. (Len(es) + 1)
    PROVE  /\ InsertAt(es, p, e) \in Seq(S)
           /\ Len(InsertAt(es, p, e)) = Len(es) + 1
           /\ \A i \in 1 .. (Len(es) + 1) :
                 InsertAt(es, p, e)[i] = IF i < p THEN es[i]
                                         ELSE IF i = p THEN e ELSE es[i - 1]
  <1> DEFINE left == SubSeq(es, 1, p - 1)
             right == SubSeq(es, p, Len(es))
             mid == <<e>>
  <1>1. /\ left \in Seq(S) /\ Len(left) = p - 1
        /\ \A i \in 1 .. (p - 1) : left[i] = es[i]
    BY SubSeqProperties
  <1>2. /\ right \in Seq(S) /\ Len(right) = Len(es) - p + 1
        /\ \A i \in 1 .. (Len(es) - p + 1) : right[i] = es[p + i - 1]
    BY SubSeqProperties
  <1>3. mid \in Seq(S) /\ Len(mid) = 1 /\ mid[1] = e
    OBVIOUS
  <1> HIDE DEF left, right, mid
  <1> DEFINE both == left \o mid
  <1>4. /\ both \in Seq(S) /\ Len(both) = p
        /\ \A i \in 1 .. p : both[i] = IF i < p THEN es[i] ELSE e
    <2>1. /\ both \in Seq(S) /\ Len(both) = Len(left) + Len(mid)
          /\ \A i \in 1 .. Len(left) + Len(mid) :
                both[i] = IF i <= Len(left) THEN left[i] ELSE mid[i - Len(left)]
      BY <1>1, <1>3, ConcatProperties, Zenon
    <2> HIDE DEF both
    <2> QED BY <2>1, <1>1, <1>3
  <1> HIDE DEF both
  <1>5. /\ both \o right \in Seq(S)
        /\ Len(both \o right) = Len(es) + 1
        /\ \A i \in 1 .. (Len(es) + 1) :
              (both \o right)[i]
                 = IF i =< p THEN both[i] ELSE right[i - p]
    <2>1. /\ both \o right \in Seq(S) /\ Len(both \o right) = Len(both) + Len(right)
          /\ \A i \in 1 .. Len(both) + Len(right) :
                (both \o right)[i] = IF i <= Len(both) THEN both[i] ELSE right[i - Len(both)]
      BY <1>2, <1>4, ConcatProperties, Zenon
    <2> QED BY <2>1, <1>2, <1>4
  <1>6. ASSUME NEW i \in 1 .. (Len(es) + 1), i > p
        PROVE  right[i - p] = es[i - 1]
    <2>1. i - p \in 1 .. (Len(es) - p + 1) /\ i - p + (p - 1) = i - 1
      BY <1>6
    <2> QED BY <1>2, <2>1
  <1>7. InsertAt(es, p, e) = both \o right
    BY DEF InsertAt, left, right, mid, both
  <1> QED BY <1>4, <1>5, <1>6, <1>7

\* What splice (multistream.js:152, and on-exit-leak-free's unregister) makes of an array.
LEMMA RemoveAtProperties ==
    ASSUME NEW S, NEW es \in Seq(S), NEW p \in 1 .. Len(es)
    PROVE  /\ RemoveAt(es, p) \in Seq(S)
           /\ Len(RemoveAt(es, p)) = Len(es) - 1
           /\ \A i \in 1 .. (Len(es) - 1) :
                 RemoveAt(es, p)[i] = IF i < p THEN es[i] ELSE es[i + 1]
  <1> DEFINE left == SubSeq(es, 1, p - 1)
             right == SubSeq(es, p + 1, Len(es))
  <1>1. /\ left \in Seq(S) /\ Len(left) = p - 1
        /\ \A i \in 1 .. (p - 1) : left[i] = es[i]
    BY SubSeqProperties
  <1>2. /\ right \in Seq(S) /\ Len(right) = Len(es) - p
        /\ \A i \in 1 .. (Len(es) - p) : right[i] = es[p + i]
    BY SubSeqProperties
  <1> HIDE DEF left, right
  <1> DEFINE both == left \o right
  <1>3. /\ both \in Seq(S) /\ Len(both) = Len(es) - 1
        /\ \A i \in 1 .. (Len(es) - 1) :
              both[i] = IF i =< p - 1 THEN left[i] ELSE right[i - (p - 1)]
    <2>1. /\ both \in Seq(S) /\ Len(both) = Len(left) + Len(right)
          /\ \A i \in 1 .. Len(left) + Len(right) :
                both[i] = IF i <= Len(left) THEN left[i] ELSE right[i - Len(left)]
      BY <1>1, <1>2, ConcatProperties, Zenon
    <2> HIDE DEF both
    <2> QED BY <2>1, <1>1, <1>2
  <1>4. ASSUME NEW i \in 1 .. (Len(es) - 1), i >= p
        PROVE  right[i - (p - 1)] = es[i + 1]
    <2>1. i - (p - 1) \in 1 .. (Len(es) - p) /\ p + (i - (p - 1)) = i + 1
      BY <1>4
    <2> QED BY <1>2, <2>1
  <1>5. RemoveAt(es, p) = both
    BY DEF RemoveAt, left, right
  <1> HIDE DEF both
  <1>6. ASSUME NEW i \in 1 .. (Len(es) - 1)
        PROVE  both[i] = IF i < p THEN es[i] ELSE es[i + 1]
    <2>1. CASE i < p
      <3>1. i \in 1 .. (p - 1) /\ both[i] = left[i]
        BY <2>1, <1>3
      <3> QED BY <2>1, <3>1, <1>1
    <2>2. CASE i >= p
      <3>1. ~(i =< p - 1)
        BY <2>2
      <3>2. both[i] = right[i - (p - 1)]
        BY <3>1, <1>3
      <3> QED BY <2>2, <3>2, <1>4
    <2> QED BY <2>1, <2>2
  <1> QED BY <1>3, <1>5, <1>6

-----------------------------------------------------------------------------
\* What process.removeListener (transport.js:148, :155) makes of an array with one
\* entry that is e: it is taken out, and without one the array stays.
LEMMA RemoveFirstProperties ==
    ASSUME NEW S, NEW es \in Seq(S), NEW e
    PROVE  /\ (\A i \in 1 .. Len(es) : es[i] # e) => RemoveFirst(es, e) = es
           /\ \A p \in 1 .. Len(es) : 
                es[p] = e /\ (\A i \in 1 .. (p - 1) : es[i] # e)
                   => RemoveFirst(es, e) = RemoveAt(es, p)
  <1>1. ASSUME \A i \in 1 .. Len(es) : es[i] # e PROVE RemoveFirst(es, e) = es
    BY <1>1 DEF RemoveFirst
  <1>2. ASSUME NEW p \in 1 .. Len(es), es[p] = e, \A i \in 1 .. (p - 1) : es[i] # e
        PROVE RemoveFirst(es, e) = RemoveAt(es, p)
    <2> DEFINE I == {i \in 1 .. Len(es) : es[i] = e}
    <2>1. p \in I /\ \A j \in I : p =< j
      BY <1>2
    <2>2. Min(I) = p
      BY <2>1 DEF Min
    <2>3. SelectInSeq(es, LAMBDA v : v = e) = p
      BY <2>1, <2>2, Zenon DEF SelectInSeq
    <2> QED BY <1>2, <2>3 DEF RemoveFirst
  <1> QED BY <1>1, <1>2
=============================================================================
