--------------------------- MODULE RedactionProofs ---------------------------
(* Proofs about Redaction: the shape says the same in whatever order the    *)
(* paths are listed, for every set of keys, paths and places.               *)
EXTENDS Redaction, SequenceTheorems, TLAPS

-----------------------------------------------------------------------------
\* A path of more than one segment matches a place exactly if its first segment
\* matches the first key and its rest what lies below (redaction.js:41-42).
LEMMA MatchBelow ==
    ASSUME NEW path \in Seq(Name), NEW place \in Seq(Key), Len(path) > 1, Len(place) > 0
    PROVE  Matches(path, place)
             <=> path[1] \in {Star, place[1]} /\ Matches(Tail(path), Tail(place))
<1>1. /\ Len(Tail(path)) = Len(path) - 1
      /\ \A i \in 1 .. Len(path) - 1 : Tail(path)[i] = path[i + 1]
  BY HeadTailProperties
<1>2. /\ Len(Tail(place)) = Len(place) - 1
      /\ \A i \in 1 .. Len(place) - 1 : Tail(place)[i] = place[i + 1]
  BY HeadTailProperties
<1>3. Len(path) \in Nat /\ Len(place) \in Nat
  OBVIOUS
<1> DEFINE A == \A i \in 1 .. Len(path) : path[i] \in {Star, place[i]}
           B == \A i \in 1 .. Len(path) - 1 : Tail(path)[i] \in {Star, Tail(place)[i]}
<1>4. ASSUME Len(path) <= Len(place)
      PROVE  A <=> path[1] \in {Star, place[1]} /\ B
  <2>1. ASSUME A PROVE path[1] \in {Star, place[1]} /\ B
    <3>1. path[1] \in {Star, place[1]}
      BY <2>1, <1>3
    <3>2. ASSUME NEW i \in 1 .. Len(path) - 1
          PROVE  Tail(path)[i] \in {Star, Tail(place)[i]}
      <4>1. i + 1 \in 1 .. Len(path) /\ i \in 1 .. Len(place) - 1
        BY <1>3, <1>4
      <4> QED
        BY <4>1, <2>1, <1>1, <1>2
    <3> QED
      BY <3>1, <3>2
  <2>2. ASSUME path[1] \in {Star, place[1]}, B PROVE A
    <3>1. ASSUME NEW i \in 1 .. Len(path), i > 1
          PROVE  path[i] \in {Star, place[i]}
      <4>1. i - 1 \in 1 .. Len(path) - 1 /\ i - 1 \in 1 .. Len(place) - 1 /\ (i - 1) + 1 = i
        BY <1>3, <1>4, <3>1
      <4>2. Tail(path)[i - 1] = path[i] /\ Tail(place)[i - 1] = place[i]
        BY <4>1, <1>1, <1>2
      <4>3. Tail(path)[i - 1] \in {Star, Tail(place)[i - 1]}
        BY <4>1, <2>2
      <4> QED
        BY <4>2, <4>3
    <3> QED
      BY <3>1, <2>2, <1>3
  <2> QED
    BY <2>1, <2>2
<1> QED
  BY <1>1, <1>2, <1>3, <1>4 DEF Matches

\* The rest of a longer path is a path.
LEMMA RestIsPath ==
    ASSUME NEW path \in Seq(Name), Len(path) > 1
    PROVE  Tail(path) \in Seq(Name)
OBVIOUS

\* A path of one segment is that segment.
LEMMA OneSegment ==
    ASSUME NEW path \in Seq(Name), Len(path) = 1
    PROVE  path = <<path[1]>>
OBVIOUS

\* Every listed path is a path.
LEMMA ListedAreSeqs ==
    ASSUME TypeOK, NEW path \in listed
    PROVE  path \in Seq(Name) /\ Len(path) \in Nat /\ Len(path) > 0 /\ path[1] \in Name
<1>1. path \in Seq(Name) /\ path # << >>
  BY RedactionAssumption DEF TypeOK
<1> QED
  BY <1>1

-----------------------------------------------------------------------------
(* The inductive invariant *)

LEMMA ShapeInit == Init => ShapeInv
BY DEF Init, ShapeInv, TypeOK, EntriesAreListed, BelowIsListed, ListedIsBelow

\* A step of the reduction keeps the types.
LEMMA ReduceType ==
    ASSUME ShapeInv, NEW path \in Paths, Reduce(path)
    PROVE  TypeOK'
<1>0. path \in Seq(Name) /\ path # << >> /\ path[1] \in Name
  BY RedactionAssumption
<1>1. listed' \subseteq Paths /\ remove' \in BOOLEAN /\ built' \in BOOLEAN
  BY DEF ShapeInv, TypeOK, Reduce
<1>2. CASE AddTop(path)
  BY <1>0, <1>1, <1>2 DEF AddTop, ShapeInv, TypeOK
<1>3. CASE Ignore(path)
  BY <1>0, <1>1, <1>3 DEF Ignore, shape, ShapeInv, TypeOK
<1>4. CASE AddBelow(path)
  <2>1. Tail(path) \in Seq(Name)
    BY <1>0, <1>4 DEF AddBelow
  <2>2. below' \in [Name -> SUBSET Seq(Name)]
    BY <2>1, <1>0, <1>4 DEF AddBelow, EntryOf, SharesEntryWith, ShapeInv, TypeOK, Name
  <2>3. ASSUME NEW k \in Name, below'[k] # {} PROVE k \in keys' \ whole'
    BY <2>3, <1>0, <1>4 DEF AddBelow, EntryOf, SharesEntryWith, ShapeInv, TypeOK
  <2> QED
    BY <2>2, <2>3, <1>0, <1>1, <1>4 DEF AddBelow, ShapeInv, TypeOK
<1> QED
  BY <1>2, <1>3, <1>4 DEF Reduce

\* A step of the reduction keeps what the shape says of the listed paths.
LEMMA ReduceShape ==
    ASSUME ShapeInv, NEW path \in Paths, Reduce(path)
    PROVE  (EntriesAreListed /\ BelowIsListed /\ ListedIsBelow)'
<1>0. path \in Seq(Name) /\ path # << >> /\ path[1] \in Name /\ Len(path) \in Nat
  BY RedactionAssumption
<1>1. listed' = listed \cup {path}
  BY DEF Reduce
<1>2. \A p \in listed : Len(p) \in Nat /\ Len(p) > 0 /\ p[1] \in Name
  BY ListedAreSeqs DEF ShapeInv
<1>3. CASE AddTop(path)
  <2>1. path = <<path[1]>>
    BY <1>0, <1>3, OneSegment DEF AddTop
  <2>2. \A k \in Name : below'[k] = IF k = path[1] THEN {} ELSE below[k]
    BY <1>0, <1>3 DEF AddTop, ShapeInv, TypeOK
  <2>3. EntriesAreListed'
    BY <1>1, <1>3, <2>1 DEF AddTop, ShapeInv, EntriesAreListed
  <2>4. BelowIsListed'
    BY <1>1, <2>2 DEF ShapeInv, BelowIsListed
  <2>5. ListedIsBelow'
    BY <1>1, <1>2, <1>3, <2>2 DEF AddTop, ShapeInv, TypeOK, ListedIsBelow
  <2> QED
    BY <2>3, <2>4, <2>5
<1>4. CASE Ignore(path)
  <2>1. EntriesAreListed'
    BY <1>1, <1>4 DEF Ignore, shape, ShapeInv, TypeOK, EntriesAreListed
  <2>2. BelowIsListed'
    BY <1>1, <1>4 DEF Ignore, shape, ShapeInv, BelowIsListed
  <2>3. ListedIsBelow'
    BY <1>1, <1>4 DEF Ignore, shape, ShapeInv, ListedIsBelow
  <2> QED
    BY <2>1, <2>2, <2>3
<1>5. CASE AddBelow(path)
  <2> DEFINE ns == path[1]
             rest == Tail(path)
  <2>1. /\ Len(path) > 1 /\ ns \notin whole
        /\ keys' = keys \cup {ns} /\ whole' = whole
    BY <1>5 DEF AddBelow
  <2>2. \A k \in Name :
           below'[k] = IF k = ns THEN EntryOf(ns) \cup {rest}
                       ELSE IF SharesEntryWith(ns, k) THEN below[k] \cup {rest} ELSE below[k]
    BY <1>5 DEF AddBelow
  <2> HIDE DEF rest
  <2>3. EntriesAreListed'
    <3>1. ASSUME NEW p \in listed' PROVE p[1] \in keys' /\ (Len(p) = 1 => p[1] \in whole')
      <4>1. CASE p = path
        <5> DEFINE n == Len(path)
        <5>1. n \in Nat /\ n > 1
          BY <2>1, <1>0
        <5> HIDE DEF n
        <5>2. n # 1
          BY <5>1
        <5> QED
          BY <5>2, <4>1, <2>1 DEF n
      <4>2. CASE p \in listed
        BY <4>2, <2>1 DEF ShapeInv, EntriesAreListed
      <4> QED
        BY <4>1, <4>2, <1>1
    <3>2. \A k \in whole' : <<k>> \in listed'
      BY <1>1, <2>1 DEF ShapeInv, EntriesAreListed
    <3> QED
      BY <3>1, <3>2 DEF EntriesAreListed
  <2>4. ASSUME NEW k \in Name, NEW r \in below'[k]
        PROVE  \E p \in listed' : Len(p) > 1 /\ p[1] \in {k, Star} /\ r = Tail(p)
    <3>1. CASE r = rest /\ (k = ns \/ ns = Star)
      BY <3>1, <1>1, <2>1 DEF rest
    <3>2. CASE r \in below[k] \/ r \in below[Star]
      BY <3>2, <1>1 DEF ShapeInv, BelowIsListed, Name
    <3> QED
      BY <3>1, <3>2, <2>2, <2>4 DEF EntryOf, SharesEntryWith
  <2>5. BelowIsListed'
    BY <2>4 DEF BelowIsListed
  <2>6. \A k \in Name : k \in keys => below[k] \subseteq below'[k]
    BY <2>2 DEF EntryOf, SharesEntryWith
  <2>7. ASSUME NEW p \in listed', Len(p) > 1, p[1] \notin whole'
        PROVE  Tail(p) \in below'[p[1]]
    <3>1. CASE p = path
      BY <3>1, <1>0, <2>2 DEF rest
    <3>2. CASE p \in listed
      BY <3>2, <2>1, <2>6, <2>7, <1>2 DEF ShapeInv, EntriesAreListed, ListedIsBelow
    <3> QED
      BY <3>1, <3>2, <1>1
  <2>8. ASSUME NEW p \in listed', Len(p) > 1, p[1] = Star, Star \notin whole',
               NEW k \in keys' \ whole'
        PROVE  Tail(p) \in below'[k]
    <3>0. k \in Name /\ Star \in Name
      BY <1>0, <2>1 DEF ShapeInv, TypeOK, Name
    <3>1. CASE p = path
      BY <3>0, <3>1, <1>0, <2>1, <2>2, <2>8 DEF rest, SharesEntryWith
    <3>2. CASE p \in listed /\ k \in keys
      BY <3>0, <3>2, <2>1, <2>6, <2>8 DEF ShapeInv, ListedIsBelow
    <3>3. CASE p \in listed /\ k \notin keys
      <4>1. k = ns
        BY <3>3, <2>1
      <4>2. Tail(p) \in below[Star]
        BY <3>3, <2>1, <2>8 DEF ShapeInv, ListedIsBelow
      <4>3. Star \in keys
        BY <3>3, <2>8 DEF ShapeInv, EntriesAreListed
      <4> QED
        BY <3>0, <3>3, <4>1, <4>2, <4>3, <2>2 DEF EntryOf
    <3> QED
      BY <3>1, <3>2, <3>3, <1>1
  <2>9. ListedIsBelow'
    BY <2>7, <2>8 DEF ListedIsBelow
  <2> QED
    BY <2>3, <2>5, <2>9
<1> QED
  BY <1>3, <1>4, <1>5 DEF Reduce

LEMMA ShapeNext == ShapeInv /\ [Next]_vars => ShapeInv'
<1> SUFFICES ASSUME ShapeInv, [Next]_vars PROVE ShapeInv'
  OBVIOUS
<1>1. ASSUME NEW path \in Paths \ listed, Reduce(path) PROVE ShapeInv'
  BY <1>1, ReduceType, ReduceShape DEF ShapeInv
<1>2. ASSUME listed' = listed, UNCHANGED shape, remove' = remove, TypeOK'
      PROVE  ShapeInv'
  BY <1>2 DEF shape, ShapeInv, EntriesAreListed, BelowIsListed, ListedIsBelow
<1>3. CASE Build
  <2>1. TypeOK'
    BY <1>3 DEF Build, shape, ShapeInv, TypeOK
  <2> QED
    BY <2>1, <1>2, <1>3 DEF Build
<1>4. CASE UNCHANGED vars
  <2>1. TypeOK'
    BY <1>4 DEF vars, shape, ShapeInv, TypeOK
  <2> QED
    BY <2>1, <1>2, <1>4 DEF vars, shape
<1> QED
  BY <1>1, <1>3, <1>4 DEF Next

\* The shape always holds exactly what the listed paths say, apart from what a
\* wildcard listed alone takes away.
THEOREM ShapeInvariant == Spec => []ShapeInv
<1> QED
  BY ShapeInit, ShapeNext, PTL DEF Spec

-----------------------------------------------------------------------------
(* The properties *)

LEMMA PlacesAreSeqs ==
    ASSUME NEW place \in Place
    PROVE  place \in Seq(Key) /\ Len(place) > 0 /\ place[1] \in Key /\ place[1] \in Name
<1>1. place \in Seq(Key) /\ place # << >>
  BY RedactionAssumption
<1> QED
  BY <1>1 DEF Name

\* For every set of paths, in every order, each of them hides what it matches,
\* except below a key of other paths when the wildcard is listed alone.
THEOREM PathsAlwaysApply == Spec => []PathsApply
<1>1. ShapeInv => PathsApply
  <2> SUFFICES ASSUME ShapeInv, NEW path \in listed, NEW place \in Place,
                      AppliesTo(path, place)
               PROVE  Hidden(place)
    BY DEF PathsApply
  <2>1. path \in Seq(Name) /\ Len(path) \in Nat /\ Len(path) > 0
    BY ListedAreSeqs DEF ShapeInv
  <2>2. place \in Seq(Key) /\ Len(place) > 0 /\ place[1] \in Name
    BY PlacesAreSeqs
  <2>3. path[1] \in {Star, place[1]} /\ path[1] \in keys
    BY <2>1 DEF AppliesTo, Matches, ShapeInv, EntriesAreListed
  <2>4. CASE Len(path) = 1
    <3>1. path[1] \in whole /\ path = <<path[1]>>
      BY <2>1, <2>4, OneSegment DEF ShapeInv, EntriesAreListed
    <3>2. path[1] = Entry(place[1])
      BY <3>1, <2>3 DEF AppliesTo, Entry
    <3> QED
      BY <3>1, <3>2 DEF Hidden
  <2>5. CASE Len(path) > 1
    <3>1. Matches(Tail(path), Tail(place))
      BY <2>1, <2>2, <2>5, MatchBelow DEF AppliesTo
    <3> DEFINE e == Entry(place[1])
    <3>2. e \in keys
      BY <2>3 DEF Entry
    <3>3. CASE e \in whole
      BY <3>3 DEF Hidden
    <3>4. CASE e \notin whole
      <4>1. CASE path[1] = e
        <5>1. Tail(path) \in below[e]
          BY <4>1, <3>4, <2>5 DEF ShapeInv, ListedIsBelow
        <5> QED
          BY <5>1, <3>1, <3>2, <3>4 DEF Hidden
      <4>2. CASE path[1] # e
        <5>1. path[1] = Star /\ e = place[1] /\ <<Star>> \notin listed
          BY <4>2, <2>3 DEF AppliesTo, Entry
        <5>2. Star \notin whole
          BY <5>1 DEF ShapeInv, EntriesAreListed
        <5>3. Tail(path) \in below[e]
          BY <5>1, <5>2, <3>2, <3>4, <2>5 DEF ShapeInv, ListedIsBelow
        <5> QED
          BY <5>3, <3>1, <3>2, <3>4 DEF Hidden
      <4> QED
        BY <4>1, <4>2
    <3> QED
      BY <3>3, <3>4
  <2>6. Len(path) = 1 \/ Len(path) > 1
    <3> DEFINE n == Len(path)
    <3>1. n \in Nat /\ n > 0
      BY <2>1
    <3> HIDE DEF n
    <3>2. n = 1 \/ n > 1
      BY <3>1
    <3> QED
      BY <3>2 DEF n
  <2> QED
    BY <2>4, <2>5, <2>6
<1> QED
  BY <1>1, ShapeInvariant, PTL

\* For every set of paths, in every order, what is hidden is matched by one.
THEOREM OnlyPathsEverApply == Spec => []OnlyPathsApply
<1>1. ShapeInv => OnlyPathsApply
  <2> SUFFICES ASSUME ShapeInv, NEW place \in Place, Hidden(place)
               PROVE  Matched(place)
    BY DEF OnlyPathsApply
  <2> DEFINE e == Entry(place[1])
  <2>1. place \in Seq(Key) /\ Len(place) > 0 /\ Len(place) \in Nat /\ place[1] \in Name
    BY PlacesAreSeqs
  <2>2. e \in {Star, place[1]} /\ e \in Name
    BY <2>1 DEF Entry, Name
  <2>3. CASE e \in whole
    <3>1. <<e>> \in listed
      BY <2>3 DEF ShapeInv, EntriesAreListed
    <3>2. Matches(<<e>>, place)
      BY <2>1, <2>2 DEF Matches
    <3> QED
      BY <3>1, <3>2 DEF Matched
  <2>4. CASE e \notin whole
    <3>1. PICK rest \in below[e] : Matches(rest, Tail(place))
      BY <2>4 DEF Hidden
    <3>2. PICK path \in listed : Len(path) > 1 /\ path[1] \in {e, Star} /\ rest = Tail(path)
      BY <2>2, <3>1 DEF ShapeInv, BelowIsListed
    <3>3. path \in Seq(Name)
      BY ListedAreSeqs DEF ShapeInv
    <3>4. Matches(path, place)
      BY <2>1, <2>2, <3>1, <3>2, <3>3, MatchBelow
    <3> QED
      BY <3>4 DEF Matched
  <2> QED
    BY <2>3, <2>4
<1> QED
  BY <1>1, ShapeInvariant, PTL

\* The documentation's statement holds, for all paths in every order, as long as the
\* wildcard is not listed alone: that is the one exception there is
\* (redaction.js:31).
THEOREM EveryPathAppliesWithoutWildcardAlone ==
    Spec => [](<<Star>> \notin listed => EveryPathApplies)
<1>1. PathsApply => (<<Star>> \notin listed => EveryPathApplies)
  BY DEF PathsApply, AppliesTo, EveryPathApplies, Matched
<1> QED
  BY <1>1, PathsAlwaysApply, PTL
=============================================================================
