-------------------------- MODULE DestinationProofs --------------------------
(* Proofs about Destination, for any destinations, lines, errors and         *)
(* callbacks: lines are in the file or held, in order; the exit flushes;     *)
(* errors are heard; a broken pipe is silent.                                *)
EXTENDS Destination, SequenceLemmas, TLAPS

Line == 1 .. MaxLines

-----------------------------------------------------------------------------
(* Sequences *)

\* A line that is added to what is held is behind all lines.
LEMMA AppendHeld ==
    ASSUME NEW w \in Seq(Line), NEW b \in Seq(Line), NEW x \in Line
    PROVE  /\ Append(w \o b, x) = w \o Append(b, x)
           /\ Append(w \o b, x) = w \o b \o <<x>>
<1>1. Append(b, x) = b \o <<x>> /\ <<x>> \in Seq(Line) /\ w \o b \in Seq(Line)
  BY AppendIsConcat
<1>2. Append(w \o b, x) = (w \o b) \o <<x>>
  BY <1>1, AppendIsConcat
<1> QED
  BY <1>1, <1>2, ConcatAssociative

\* on-exit-leak-free forgets the destination and nothing else.
LEMMA UnregisterProperties ==
    ASSUME TypeOK, NEW d \in Dest, Unregister(d)
    PROVE  /\ registered' \in Seq(Dest)
           /\ Range(registered') = Range(registered) \ {d}
           /\ \A i, j \in DOMAIN registered' : registered'[i] = registered'[j] => i = j
<1>1. registered \in Seq(Dest) /\ DOMAIN registered = 1 .. Len(registered) /\ Len(registered) \in Nat
  BY DEF TypeOK
<1>2. \A i, j \in 1 .. Len(registered) : registered[i] = registered[j] => i = j
  BY <1>1 DEF TypeOK
<1>3. CASE \E i \in DOMAIN registered : registered[i] = d
  <2> DEFINE p == CHOOSE i \in DOMAIN registered : registered[i] = d
             new == RemoveAt(registered, p)
  <2>1. p \in 1 .. Len(registered) /\ registered[p] = d
    BY <1>1, <1>3
  <2>2. registered' = new
    BY <1>3 DEF Unregister
  <2> HIDE DEF p
  <2>3. /\ new \in Seq(Dest) /\ Len(new) = Len(registered) - 1
        /\ \A i \in 1 .. (Len(registered) - 1) :
              new[i] = IF i < p THEN registered[i] ELSE registered[i + 1]
    BY <1>1, <2>1, RemoveAtProperties
  <2> HIDE DEF new
  <2>4. DOMAIN new = 1 .. (Len(registered) - 1)
    BY <1>1, <2>3
  <2>5. ASSUME NEW i \in 1 .. (Len(registered) - 1), NEW j \in 1 .. (Len(registered) - 1),
               new[i] = new[j]
        PROVE  i = j
    BY <2>5, <2>3, <1>2, <1>1, <2>1
  <2>6. Range(new) \subseteq Range(registered) \ {d}
    <3> SUFFICES ASSUME NEW i \in 1 .. (Len(registered) - 1)
                 PROVE  new[i] \in Range(registered) \ {d}
      BY <2>4 DEF Range
    <3>1. PICK k \in 1 .. Len(registered) : k # p /\ new[i] = registered[k]
      <4>1. CASE i < p
        BY <4>1, <2>3, <1>1, <2>1
      <4>2. CASE ~(i < p)
        BY <4>2, <2>3, <1>1, <2>1
      <4> QED
        BY <4>1, <4>2
    <3> QED
      BY <3>1, <1>1, <1>2, <2>1 DEF Range
  <2>7. Range(registered) \ {d} \subseteq Range(new)
    <3> SUFFICES ASSUME NEW k \in 1 .. Len(registered), registered[k] # d
                 PROVE  registered[k] \in Range(new)
      BY <1>1 DEF Range
    <3>1. CASE k < p
      <4>1. k \in 1 .. (Len(registered) - 1) /\ new[k] = registered[k]
        BY <3>1, <2>1, <2>3, <1>1
      <4> QED
        BY <4>1, <2>4 DEF Range
    <3>2. CASE k > p
      <4>1. k - 1 \in 1 .. (Len(registered) - 1) /\ new[k - 1] = registered[k]
        BY <3>2, <2>1, <2>3, <1>1
      <4> QED
        BY <4>1, <2>4 DEF Range
    <3> QED
      BY <3>1, <3>2, <2>1, <1>1
  <2> QED
    BY <2>2, <2>3, <2>4, <2>5, <2>6, <2>7
<1>4. CASE ~ \E i \in DOMAIN registered : registered[i] = d
  BY <1>4, <1>1, <1>2 DEF Unregister, Range
<1> QED
  BY <1>3, <1>4

\* What is registered last is registered besides the others.
LEMMA RegisterProperties ==
    ASSUME TypeOK, NEW d \in Dest, d \notin Range(registered)
    PROVE  /\ Append(registered, d) \in Seq(Dest)
           /\ Range(Append(registered, d)) = Range(registered) \cup {d}
           /\ \A i, j \in DOMAIN Append(registered, d) :
                 Append(registered, d)[i] = Append(registered, d)[j] => i = j
<1> DEFINE new == Append(registered, d)
           n == Len(registered)
<1>1. registered \in Seq(Dest) /\ DOMAIN registered = 1 .. n /\ n \in Nat
  BY DEF TypeOK
<1>2. /\ new \in Seq(Dest) /\ Len(new) = n + 1 /\ DOMAIN new = 1 .. (n + 1)
      /\ \A i \in 1 .. n : new[i] = registered[i]
      /\ new[n + 1] = d
  BY <1>1
<1> HIDE DEF new
<1>3. \A i \in 1 .. n : registered[i] # d
  BY <1>1 DEF Range
<1>4. \A i, j \in 1 .. n : registered[i] = registered[j] => i = j
  BY <1>1 DEF TypeOK
<1>5. \A i, j \in 1 .. (n + 1) : new[i] = new[j] => i = j
  <2> SUFFICES ASSUME NEW i \in 1 .. (n + 1), NEW j \in 1 .. (n + 1), new[i] = new[j]
               PROVE  i = j
    OBVIOUS
  <2>1. i \in 1 .. n \/ i = n + 1
    BY <1>1
  <2>2. j \in 1 .. n \/ j = n + 1
    BY <1>1
  <2> QED
    BY <2>1, <2>2, <1>2, <1>3, <1>4
<1>6. Range(new) = Range(registered) \cup {d}
  <2>1. \A x : x \in Range(new) => x \in Range(registered) \cup {d}
    <3> SUFFICES ASSUME NEW i \in 1 .. (n + 1) PROVE new[i] \in Range(registered) \cup {d}
      BY <1>2 DEF Range
    <3>1. i \in 1 .. n \/ i = n + 1
      BY <1>1
    <3> QED
      BY <3>1, <1>1, <1>2 DEF Range
  <2>2. \A x : x \in Range(registered) \cup {d} => x \in Range(new)
    <3>1. n + 1 \in 1 .. (n + 1) /\ \A i \in 1 .. n : i \in 1 .. (n + 1)
      BY <1>1
    <3> QED
      BY <3>1, <1>1, <1>2 DEF Range
  <2> QED
    BY <2>1, <2>2
<1> QED
  BY <1>2, <1>5, <1>6 DEF new

-----------------------------------------------------------------------------
(* Types, and what a destination holds *)

LEMMA TypesInit == Init => TypeOK /\ HoldsOK
<1> SUFFICES ASSUME Init PROVE TypeOK /\ HoldsOK
  OBVIOUS
<1>1. \A d \in Dest : logged[d] = written[d] \o buffer[d]
  <2>1. << >> \o << >> = << >>
    OBVIOUS
  <2> QED
    BY <2>1 DEF Init
<1>2. Range(registered) = {} /\ \A d \in Dest : ~Usable(d)
  BY DEF Init, Range, Usable
<1> QED
  BY <1>1, <1>2 DEF Init, TypeOK, HoldsOK

\* What is logged and not held, written or dropped by a destination is kept.
HeldOK ==
    /\ buffer \in [Dest -> Seq(Line)]
    /\ written \in [Dest -> Seq(Line)]
    /\ DOMAIN logged = Dest
    /\ \A d \in Dest : logged[d] = written[d] \o buffer[d]

\* The rest of TypeOK.
StateOK ==
    /\ kind \in [Dest -> Kinds \cup {"none"}]
    /\ life \in [Dest -> {"none", "opening", "open", "closed"}]
    /\ process \in {"running", "exiting", "flushing", "gone"}
    /\ callbacks \in [Dest -> Nat]
    /\ broken \in [Dest -> BOOLEAN] /\ filtering \in [Dest -> BOOLEAN]
    /\ listening \in [Dest -> BOOLEAN] /\ ending \in [Dest -> BOOLEAN]
    /\ hooks \in Seq(Dest) /\ skipped \subseteq Dest
    /\ due \in [Dest -> Nat]

RegistryOK ==
    /\ registered \in Seq(Dest)
    /\ Range(registered) = {d \in Dest : kind[d] \in Async /\ Usable(d)}
    /\ \A i, j \in DOMAIN registered : registered[i] = registered[j] => i = j

LEMMA TypeParts == TypeOK <=> HeldOK /\ StateOK /\ RegistryOK
BY DEF TypeOK, HeldOK, StateOK, RegistryOK, Line

\* A step that leaves what is held alone.
LEMMA SameHeld ==
    ASSUME HeldOK, UNCHANGED <<buffer, written, logged>>
    PROVE  HeldOK'
BY DEF HeldOK

\* One destination's lines change, and stay together.
LEMMA HeldAt ==
    ASSUME HeldOK, NEW d \in Dest, NEW w \in Seq(Line), NEW b \in Seq(Line), NEW l,
           written' = [written EXCEPT ![d] = w], buffer' = [buffer EXCEPT ![d] = b],
           logged' = [logged EXCEPT ![d] = l], l = w \o b
    PROVE  HeldOK'
<1>1. \A e \in Dest : e # d => logged'[e] = written'[e] \o buffer'[e]
  BY DEF HeldOK
<1>2. logged'[d] = written'[d] \o buffer'[d]
  BY DEF HeldOK
<1> QED
  BY <1>1, <1>2 DEF HeldOK

\* A destination writes out all it holds.
LEMMA WrittenOutHeld ==
    ASSUME HeldOK, NEW d \in Dest, UNCHANGED logged,
           written' = [written EXCEPT ![d] = @ \o buffer[d]],
           buffer' = [buffer EXCEPT ![d] = << >>]
    PROVE  HeldOK'
<1>1. /\ written[d] \o buffer[d] \in Seq(Line)
      /\ (written[d] \o buffer[d]) \o << >> = written[d] \o buffer[d]
  BY ConcatProperties, ConcatEmptySeq DEF HeldOK
<1> QED
  BY <1>1 DEF HeldOK

\* A line is taken.
LEMMA PutHeld ==
    ASSUME HeldOK, HoldsOK, NEW d \in Dest, NEW x \in Line, Put(d, x),
           logged' = [logged EXCEPT ![d] = Append(@, x)]
    PROVE  HeldOK'
<1>1. /\ written[d] \in Seq(Line) /\ buffer[d] \in Seq(Line)
      /\ logged[d] = written[d] \o buffer[d]
      /\ written = [written EXCEPT ![d] = written[d]]
      /\ buffer = [buffer EXCEPT ![d] = buffer[d]]
      /\ logged' = [logged EXCEPT ![d] = Append(logged[d], x)]
  BY DEF HeldOK
<1>2. CASE kind[d] = "sync"
  <2>1. buffer[d] = << >>
    BY <1>2 DEF HoldsOK
  <2>2. Append(written[d], x) \in Seq(Line)
    BY <1>1
  <2>3. logged[d] = written[d]
    BY <1>1, <2>1, ConcatEmptySeq
  <2>4. Append(logged[d], x) = Append(written[d], x) \o buffer[d]
    BY <2>1, <2>2, <2>3, ConcatEmptySeq
  <2>5. /\ written' = [written EXCEPT ![d] = Append(written[d], x)]
        /\ buffer' = [buffer EXCEPT ![d] = buffer[d]]
    BY <1>1, <1>2 DEF Put
  <2> QED
    BY <1>1, <2>2, <2>4, <2>5, HeldAt
<1>3. CASE kind[d] # "sync"
  <2>1. Append(buffer[d], x) \in Seq(Line)
    BY <1>1
  <2>2. Append(logged[d], x) = written[d] \o Append(buffer[d], x)
    <3>1. written[d] \in Seq(Line) /\ buffer[d] \in Seq(Line)
      BY <1>1
    <3>2. Append(written[d] \o buffer[d], x) = written[d] \o Append(buffer[d], x)
      BY <3>1, AppendHeld, Zenon
    <3>3. logged[d] = written[d] \o buffer[d]
      BY <1>1
    <3> QED
      BY <3>2, <3>3, Zenon
  <2>3. /\ written' = [written EXCEPT ![d] = written[d]]
        /\ buffer' = [buffer EXCEPT ![d] = Append(buffer[d], x)]
    BY <1>1, <1>3 DEF Put
  <2> QED
    BY <1>1, <2>1, <2>2, <2>3, HeldAt
<1> QED
  BY <1>2, <1>3

LEMMA LogHeld ==
    ASSUME HeldOK, HoldsOK, NEW d \in Dest, Log(d)
    PROVE  HeldOK'
<1> DEFINE x == LinesLogged + 1
<1>1. x \in Line
  BY DEF Log, Line
<1>2. CASE broken[d]
  BY <1>2, SameHeld DEF Log
<1>3. CASE ~broken[d]
  <2>1. Put(d, x) /\ logged' = [logged EXCEPT ![d] = Append(@, x)]
    BY <1>3 DEF Log
  <2> QED
    BY <1>1, <2>1, PutHeld
<1> QED
  BY <1>2, <1>3

LEMMA FatalHeld ==
    ASSUME HeldOK, HoldsOK, NEW d \in Dest, NEW fails \in BOOLEAN, Fatal(d, fails)
    PROVE  HeldOK'
<1> DEFINE x == LinesLogged + 1
<1>1. x \in Line
  BY DEF Fatal, Line
<1>2. CASE broken[d]
  BY <1>2, SameHeld DEF Fatal, FlushSyncIsNoop
<1>3. CASE ~broken[d] /\ (life[d] # "open" \/ fails)
  <2>1. Put(d, x) /\ logged' = [logged EXCEPT ![d] = Append(@, x)]
    BY <1>3 DEF Fatal
  <2> QED
    BY <1>1, <2>1, PutHeld
<1>4. CASE ~broken[d] /\ life[d] = "open" /\ ~fails
  <2> DEFINE all == written[d] \o buffer[d] \o <<x>>
  <2>1. /\ written' = [written EXCEPT ![d] = all]
        /\ buffer' = [buffer EXCEPT ![d] = << >>]
        /\ logged' = [logged EXCEPT ![d] = Append(logged[d], x)]
    BY <1>4 DEF Fatal, FlushSyncIsNoop
  <2>2. /\ written[d] \in Seq(Line) /\ buffer[d] \in Seq(Line)
        /\ logged[d] = written[d] \o buffer[d]
    BY DEF HeldOK
  <2>3. written[d] \o buffer[d] \in Seq(Line)
    BY <2>2, ConcatProperties
  <2>4. Append(logged[d], x) = all /\ Append(logged[d], x) \in Seq(Line)
    <3>1. Append(written[d] \o buffer[d], x) = all
      BY <1>1, <2>2, AppendHeld, Zenon
    <3>2. Append(written[d] \o buffer[d], x) \in Seq(Line)
      BY <1>1, <2>3
    <3> QED
      BY <2>2, <3>1, <3>2, Zenon
  <2>5. Append(logged[d], x) = all \o << >>
    BY <2>4, ConcatEmptySeq
  <2>6. << >> \in Seq(Line)
    OBVIOUS
  <2> QED
    BY <2>1, <2>4, <2>5, <2>6, HeldAt
<1> QED
  BY <1>2, <1>3, <1>4

LEMMA HeldStep ==
    ASSUME TypeOK, HoldsOK, [Next]_vars
    PROVE  HeldOK'
<1> USE TypeParts
<1>1. ASSUME NEW d \in Dest, NEW k \in Kinds, NEW opens \in BOOLEAN,
             BuildSafeSonicBoom(d, k, opens)
      PROVE  HeldOK'
  BY <1>1, SameHeld DEF BuildSafeSonicBoom
<1>2. ASSUME NEW d \in Dest, Opened(d) \/ Listen(d) \/ Flush(d) \/ End(d) \/ Close(d)
      PROVE  HeldOK'
  BY <1>2, SameHeld DEF Opened, Listen, Flush, End, Close, streamState
<1>3. ASSUME NEW d \in Dest, Log(d) PROVE HeldOK'
  BY <1>3, LogHeld
<1>4. ASSUME NEW d \in Dest, NEW fails \in BOOLEAN, Fatal(d, fails) PROVE HeldOK'
  BY <1>4, FatalHeld
<1>5. ASSUME NEW d \in Dest, WriteOut(d) PROVE HeldOK'
  BY <1>5, WrittenOutHeld DEF WriteOut
<1>6. ASSUME NEW d \in Dest, NEW code \in {"EPIPE", "other"}, Error(d, code) PROVE HeldOK'
  BY <1>6, SameHeld DEF Error
<1>7. CASE AutoEnd
  <2>1. Head(hooks) \in Dest
    BY <1>7 DEF AutoEnd, TypeOK
  <2> QED
    BY <1>7, <2>1, SameHeld, WrittenOutHeld DEF AutoEnd
<1>8. CASE Exit \/ CallRegistered \/ AutoEndThrows \/ Leave \/ UNCHANGED vars
  BY <1>8, SameHeld DEF Exit, CallRegistered, AutoEndThrows, Leave, vars, streamState
<1> QED
  BY <1>1, <1>2, <1>3, <1>4, <1>5, <1>6, <1>7, <1>8 DEF Next

LEMMA StateStep ==
    ASSUME TypeOK, [Next]_vars
    PROVE  StateOK'
<1> USE TypeParts DEF StateOK, streamState, errorState, exitState, flushState
<1>1. ASSUME NEW d \in Dest, NEW k \in Kinds, NEW opens \in BOOLEAN,
             BuildSafeSonicBoom(d, k, opens)
      PROVE  StateOK'
  BY <1>1 DEF BuildSafeSonicBoom
<1>2. ASSUME NEW d \in Dest, Opened(d) \/ Listen(d) \/ End(d) \/ Close(d)
      PROVE  StateOK'
  BY <1>2 DEF Opened, Listen, End, Close
<1>3. ASSUME NEW d \in Dest, Log(d) \/ \E fails \in BOOLEAN : Fatal(d, fails) PROVE StateOK'
  BY <1>3 DEF Log, Fatal
<1>9. ASSUME NEW d \in Dest, WriteOut(d) PROVE StateOK'
  <2>1. callbacks' = [callbacks EXCEPT ![d] = 0]
        /\ UNCHANGED <<kind, life, broken, ending, errorState, exitState>>
    BY <1>9 DEF WriteOut
  <2> QED
    BY <2>1
<1>10. \A d \in Dest : Len(logged[d]) \in Nat
  <2> SUFFICES ASSUME NEW d \in Dest PROVE Len(logged[d]) \in Nat
    OBVIOUS
  <2>1. written[d] \o buffer[d] \in Seq(Line)
    BY ConcatProperties DEF HeldOK
  <2> QED
    BY <2>1 DEF HeldOK
<1>4. ASSUME NEW d \in Dest, Flush(d) PROVE StateOK'
  <2>1. callbacks' \in {callbacks, [callbacks EXCEPT ![d] = @ + 1]}
    BY <1>4 DEF Flush
  <2>2. callbacks[d] + 1 \in Nat
    OBVIOUS
  <2>3. [callbacks EXCEPT ![d] = @ + 1] \in [Dest -> Nat]
    BY <2>2
  <2>4. callbacks' \in [Dest -> Nat]
    BY <2>1, <2>3
  <2> QED
    BY <1>4, <2>4 DEF Flush
<1>5. ASSUME NEW d \in Dest, NEW code \in {"EPIPE", "other"}, Error(d, code) PROVE StateOK'
  <2>1. /\ callbacks' = [callbacks EXCEPT ![d] = 0]
        /\ broken' \in {broken, [broken EXCEPT ![d] = TRUE]}
        /\ filtering' \in {filtering, [filtering EXCEPT ![d] = FALSE]}
        /\ process' \in {process, "exiting"}
        /\ UNCHANGED <<kind, life, ending, listening, hooks, skipped, due>>
    BY <1>5 DEF Error, Exits, BreakPipe
  <2>2. callbacks' \in [Dest -> Nat]
    BY <2>1
  <2>3. broken' \in [Dest -> BOOLEAN]
    BY <2>1
  <2>4. filtering' \in [Dest -> BOOLEAN]
    BY <2>1
  <2>5. process' \in {"running", "exiting", "flushing", "gone"}
    BY <2>1
  <2> QED
    BY <2>1, <2>2, <2>3, <2>4, <2>5
<1>6. CASE Exit \/ Leave \/ UNCHANGED vars
  BY <1>6 DEF Exit, Exits, Leave, vars, RegistryOK
<1>11. CASE CallRegistered
  BY <1>10, <1>11 DEF CallRegistered, RegistryOK
<1>7. CASE AutoEnd
  BY <1>7 DEF AutoEnd
<1>8. CASE AutoEndThrows
  BY <1>8 DEF AutoEndThrows, Range
<1> QED
  BY <1>1, <1>2, <1>3, <1>4, <1>5, <1>6, <1>7, <1>8, <1>9, <1>11 DEF Next

\* A step that keeps kinds, lives and the registry.
LEMMA SameRegistry ==
    ASSUME RegistryOK, UNCHANGED <<kind, life, registered>>
    PROVE  RegistryOK'
BY DEF RegistryOK, Usable, Range

LEMMA RegistryStep ==
    ASSUME TypeOK, HoldsOK, [Next]_vars
    PROVE  RegistryOK'
<1> USE TypeParts DEF streamState, errorState, exitState, flushState
<1>1. ASSUME NEW d \in Dest, NEW k \in Kinds, NEW opens \in BOOLEAN,
             BuildSafeSonicBoom(d, k, opens)
      PROVE  RegistryOK'
  <2>1. /\ life[d] = "none" /\ kind[d] = "none"
        /\ kind' = [kind EXCEPT ![d] = k]
        /\ life' = [life EXCEPT ![d] = IF opens THEN "open" ELSE "opening"]
        /\ registered' = IF k \in Async THEN Append(registered, d) ELSE registered
    BY <1>1 DEF BuildSafeSonicBoom, Registers, HoldsOK
  <2>2. /\ kind'[d] = k /\ life'[d] \in {"open", "opening"}
        /\ \A e \in Dest : e # d => kind'[e] = kind[e] /\ life'[e] = life[e]
    BY <2>1 DEF StateOK
  <2>3. d \notin Range(registered)
    <3>1. ~Usable(d)
      BY <2>1 DEF Usable
    <3> QED
      BY <3>1 DEF RegistryOK
  <2>4. {e \in Dest : kind'[e] \in Async /\ life'[e] \in {"opening", "open"}}
          = {e \in Dest : kind[e] \in Async /\ life[e] \in {"opening", "open"}}
              \cup (IF k \in Async THEN {d} ELSE {})
    BY <2>1, <2>2
  <2>5. Range(registered') = Range(registered) \cup (IF k \in Async THEN {d} ELSE {})
    BY <2>1, <2>3, RegisterProperties
  <2>6. /\ registered' \in Seq(Dest)
        /\ \A i, j \in DOMAIN registered' : registered'[i] = registered'[j] => i = j
    BY <2>1, <2>3, RegisterProperties DEF RegistryOK
  <2> QED
    BY <2>4, <2>5, <2>6 DEF RegistryOK, Usable, Range
<1>2. ASSUME NEW d \in Dest, Opened(d) PROVE RegistryOK'
  <2>1. /\ life[d] = "opening" /\ life' = [life EXCEPT ![d] = "open"]
        /\ UNCHANGED <<kind, registered>>
    BY <1>2 DEF Opened
  <2>2. \A e \in Dest : Usable(e)' <=> Usable(e)
    BY <2>1 DEF StateOK, Usable
  <2> QED
    BY <2>1, <2>2 DEF RegistryOK, Range
<1>3. ASSUME NEW d \in Dest, Listen(d) \/ Log(d) \/ (\E f \in BOOLEAN : Fatal(d, f)) \/ Flush(d) \/ WriteOut(d) \/ End(d)
      PROVE  RegistryOK'
  BY <1>3, SameRegistry DEF Listen, Log, Fatal, Flush, WriteOut, End
<1>4. ASSUME NEW d \in Dest, NEW code \in {"EPIPE", "other"}, Error(d, code) PROVE RegistryOK'
  BY <1>4, SameRegistry DEF Error
<1>5. ASSUME NEW d \in Dest, Close(d) PROVE RegistryOK'
  <2>1. /\ life' = [life EXCEPT ![d] = "closed"] /\ Unregister(d) /\ UNCHANGED kind
    BY <1>5 DEF Close
  <2>2. /\ ~Usable(d)' /\ \A e \in Dest : e # d => (Usable(e)' <=> Usable(e))
    BY <2>1 DEF StateOK, Usable
  <2>3. {e \in Dest : kind[e] \in Async /\ Usable(e)'}
          = {e \in Dest : kind[e] \in Async /\ Usable(e)} \ {d}
    BY <2>2
  <2>4. /\ registered' \in Seq(Dest) /\ Range(registered') = Range(registered) \ {d}
        /\ \A i, j \in DOMAIN registered' : registered'[i] = registered'[j] => i = j
    BY <2>1, UnregisterProperties
  <2> QED
    BY <2>1, <2>3, <2>4 DEF RegistryOK, Range
<1>6. CASE Exit \/ CallRegistered \/ AutoEnd \/ AutoEndThrows \/ Leave \/ UNCHANGED vars
  BY <1>6, SameRegistry DEF Exit, CallRegistered, AutoEnd, AutoEndThrows, Leave, vars
<1> QED
  BY <1>1, <1>2, <1>3, <1>4, <1>5, <1>6 DEF Next

LEMMA HoldsStep ==
    ASSUME TypeOK, HoldsOK, [Next]_vars
    PROVE  HoldsOK'
<1> USE TypeParts DEF streamState, errorState, exitState, flushState, HoldsOK, StateOK, HeldOK
<1>1. ASSUME NEW d \in Dest, NEW k \in Kinds, NEW opens \in BOOLEAN,
             BuildSafeSonicBoom(d, k, opens)
      PROVE  HoldsOK'
  BY <1>1 DEF BuildSafeSonicBoom
<1>2. ASSUME NEW d \in Dest, Opened(d) \/ Listen(d) \/ Flush(d) \/ End(d) \/ Close(d)
      PROVE  HoldsOK'
  BY <1>2 DEF Opened, Listen, Flush, End, Close
<1>3. ASSUME NEW d \in Dest, Log(d) \/ \E f \in BOOLEAN : Fatal(d, f) PROVE HoldsOK'
  <2>1. /\ life[d] # "none" /\ UNCHANGED <<kind, life>>
        /\ \A e \in Dest : e # d => written'[e] = written[e] /\ buffer'[e] = buffer[e]
        /\ kind[d] = "sync" => buffer'[d] = buffer[d] \/ buffer'[d] = << >>
    BY <1>3 DEF Log, Fatal, Put, Usable
  <2> QED
    BY <2>1
<1>4. ASSUME NEW d \in Dest, WriteOut(d) PROVE HoldsOK'
  BY <1>4 DEF WriteOut
<1>5. ASSUME NEW d \in Dest, NEW code \in {"EPIPE", "other"}, Error(d, code) PROVE HoldsOK'
  BY <1>5 DEF Error
<1>6. CASE Exit \/ CallRegistered \/ AutoEndThrows \/ Leave \/ UNCHANGED vars
  BY <1>6 DEF Exit, CallRegistered, AutoEndThrows, Leave, vars
<1>7. CASE AutoEnd
  <2> DEFINE d == Head(hooks)
  <2>1. d \in Dest /\ d \in Range(hooks)
    BY <1>7 DEF AutoEnd, Range
  <2>2. CASE life[d] = "none"
    <3>1. written[d] \o buffer[d] = << >>
      BY <2>1, <2>2, ConcatEmptySeq
    <3> QED
      BY <1>7, <2>1, <2>2, <3>1 DEF AutoEnd
  <2>3. CASE life[d] # "none"
    BY <1>7, <2>1, <2>3 DEF AutoEnd
  <2> QED
    BY <2>2, <2>3
<1> QED
  BY <1>1, <1>2, <1>3, <1>4, <1>5, <1>6, <1>7 DEF Next

LEMMA TypesStep ==
    ASSUME TypeOK, HoldsOK, [Next]_vars
    PROVE  TypeOK' /\ HoldsOK'
<1>1. HeldOK' /\ StateOK' /\ RegistryOK' /\ HoldsOK'
  BY HeldStep, StateStep, RegistryStep, HoldsStep
<1> QED
  BY <1>1 DEF TypeOK, HeldOK, StateOK, RegistryOK, Line

\* A destination's lines are in the file or held, in the order they were logged,
\* and the exit registry holds every open asynchronous destination once.
THEOREM TypesAlwaysOK == Spec => [](TypeOK /\ HoldsOK)
<1>1. TypeOK /\ HoldsOK /\ [Next]_vars => TypeOK' /\ HoldsOK'
  BY TypesStep
<1> QED
  BY <1>1, TypesInit, PTL DEF Spec

-----------------------------------------------------------------------------
(* The exit *)

\* How many lines were logged is the sum of those in the file and those held.
LEMMA LoggedLength ==
    ASSUME TypeOK, NEW d \in Dest
    PROVE  /\ Len(logged[d]) = Len(written[d]) + Len(buffer[d])
           /\ Len(logged[d]) \in Nat /\ Len(written[d]) \in Nat
           /\ buffer[d] = << >> => Len(logged[d]) = Len(written[d])
<1>1. /\ written[d] \in Seq(1 .. MaxLines) /\ buffer[d] \in Seq(1 .. MaxLines)
      /\ logged[d] = written[d] \o buffer[d]
  BY DEF TypeOK
<1>2. Len(logged[d]) = Len(written[d]) + Len(buffer[d])
  BY <1>1, ConcatProperties
<1>3. Len(written[d]) \in Nat /\ Len(buffer[d]) \in Nat
  BY <1>1
<1>4. ASSUME buffer[d] = << >> PROVE Len(buffer[d]) = 0
  BY <1>4
<1>5. Len(logged[d]) \in Nat
  <2>1. written[d] \o buffer[d] \in Seq(1 .. MaxLines)
    BY <1>1, ConcatProperties
  <2>2. logged[d] \in Seq(1 .. MaxLines)
    BY <1>1, <2>1, Zenon
  <2> QED
    BY <2>2, LenProperties, Zenon
<1>6. ASSUME buffer[d] = << >> PROVE Len(logged[d]) = Len(written[d])
  BY <1>2, <1>3, <1>4, <1>6
<1> QED
  BY <1>2, <1>3, <1>5, <1>6, Zenon

\* Lines are only added to those logged.
LEMMA LoggedGrows ==
    ASSUME TypeOK, [Next]_vars, NEW d \in Dest
    PROVE  Len(logged'[d]) >= Len(logged[d]) /\ Len(logged'[d]) \in Nat
<1>1. /\ logged[d] \in Seq(Line) /\ Len(logged[d]) \in Nat /\ DOMAIN logged = Dest
  <2>1. /\ written[d] \in Seq(Line) /\ buffer[d] \in Seq(Line)
        /\ logged[d] = written[d] \o buffer[d] /\ DOMAIN logged = Dest
    BY DEF TypeOK, Line
  <2>2. logged[d] \in Seq(Line)
    BY <2>1, ConcatProperties
  <2>3. Len(logged[d]) \in Nat
    BY <2>2
  <2> QED
    BY <2>1, <2>2, <2>3, Zenon
<1>2. ASSUME logged' = logged
      PROVE  Len(logged'[d]) >= Len(logged[d]) /\ Len(logged'[d]) \in Nat
  BY <1>1, <1>2
<1>3. ASSUME NEW e \in Dest, Log(e) \/ \E f \in BOOLEAN : Fatal(e, f)
      PROVE  Len(logged'[d]) >= Len(logged[d]) /\ Len(logged'[d]) \in Nat
  <2> DEFINE x == LinesLogged + 1
  <2>1. x \in Line /\ logged' \in {logged, [logged EXCEPT ![e] = Append(@, x)]}
    BY <1>3 DEF Log, Fatal, Line
  <2> HIDE DEF x
  <2>2. Append(logged[d], x) \in Seq(Line) /\ Len(Append(logged[d], x)) = Len(logged[d]) + 1
    BY <1>1, <2>1
  <2>3. logged'[d] \in {logged[d], Append(logged[d], x)}
    BY <1>1, <2>1
  <2> QED
    BY <1>1, <2>2, <2>3
<1> USE DEF streamState, errorState, exitState, flushState
<1>4. ASSUME NEW e \in Dest, NEW k \in Kinds, NEW opens \in BOOLEAN,
             BuildSafeSonicBoom(e, k, opens)
      PROVE  logged' = logged
  BY <1>4 DEF BuildSafeSonicBoom
<1>5. ASSUME NEW e \in Dest, Opened(e) \/ Listen(e) \/ Flush(e) \/ WriteOut(e) \/ End(e) \/ Close(e)
      PROVE  logged' = logged
  BY <1>5 DEF Opened, Listen, Flush, WriteOut, End, Close
<1>6. ASSUME NEW e \in Dest, NEW code \in {"EPIPE", "other"}, Error(e, code)
      PROVE  logged' = logged
  BY <1>6 DEF Error
<1>7. ASSUME Exit \/ CallRegistered \/ AutoEnd \/ AutoEndThrows \/ Leave \/ UNCHANGED vars
      PROVE  logged' = logged
  BY <1>7 DEF Exit, CallRegistered, AutoEnd, AutoEndThrows, Leave, vars
<1> QED
  BY <1>2, <1>3, <1>4, <1>5, <1>6, <1>7 DEF Next

\* Lines are only added to those in the file by what the application logs.
LEMMA WrittenGrows ==
    ASSUME TypeOK, NEW d \in Dest, NEW e \in Dest,
           Log(e) \/ \E f \in BOOLEAN : Fatal(e, f)
    PROVE  Len(written'[d]) >= Len(written[d]) /\ Len(written'[d]) \in Nat
<1> DEFINE x == LinesLogged + 1
           held == written[d] \o buffer[d]
<1>1. /\ written[d] \in Seq(Line) /\ buffer[d] \in Seq(Line)
      /\ DOMAIN written = Dest
  BY DEF TypeOK, Line
<1>2. x \in Line
  BY DEF Log, Fatal, Line
<1>3. \/ written'[d] = written[d]
      \/ written'[d] = Append(written[d], x)
      \/ written'[d] = held \o <<x>>
      \/ written'[d] = held \o << >>
  <2>1. CASE Log(e)
    BY <1>1, <2>1 DEF Log, Put
  <2>2. CASE \E f \in BOOLEAN : Fatal(e, f)
    BY <1>1, <2>2 DEF Fatal, Put
  <2> QED
    BY <2>1, <2>2
<1> HIDE DEF x
<1>4. held \in Seq(Line) /\ Len(held) = Len(written[d]) + Len(buffer[d])
  BY <1>1, ConcatProperties
<1> HIDE DEF held
<1>5. <<x>> \in Seq(Line) /\ Len(<<x>>) = 1
  BY <1>2
<1>6. Len(held \o <<x>>) = Len(held) + 1
  <2>1. Len(held \o <<x>>) = Len(held) + Len(<<x>>)
    BY <1>4, <1>5, ConcatProperties, Zenon
  <2> QED
    BY <1>5, <2>1
<1>7. held \o << >> = held
  BY <1>4, ConcatEmptySeq
<1>8. Len(Append(written[d], x)) = Len(written[d]) + 1
  BY <1>1, <1>2
<1>9. Len(written[d]) \in Nat /\ Len(buffer[d]) \in Nat
  BY <1>1
<1> QED
  <2>1. Len(held) \in Nat /\ Len(held) >= Len(written[d])
    <3>1. Len(held) = Len(written[d]) + Len(buffer[d])
      BY <1>4
    <3>2. \A m, n \in Nat : m + n \in Nat /\ m + n >= m
      OBVIOUS
    <3> QED
      BY <1>9, <3>1, <3>2, Zenon
  <2>2. CASE written'[d] = written[d]
    BY <1>9, <2>2
  <2>3. CASE written'[d] = Append(written[d], x)
    BY <1>8, <1>9, <2>3
  <2>4. CASE written'[d] = held \o <<x>>
    BY <1>6, <1>9, <2>1, <2>4
  <2>5. CASE written'[d] = held \o << >>
    BY <1>7, <2>1, <2>5
  <2> QED
    BY <1>3, <2>2, <2>3, <2>4, <2>5

LEMMA DueStep ==
    ASSUME TypeOK, ExitOK, [Next]_vars, NEW d \in Dest
    PROVE  due'[d] <= Len(logged'[d])
<1> USE DEF streamState, errorState, exitState, flushState
<1>1. /\ due[d] \in Nat /\ due[d] <= Len(logged[d]) /\ Len(logged[d]) \in Nat
  BY LoggedLength DEF TypeOK, ExitOK
<1>2. CASE CallRegistered
  BY <1>1, <1>2 DEF CallRegistered
<1>3. ASSUME due' = due PROVE due'[d] <= Len(logged'[d])
  <2>1. Len(logged'[d]) >= Len(logged[d]) /\ Len(logged'[d]) \in Nat
    BY LoggedGrows
  <2> QED
    BY <1>1, <1>3, <2>1
<1>4. CASE ~CallRegistered
  <2>1. ASSUME NEW e \in Dest, NEW k \in Kinds, NEW opens \in BOOLEAN,
               BuildSafeSonicBoom(e, k, opens)
        PROVE  due' = due
    BY <2>1 DEF BuildSafeSonicBoom
  <2>2. ASSUME NEW e \in Dest, Opened(e) \/ Listen(e) \/ Flush(e) \/ WriteOut(e) \/ End(e) \/ Close(e)
        PROVE  due' = due
    BY <2>2 DEF Opened, Listen, Flush, WriteOut, End, Close
  <2>3. ASSUME NEW e \in Dest, Log(e) \/ \E f \in BOOLEAN : Fatal(e, f) PROVE due' = due
    BY <2>3 DEF Log, Fatal
  <2>4. ASSUME NEW e \in Dest, NEW code \in {"EPIPE", "other"}, Error(e, code) PROVE due' = due
    BY <2>4 DEF Error
  <2>5. ASSUME Exit \/ AutoEnd \/ AutoEndThrows \/ Leave \/ UNCHANGED vars PROVE due' = due
    BY <2>5 DEF Exit, AutoEnd, AutoEndThrows, Leave, vars
  <2>6. due' = due
    BY <1>4, <2>1, <2>2, <2>3, <2>4, <2>5 DEF Next
  <2> QED
    BY <1>3, <2>6
<1> QED
  BY <1>2, <1>4

\* What is due of d is not in the file yet.
Owes(d) == Flushable(d) /\ ~(Len(written[d]) >= due[d])

LEMMA ExitStep ==
    ASSUME TypeOK, ExitOK, [Next]_vars
    PROVE  ExitOK'
<1> USE DEF streamState, errorState, exitState, flushState
<1>0. \A d \in Dest : due'[d] <= Len(logged'[d])
  BY DueStep
<1>1. ASSUME UNCHANGED <<hooks, skipped>>, process = "running",
             process' \in {"running", "exiting"}
      PROVE  ExitOK'
  BY <1>0, <1>1 DEF ExitOK
<1>2. ASSUME NEW d \in Dest, NEW k \in Kinds, NEW opens \in BOOLEAN,
             BuildSafeSonicBoom(d, k, opens)
      PROVE  ExitOK'
  BY <1>1, <1>2 DEF BuildSafeSonicBoom
<1>3. ASSUME NEW d \in Dest,
             Opened(d) \/ Listen(d) \/ Flush(d) \/ WriteOut(d) \/ End(d) \/ Close(d)
      PROVE  ExitOK'
  BY <1>1, <1>3 DEF Opened, Listen, Flush, WriteOut, End, Close
<1>4. ASSUME NEW d \in Dest, Log(d) \/ \E f \in BOOLEAN : Fatal(d, f) PROVE ExitOK'
  <2>1. UNCHANGED <<kind, life, broken, hooks, skipped, process, due>>
    BY <1>4 DEF Log, Fatal
  <2>2. ASSUME NEW e \in Dest, Owes(e)' PROVE Owes(e)
    <3>1. Len(written'[e]) >= Len(written[e])
      BY <1>4, WrittenGrows
    <3>2. /\ ~(Len(written'[e]) >= due[e]) /\ due[e] \in Nat /\ Flushable(e)
      BY <2>1, <2>2 DEF Owes, Flushable, TypeOK
    <3>3. Len(written[e]) \in Nat /\ Len(written'[e]) \in Nat
      BY <1>4, LoggedLength, WrittenGrows
    <3> QED
      BY <3>1, <3>2, <3>3 DEF Owes
  <2>3. ASSUME process' \in {"flushing", "gone"}, NEW e \in Dest, Owes(e)'
        PROVE  e \in Range(hooks')
    BY <2>1, <2>2, <2>3 DEF ExitOK, Owes
  <2> QED
    BY <1>0, <2>1, <2>3 DEF ExitOK, Owes
<1>5. ASSUME NEW d \in Dest, NEW code \in {"EPIPE", "other"}, Error(d, code) PROVE ExitOK'
  BY <1>1, <1>5 DEF Error, Exits
<1>6. CASE Exit
  BY <1>1, <1>6 DEF Exit, Exits
<1>7. CASE CallRegistered
  <2>1. \A d \in Dest : Flushable(d) => d \in Range(registered)
    BY DEF Flushable, TypeOK, Usable
  <2> QED
    BY <1>0, <1>7, <2>1 DEF CallRegistered, ExitOK, Flushable, Range
<1>8. CASE AutoEnd
  <2>0. PICK d \in Dest : d = Head(hooks)
    BY <1>8 DEF AutoEnd, TypeOK
  <2>1. /\ hooks \in Seq(Dest) /\ hooks # << >> /\ hooks' = Tail(hooks)
        /\ process = "flushing" /\ process' = "flushing" /\ skipped = {} /\ skipped' = {}
        /\ UNCHANGED <<kind, life, broken, due>>
    BY <1>8 DEF AutoEnd, TypeOK, ExitOK
  <2>2. \A e \in Range(hooks) : e = d \/ e \in Range(hooks')
    <3>1. /\ Len(hooks) \in Nat /\ DOMAIN hooks = 1 .. Len(hooks) /\ d = hooks[1]
          /\ Len(hooks') = Len(hooks) - 1 /\ DOMAIN hooks' = 1 .. (Len(hooks) - 1)
          /\ \A i \in 1 .. (Len(hooks) - 1) : hooks'[i] = hooks[i + 1]
      BY <2>0, <2>1
    <3> SUFFICES ASSUME NEW i \in 1 .. Len(hooks), i # 1 PROVE hooks[i] \in Range(hooks')
      BY <3>1 DEF Range
    <3>2. i - 1 \in 1 .. (Len(hooks) - 1) /\ hooks'[i - 1] = hooks[i]
      BY <3>1
    <3> QED
      BY <3>1, <3>2 DEF Range
  <2>3. \A e \in Dest : e # d => (Owes(e)' => Owes(e))
    BY <1>8, <2>0, <2>1 DEF AutoEnd, Owes, Flushable, TypeOK
  <2>4. ~Owes(d)'
    <3>1. CASE broken[d] \/ life[d] = "closed"
      BY <2>1, <3>1 DEF Owes, Flushable
    <3>2. CASE ~broken[d] /\ life[d] # "closed"
      <4>1. written'[d] = written[d] \o buffer[d]
        BY <1>8, <2>0, <3>2 DEF AutoEnd, FlushSyncIsNoop, TypeOK
      <4>2. written'[d] = logged[d] /\ due[d] <= Len(logged[d])
        BY <4>1 DEF TypeOK, ExitOK
      <4>3. due[d] \in Nat /\ Len(logged[d]) \in Nat
        BY LoggedLength DEF TypeOK
      <4> QED
        BY <2>1, <4>2, <4>3 DEF Owes
    <3> QED
      BY <3>1, <3>2
  <2>5. \A e \in Dest : Owes(e)' => e \in Range(hooks')
    BY <2>1, <2>2, <2>3, <2>4 DEF ExitOK, Owes
  <2> QED
    BY <1>0, <2>1, <2>5 DEF ExitOK, Owes
<1>9. CASE AutoEndThrows
  <2>1. /\ process = "flushing" /\ process' = "flushing" /\ hooks # << >> /\ hooks' = << >>
        /\ skipped = {} /\ skipped' = Range(hooks)
        /\ UNCHANGED <<kind, life, broken, written, due>>
    BY <1>9 DEF AutoEndThrows, ExitOK
  <2>2. ASSUME NEW e \in Dest, Flushable(e)' PROVE Len(written'[e]) >= due'[e]
    BY <2>1, <2>2 DEF Flushable, ExitOK
  <2> QED
    BY <1>0, <2>1, <2>2 DEF ExitOK
<1>10. CASE Leave
  BY <1>0, <1>10 DEF Leave, ExitOK, Flushable, Range
<1>11. CASE UNCHANGED vars
  BY <1>0, <1>11 DEF vars, ExitOK, Flushable, Range
<1> QED
  BY <1>2, <1>3, <1>4, <1>5, <1>6, <1>7, <1>8, <1>9, <1>10, <1>11 DEF Next

\* When the process is gone, what was logged before the exit registry's listener
\* had its turn is in the file of an asynchronous destination that is open and not
\* broken, unless autoEnd of it or of one before it threw.
THEOREM ExitAlwaysFlushes == Spec => []ExitFlushes
<1>1. Init => ExitOK
  <2>1. Len(<< >>) = 0
    OBVIOUS
  <2> QED
    BY <2>1 DEF Init, ExitOK
<1>2. TypeOK /\ ExitOK /\ [Next]_vars => ExitOK'
  BY ExitStep
<1>3. TypeOK /\ ExitOK => ExitFlushes
  BY DEF ExitOK, ExitFlushes, TypeOK, Range
<1> QED
  BY <1>1, <1>2, <1>3, TypesAlwaysOK, PTL DEF Spec

-----------------------------------------------------------------------------
(* Errors *)

\* An error that is no broken pipe is heard or ends the process.
THEOREM ErrorsAreAlwaysHeard == Spec => []ErrorsAreHeard
<1>1. Init => ErrorsAreHeard
  BY DEF Init, ErrorsAreHeard, Quiet
<1>2. TypeOK /\ ErrorsAreHeard /\ [Next]_vars => ErrorsAreHeard'
  <2> SUFFICES ASSUME TypeOK, ErrorsAreHeard, [Next]_vars PROVE ErrorsAreHeard'
    OBVIOUS
  <2>1. ASSUME obs'.kind # "error" PROVE ErrorsAreHeard'
    BY <2>1 DEF ErrorsAreHeard
  <2>2. ASSUME NEW d \in Dest, NEW code \in {"EPIPE", "other"}, Error(d, code)
        PROVE  ErrorsAreHeard'
    <3>1. obs'.code = code /\ obs'.of = d
      BY <2>2 DEF Error
    <3>2. CASE FiltersEPIPE(d, code)
      BY <2>2, <3>1, <3>2 DEF Error, BreakPipe, FiltersEPIPE, ErrorsAreHeard, TypeOK
    <3>3. CASE ~FiltersEPIPE(d, code)
      <4> DEFINE heard == (IF listening[d] THEN (IF filtering[d] THEN 2 ELSE 1) ELSE 0)
                             + callbacks[d]
      <4>1. heard \in Nat
        BY DEF TypeOK
      <4>2. obs'.heard = heard /\ (heard > 0 \/ process' = "exiting")
        BY <2>2, <3>3 DEF Error, Exits
      <4> HIDE DEF heard
      <4> QED
        BY <4>1, <4>2 DEF ErrorsAreHeard
    <3> QED
      BY <3>2, <3>3
  <2>3. CASE UNCHANGED vars
    BY <2>3 DEF vars, streamState, errorState, exitState, ErrorsAreHeard
  <2>4. ASSUME NEW d \in Dest, NEW k \in Kinds, NEW opens \in BOOLEAN,
               BuildSafeSonicBoom(d, k, opens)
        PROVE  ErrorsAreHeard'
    BY <2>1, <2>4 DEF BuildSafeSonicBoom, Quiet
  <2>5. ASSUME NEW d \in Dest, Opened(d) \/ Listen(d) \/ Log(d) \/ (\E f \in BOOLEAN : Fatal(d, f)) \/ End(d) \/ Close(d)
        PROVE  ErrorsAreHeard'
    <3>1. obs' = Quiet
      BY <2>5 DEF Opened, Listen, Log, Fatal, End, Close
    <3> QED
      BY <2>1, <3>1 DEF Quiet
  <2>6. ASSUME NEW d \in Dest, Flush(d) \/ WriteOut(d) PROVE ErrorsAreHeard'
    <3>1. obs' = Quiet
      BY <2>6 DEF Flush, WriteOut
    <3> QED
      BY <2>1, <3>1 DEF Quiet
  <2>7. CASE Exit \/ CallRegistered \/ AutoEnd \/ AutoEndThrows \/ Leave
    <3>1. obs' = Quiet \/ \E d : obs' = [kind |-> "thrown", of |-> d]
      BY <2>7 DEF Exit, CallRegistered, AutoEnd, AutoEndThrows, Leave
    <3> QED
      BY <2>1, <3>1 DEF Quiet
  <2> QED
    BY <2>2, <2>3, <2>4, <2>5, <2>6, <2>7 DEF Next
<1> QED
  BY <1>1, <1>2, TypesAlwaysOK, PTL DEF Spec

-----------------------------------------------------------------------------
(* The broken pipe *)

\* After a broken pipe the destination takes no line, writes none and does not
\* throw at exit.
THEOREM BrokenIsAlwaysSilent == Spec => BrokenIsSilent
<1> DEFINE Silent(d) == /\ broken'[d] /\ logged'[d] = logged[d] /\ written'[d] = written[d]
                        /\ obs' # [kind |-> "thrown", of |-> d]
<1>1. TypeOK /\ [Next]_vars => [\A d \in Dest : broken[d] => Silent(d)]_vars
  <2> SUFFICES ASSUME TypeOK, Next, NEW d \in Dest, broken[d]
               PROVE  Silent(d)
    OBVIOUS
  <2> USE DEF streamState, errorState, exitState, flushState, Quiet
  <2>1. /\ broken \in [Dest -> BOOLEAN] /\ DOMAIN logged = Dest /\ DOMAIN written = Dest
    BY DEF TypeOK
  <2>2. ASSUME NEW e \in Dest, NEW k \in Kinds, NEW opens \in BOOLEAN,
               BuildSafeSonicBoom(e, k, opens)
        PROVE  Silent(d)
    BY <2>2 DEF BuildSafeSonicBoom
  <2>3. ASSUME NEW e \in Dest, Opened(e) \/ Listen(e) \/ End(e) \/ Close(e)
        PROVE  Silent(d)
    BY <2>3 DEF Opened, Listen, End, Close
  <2>4. ASSUME NEW e \in Dest, Log(e) PROVE Silent(d)
    BY <2>1, <2>4 DEF Log, Put
  <2>5. ASSUME NEW e \in Dest, NEW f \in BOOLEAN, Fatal(e, f) PROVE Silent(d)
    <3>1. logged'[d] = logged[d] /\ broken' = broken
      BY <2>1, <2>5 DEF Fatal
    <3>2. written'[d] = written[d]
      BY <2>1, <2>5 DEF Fatal, Put, FlushSyncIsNoop
    <3>3. obs'.kind = "quiet"
      BY <2>5 DEF Fatal
    <3> QED
      BY <3>1, <3>2, <3>3
  <2>6. ASSUME NEW e \in Dest, Flush(e) PROVE Silent(d)
    <3>1. obs'.kind = "quiet"
      BY <2>6 DEF Flush
    <3> QED
      BY <2>6, <3>1 DEF Flush
  <2>7. ASSUME NEW e \in Dest, WriteOut(e) PROVE Silent(d)
    <3>1. obs'.kind = "quiet"
      BY <2>7 DEF WriteOut
    <3>2. e # d /\ written'[d] = written[d] /\ UNCHANGED <<broken, logged>>
      BY <2>1, <2>7 DEF WriteOut
    <3> QED
      BY <3>1, <3>2
  <2>8. ASSUME NEW e \in Dest, NEW code \in {"EPIPE", "other"}, Error(e, code) PROVE Silent(d)
    <3>1. obs'.kind = "error" /\ UNCHANGED <<written, logged>>
      BY <2>8 DEF Error
    <3>2. broken' \in {broken, [broken EXCEPT ![e] = TRUE]}
      BY <2>8 DEF Error, BreakPipe
    <3> QED
      BY <2>1, <3>1, <3>2
  <2>9. CASE Exit \/ CallRegistered \/ Leave
    BY <2>9 DEF Exit, CallRegistered, Leave
  <2>10. CASE AutoEnd
    <3>1. Head(hooks) \in Dest
      BY <2>10 DEF AutoEnd, TypeOK
    <3>2. CASE Head(hooks) = d
      BY <2>10, <3>2 DEF AutoEnd, FlushSyncIsNoop
    <3>3. CASE Head(hooks) # d
      BY <2>1, <2>10, <3>1, <3>3 DEF AutoEnd
    <3> QED
      BY <3>2, <3>3
  <2>11. CASE AutoEndThrows
    <3>1. Head(hooks) # d /\ obs' = [kind |-> "thrown", of |-> Head(hooks)]
      BY <2>11 DEF AutoEndThrows, FlushSyncIsNoop
    <3> QED
      BY <2>11, <3>1 DEF AutoEndThrows
  <2> QED
    BY <2>2, <2>3, <2>4, <2>5, <2>6, <2>7, <2>8, <2>9, <2>10, <2>11 DEF Next
<1> QED
  BY <1>1, TypesAlwaysOK, PTL DEF Spec, BrokenIsSilent
=============================================================================
