----------------------------- MODULE LineProofs -----------------------------
(* Proofs about Line, for any keys, paths, options and bounds: what a reader *)
(* of a line gets for its keys, and that what Redaction says of the paths    *)
(* holds of the redactors a line uses.                                       *)
EXTENDS Line, RedactionProofs

-----------------------------------------------------------------------------
(* The inductive invariant *)

Texts == {"plain", "censored", "filtered", "undefined"}

\* A piece of the text: what is written for its keys.
Piece == UNION {[ks -> Value] : ks \in SUBSET (Key \cup {NestedKey})}

\* The bindings are as they were rendered, which the redactors still would.
RenderedOK ==
    /\ format \in Formats
    /\ bound \in Seq(BoundObjects) /\ Len(bound) <= MaxBindings
    /\ chindings \in Seq(Piece) /\ Len(chindings) = Len(bound)
    /\ \A n \in 1 .. Len(bound) : chindings[n] = BoundPiece(n, bound[n])

HasBound(n, k) == k \in DOMAIN chindings[n]

\* Of the bindings that have a key some are the newest.
NewestBound ==
    \A k \in Key :
        \/ \A n \in 1 .. Len(chindings) : ~HasBound(n, k)
        \/ \E n \in 1 .. Len(chindings) :
              /\ HasBound(n, k)
              /\ \A m \in 1 .. Len(chindings) : HasBound(m, k) => m <= n

\* The last line is what the call gives with the bindings there are now.
LineIsOfCall ==
    line # Nothing =>
        /\ line.arg \in Args
        /\ line.top = AsJson(Mixed(ObjectOf(line.arg)), MessageOf(line.arg))
        /\ line.nested = IF Nests(Mixed(ObjectOf(line.arg)))
                         THEN ObjectPiece(Mixed(ObjectOf(line.arg))) ELSE << >>

\* Nothing is written before the redactors are made.
BuiltFirst == built \/ (bound = << >> /\ line = Nothing)

LineInv == RenderedOK /\ NewestBound /\ LineIsOfCall /\ BuiltFirst

-----------------------------------------------------------------------------
(* The pieces *)

LEMMA WrittenIsText ==
    ASSUME NEW k, NEW value
    PROVE  Text(k) \in Texts /\ Written(k, value) \in Texts
BY DEF Text, Written, Texts

LEMMA SerializerGives ==
    ASSUME format \in Formats, NEW k
    PROVE  SerializedBy(k) \in SerializerResult
BY LineAssumption DEF SerializedBy, SerializerResult

LEMMA PieceOf ==
    ASSUME NEW ks \in SUBSET (Key \cup {NestedKey}), NEW piece \in [ks -> Value]
    PROVE  piece \in Piece /\ DOMAIN piece = ks
BY DEF Piece

LEMMA PieceGives ==
    ASSUME NEW piece \in Piece
    PROVE  /\ DOMAIN piece \subseteq Key \cup {NestedKey}
           /\ \A k \in DOMAIN piece : piece[k] \in Value
           /\ Range(piece) \subseteq Value
BY DEF Piece, Range

LEMMA EmptyPiece == << >> \in Piece /\ DOMAIN << >> = {}
<1>1. << >> \in [{} -> Value] /\ DOMAIN << >> = {}
  OBVIOUS
<1> QED
  BY <1>1, PieceOf

LEMMA LevelPieceOK == LevelPiece \in Piece /\ DOMAIN LevelPiece = {LevelKey}
                        /\ LevelPiece[LevelKey].by = "level"
                        /\ LevelPiece[LevelKey].text = "plain"
<1>1. [by |-> "level", of |-> 0, text |-> "plain"] \in Value
  BY LineAssumption DEF Value
<1>2. LevelPiece \in [{LevelKey} -> Value]
  BY <1>1 DEF LevelPiece
<1>3. LevelKey \in Key
  BY LineAssumption
<1> QED
  BY <1>2, <1>3, PieceOf DEF LevelPiece

LEMMA NestedPieceOK == NestedPiece \in Piece /\ DOMAIN NestedPiece = {NestedKey}
                         /\ NestedPiece[NestedKey].text = "plain"
<1>1. [by |-> "object", of |-> 0, text |-> "plain"] \in Value
  BY LineAssumption DEF Value
<1>2. NestedPiece \in [{NestedKey} -> Value]
  BY <1>1 DEF NestedPiece
<1> QED
  BY <1>2, PieceOf DEF NestedPiece

\* Bindings are written for keys they were given, never for that of the level,
\* and have a text (tools.js:250-262).
LEMMA BoundPieceOK ==
    ASSUME NEW n \in 1 .. MaxBindings, NEW ks \in BoundObjects
    PROVE  /\ BoundPiece(n, ks) \in Piece
           /\ \A k : k \in DOMAIN BoundPiece(n, ks) <=>
                       k \in ks /\ k # LevelKey /\ BoundWritten(k) # "undefined"
           /\ \A k \in DOMAIN BoundPiece(n, ks) :
                 /\ BoundPiece(n, ks)[k].by = "bindings" /\ BoundPiece(n, ks)[k].of = n
                 /\ BoundPiece(n, ks)[k].text # "undefined"
                 /\ BoundPiece(n, ks)[k].text = BoundWritten(k)
<1> DEFINE shown == {x \in ks : ValidBinding(x) /\ BoundWritten(x) # "undefined"}
<1>1. ks \subseteq Key /\ MaxBindings \in Nat
  BY LineAssumption
<1>2. \A k : BoundWritten(k) \in Texts
  BY WrittenIsText DEF BoundWritten
<1>3. \A k : [by |-> "bindings", of |-> n, text |-> BoundWritten(k)] \in Value
  BY <1>1, <1>2 DEF Value, Texts
<1>4. BoundPiece(n, ks) \in [shown -> Value]
  BY <1>3 DEF BoundPiece
<1>5. BoundPiece(n, ks) \in Piece /\ DOMAIN BoundPiece(n, ks) = shown
  BY <1>1, <1>4, PieceOf
<1>6. \A k \in shown : BoundPiece(n, ks)[k]
                          = [by |-> "bindings", of |-> n, text |-> BoundWritten(k)]
  BY DEF BoundPiece
<1> QED
  BY <1>5, <1>6 DEF ValidBinding

LEMMA MixedIs ==
    ASSUME NEW f \in Formats, format = f, NEW arg \in Args
    PROVE  /\ DOMAIN Mixed(ObjectOf(arg)) \subseteq Key
           /\ \A k : k \in DOMAIN Mixed(ObjectOf(arg)) <=>
                        k \in DOMAIN ObjectOf(arg) \/ k \in format.mixin
           /\ \A k \in DOMAIN Mixed(ObjectOf(arg)) :
                 Mixed(ObjectOf(arg))[k] \in {"object", "mixin"}
<1> DEFINE obj == ObjectOf(arg)
<1>1. format.mixin \subseteq Key
  BY LineAssumption
<1>2. DOMAIN obj \subseteq Key /\ \A k \in DOMAIN obj : obj[k] = "object"
  <2>1. CASE arg.kind = "none"
    BY <2>1 DEF ObjectOf
  <2>2. CASE arg.kind = "error"
    BY <2>2, LineAssumption DEF ObjectOf, GivenBy
  <2>3. CASE arg.kind = "object"
    <3>1. arg.keys \subseteq Key
      BY <2>3, LineAssumption DEF Args
    <3> QED
      BY <2>3, <3>1 DEF ObjectOf, GivenBy
  <2> QED
    BY <2>1, <2>2, <2>3 DEF Args
<1> HIDE DEF obj
<1>3. /\ DOMAIN Mixed(obj) = DOMAIN obj \cup format.mixin
      /\ \A k \in DOMAIN Mixed(obj) : Mixed(obj)[k] = IF k \in DOMAIN obj THEN obj[k] ELSE "mixin"
  BY DEF Mixed
<1> QED
  BY <1>1, <1>2, <1>3 DEF obj

\* The object's values have a text where they are written (tools.js:161-212).
LEMMA ObjectPieceOK ==
    ASSUME NEW obj, DOMAIN obj \subseteq Key, \A k \in DOMAIN obj : obj[k] \in {"object", "mixin"}
    PROVE  /\ ObjectPiece(obj) \in Piece
           /\ DOMAIN ObjectPiece(obj) = ShownKeys(obj)
           /\ \A k \in DOMAIN ObjectPiece(obj) :
                 /\ ObjectPiece(obj)[k].by = obj[k]
                 /\ ObjectPiece(obj)[k].text # "undefined"
                 /\ ObjectPiece(obj)[k].text = Written(k, Serialized(k))
<1>1. ShownKeys(obj) \subseteq Key /\ ShownKeys(obj) \subseteq DOMAIN obj
  BY DEF ShownKeys
<1>2. ASSUME NEW k \in ShownKeys(obj)
      PROVE  /\ [by |-> obj[k], of |-> 0, text |-> Written(k, Serialized(k))] \in Value
             /\ Written(k, Serialized(k)) # "undefined"
  <2>1. Written(k, Serialized(k)) \in Texts
    BY WrittenIsText
  <2>2. obj[k] \in {"object", "mixin"}
    BY <1>1
  <2>3. Written(k, Serialized(k)) # "undefined"
    BY DEF ShownKeys
  <2> QED
    BY <2>1, <2>2, <2>3, LineAssumption DEF Value, Texts
<1>3. /\ ObjectPiece(obj) \in [ShownKeys(obj) -> Value]
      /\ \A k \in ShownKeys(obj) : ObjectPiece(obj)[k]
            = [by |-> obj[k], of |-> 0, text |-> Written(k, Serialized(k))]
  BY <1>2 DEF ObjectPiece
<1>4. ObjectPiece(obj) \in Piece /\ DOMAIN ObjectPiece(obj) = ShownKeys(obj)
  BY <1>1, <1>3, PieceOf
<1> QED
  BY <1>2, <1>3, <1>4

LEMMA MessagePieceOK ==
    ASSUME NEW msg \in {"message", "error", Nothing}
    PROVE  /\ MessagePiece(msg) \in Piece
           /\ DOMAIN MessagePiece(msg) = IF msg = Nothing THEN {} ELSE {MessageKey}
           /\ \A k \in DOMAIN MessagePiece(msg) :
                 /\ MessagePiece(msg)[k].by = msg
                 /\ MessagePiece(msg)[k].text = Written(MessageKey, SerializedBy(MessageKey))
<1>1. CASE msg = Nothing
  BY <1>1, EmptyPiece DEF MessagePiece
<1>2. CASE msg # Nothing
  <2>1. Written(MessageKey, SerializedBy(MessageKey)) \in Texts /\ MessageKey \in Key
    BY WrittenIsText, LineAssumption
  <2>2. [by |-> msg, of |-> 0, text |-> Written(MessageKey, SerializedBy(MessageKey))] \in Value
    BY <1>2, <2>1, LineAssumption DEF Value, Texts
  <2>3. MessagePiece(msg) \in [{MessageKey} -> Value]
    BY <1>2, <2>2 DEF MessagePiece
  <2> QED
    BY <1>2, <2>1, <2>3, PieceOf DEF MessagePiece
<1> QED
  BY <1>1, <1>2

-----------------------------------------------------------------------------
(* The text *)

\* Four parts one after the other.
LEMMA Assembled ==
    ASSUME NEW S, NEW first \in S, NEW cs \in Seq(S), NEW o \in S, NEW m \in S
    PROVE  /\ <<first>> \o cs \o <<o>> \o <<m>> \in Seq(S)
           /\ Len(<<first>> \o cs \o <<o>> \o <<m>>) = Len(cs) + 3
           /\ (<<first>> \o cs \o <<o>> \o <<m>>)[1] = first
           /\ \A i \in 1 .. Len(cs) : (<<first>> \o cs \o <<o>> \o <<m>>)[i + 1] = cs[i]
           /\ (<<first>> \o cs \o <<o>> \o <<m>>)[Len(cs) + 2] = o
           /\ (<<first>> \o cs \o <<o>> \o <<m>>)[Len(cs) + 3] = m
<1> DEFINE one == <<first>>
           two == <<o>>
           three == <<m>>
           N == Len(cs)
<1>0. N \in Nat
  OBVIOUS
<1>1. one \in Seq(S) /\ two \in Seq(S) /\ three \in Seq(S)
  OBVIOUS
<1>2. /\ Len(one) = 1 /\ one[1] = first
      /\ Len(two) = 1 /\ two[1] = o
      /\ Len(three) = 1 /\ three[1] = m
  OBVIOUS
<1> HIDE DEF one, two, three
<1> DEFINE s == one \o cs
<1>3. /\ s \in Seq(S) /\ Len(s) = N + 1
      /\ s[1] = first /\ \A i \in 1 .. N : s[i + 1] = cs[i]
  <2>1. /\ s \in Seq(S) /\ Len(s) = Len(one) + Len(cs)
        /\ \A i \in 1 .. Len(one) + Len(cs) :
              s[i] = IF i <= Len(one) THEN one[i] ELSE cs[i - Len(one)]
    BY <1>1, ConcatProperties, Zenon
  <2> HIDE DEF s
  <2> QED
    BY <2>1, <1>0, <1>2
<1> HIDE DEF s
<1> DEFINE t == s \o two
<1>4. /\ t \in Seq(S) /\ Len(t) = N + 2
      /\ t[1] = first /\ \A i \in 1 .. N : t[i + 1] = cs[i]
      /\ t[N + 2] = o
  <2>1. /\ t \in Seq(S) /\ Len(t) = Len(s) + Len(two)
        /\ \A i \in 1 .. Len(s) + Len(two) :
              t[i] = IF i <= Len(s) THEN s[i] ELSE two[i - Len(s)]
    BY <1>1, <1>3, ConcatProperties, Zenon
  <2> HIDE DEF t
  <2> QED
    BY <2>1, <1>0, <1>2, <1>3
<1> HIDE DEF t
<1> DEFINE u == t \o three
<1>5. /\ u \in Seq(S) /\ Len(u) = N + 3
      /\ u[1] = first /\ \A i \in 1 .. N : u[i + 1] = cs[i]
      /\ u[N + 2] = o /\ u[N + 3] = m
  <2>1. /\ u \in Seq(S) /\ Len(u) = Len(t) + Len(three)
        /\ \A i \in 1 .. Len(t) + Len(three) :
              u[i] = IF i <= Len(t) THEN t[i] ELSE three[i - Len(t)]
    BY <1>1, <1>4, ConcatProperties, Zenon
  <2> HIDE DEF u
  <2> QED
    BY <2>1, <1>0, <1>2, <1>4
<1>6. u = <<first>> \o cs \o <<o>> \o <<m>>
  BY DEF u, t, s, one, two, three
<1> HIDE DEF u
<1> QED
  BY <1>5, <1>6, Zenon

\* The object of the line, and the piece the object gives.
Obj == Mixed(ObjectOf(line.arg))
ObjPart == IF Nests(Obj) THEN NestedPiece ELSE ObjectPiece(Obj)
MsgPart == MessagePiece(MessageOf(line.arg))

LEMMA MessageOfIs ==
    ASSUME NEW arg
    PROVE  /\ MessageOf(arg) \in {"message", "error", Nothing}
           /\ arg.message => MessageOf(arg) = "message"
BY DEF MessageOf

LEMMA ObjIs ==
    ASSUME LineInv, line # Nothing
    PROVE  /\ DOMAIN Obj \subseteq Key
           /\ \A k : k \in DOMAIN Obj <=> InCall(k)
           /\ \A k \in DOMAIN Obj : Obj[k] \in {"object", "mixin"}
<1>1. line.arg \in Args /\ format \in Formats
  BY DEF LineInv, LineIsOfCall, RenderedOK
<1> QED
  BY <1>1, MixedIs DEF Obj, InCall

LEMMA PartsOK ==
    ASSUME LineInv, line # Nothing
    PROVE  /\ ObjPart \in Piece /\ MsgPart \in Piece
           /\ \A k \in DOMAIN ObjPart :
                 /\ ObjPart[k].text # "undefined"
                 /\ k \in Key => /\ ~format.nested
                                 /\ k \in ShownKeys(Obj) /\ ObjPart[k].by = Obj[k]
           /\ \A k \in DOMAIN MsgPart :
                 /\ k = MessageKey /\ MsgPart[k].by = MessageOf(line.arg)
                 /\ MsgPart[k].by \in {"message", "error"}
                 /\ MsgPart[k].text = Written(MessageKey, SerializedBy(MessageKey))
           /\ MessageOf(line.arg) # Nothing => MessageKey \in DOMAIN MsgPart
           /\ ~format.nested => DOMAIN ObjPart = ShownKeys(Obj)
<1> DEFINE obj == Obj
           msg == MessageOf(line.arg)
<1>1. DOMAIN obj \subseteq Key /\ \A k \in DOMAIN obj : obj[k] \in {"object", "mixin"}
  BY ObjIs
<1>2. msg \in {"message", "error", Nothing}
  BY MessageOfIs
<1> HIDE DEF obj, msg
<1>3. /\ ObjectPiece(obj) \in Piece
      /\ DOMAIN ObjectPiece(obj) = ShownKeys(obj)
      /\ \A k \in DOMAIN ObjectPiece(obj) :
            /\ ObjectPiece(obj)[k].by = obj[k]
            /\ ObjectPiece(obj)[k].text # "undefined"
  BY <1>1, ObjectPieceOK
<1>4. /\ MessagePiece(msg) \in Piece
      /\ DOMAIN MessagePiece(msg) = IF msg = Nothing THEN {} ELSE {MessageKey}
      /\ \A k \in DOMAIN MessagePiece(msg) :
            /\ MessagePiece(msg)[k].by = msg
            /\ MessagePiece(msg)[k].text = Written(MessageKey, SerializedBy(MessageKey))
  BY <1>2, MessagePieceOK
<1>5. NestedKey \notin Key
  BY LineAssumption
<1>6. /\ MsgPart = MessagePiece(msg)
      /\ ObjPart = IF Nests(obj) THEN NestedPiece ELSE ObjectPiece(obj)
  BY DEF MsgPart, ObjPart, msg, obj
<1>7. Nests(obj) <=> format.nested /\ ShownKeys(obj) # {}
  BY DEF Nests
<1>8. /\ ObjPart \in Piece
      /\ \A k \in DOMAIN ObjPart :
            /\ ObjPart[k].text # "undefined"
            /\ k \in Key => /\ ~format.nested
                            /\ k \in ShownKeys(obj) /\ ObjPart[k].by = obj[k]
      /\ ~format.nested => DOMAIN ObjPart = ShownKeys(obj)
  <2>1. CASE Nests(obj)
    BY <2>1, <1>5, <1>6, <1>7, NestedPieceOK
  <2>2. CASE ~Nests(obj)
    BY <2>2, <1>3, <1>6, <1>7
  <2> QED
    BY <2>1, <2>2
<1>9. /\ MsgPart \in Piece
      /\ \A k \in DOMAIN MsgPart :
            /\ k = MessageKey /\ MsgPart[k].by = msg
            /\ MsgPart[k].by \in {"message", "error"}
            /\ MsgPart[k].text = Written(MessageKey, SerializedBy(MessageKey))
      /\ msg # Nothing => MessageKey \in DOMAIN MsgPart
  BY <1>2, <1>4, <1>6
<1> QED
  BY <1>8, <1>9 DEF obj, msg

\* The pieces of the last line, each at its place.
LEMMA TopIs ==
    ASSUME LineInv, line # Nothing
    PROVE  /\ Len(chindings) \in Nat
           /\ line.top \in Seq(Piece) /\ DOMAIN line.top = 1 .. (Len(chindings) + 3)
           /\ line.top[1] = LevelPiece
           /\ \A i \in 1 .. Len(chindings) : line.top[i + 1] = chindings[i]
           /\ line.top[Len(chindings) + 2] = ObjPart
           /\ line.top[Len(chindings) + 3] = MsgPart
<1>1. line.top = <<LevelPiece>> \o chindings \o <<ObjPart>> \o <<MsgPart>>
  BY DEF LineInv, LineIsOfCall, AsJson, ObjPart, MsgPart, Obj
<1>2. /\ chindings \in Seq(Piece) /\ LevelPiece \in Piece
      /\ ObjPart \in Piece /\ MsgPart \in Piece
  BY PartsOK, LevelPieceOK DEF LineInv, RenderedOK
<1>3. PICK cs \in Seq(Piece), o \in Piece, m \in Piece, first \in Piece :
        cs = chindings /\ o = ObjPart /\ m = MsgPart /\ first = LevelPiece
  BY <1>2
<1>4. /\ line.top \in Seq(Piece) /\ Len(line.top) = Len(cs) + 3
      /\ line.top[1] = first
      /\ \A i \in 1 .. Len(cs) : line.top[i + 1] = cs[i]
      /\ line.top[Len(cs) + 2] = o
      /\ line.top[Len(cs) + 3] = m
  <2>1. line.top = <<first>> \o cs \o <<o>> \o <<m>>
    BY <1>1, <1>3
  <2>2. /\ <<first>> \o cs \o <<o>> \o <<m>> \in Seq(Piece)
        /\ Len(<<first>> \o cs \o <<o>> \o <<m>>) = Len(cs) + 3
        /\ (<<first>> \o cs \o <<o>> \o <<m>>)[1] = first
        /\ \A i \in 1 .. Len(cs) : (<<first>> \o cs \o <<o>> \o <<m>>)[i + 1] = cs[i]
        /\ (<<first>> \o cs \o <<o>> \o <<m>>)[Len(cs) + 2] = o
        /\ (<<first>> \o cs \o <<o>> \o <<m>>)[Len(cs) + 3] = m
    BY Assembled
  <2> QED
    BY <2>1, <2>2, Zenon
<1>5. DOMAIN line.top = 1 .. Len(line.top)
  BY <1>4
<1> QED
  BY <1>3, <1>4, <1>5

-----------------------------------------------------------------------------
(* The invariant *)

LEMMA LineInitOK == LineInit => LineInv
<1> SUFFICES ASSUME LineInit PROVE LineInv
  OBVIOUS
<1>1. Len(bound) = 0 /\ Len(chindings) = 0
  BY DEF LineInit
<1>2. bound \in Seq(BoundObjects) /\ chindings \in Seq(Piece)
  BY DEF LineInit
<1>3. RenderedOK
  BY <1>1, <1>2, LineAssumption DEF LineInit, RenderedOK
<1>4. NewestBound
  BY <1>1 DEF NewestBound
<1> QED
  BY <1>3, <1>4 DEF LineInit, LineInv, LineIsOfCall, BuiltFirst

\* Nothing that decides how bindings are written changes once the redactors are
\* made.
LEMMA RendersSame ==
    ASSUME UNCHANGED <<vars, format>>
    PROVE  \A n, ks : BoundPiece(n, ks)' = BoundPiece(n, ks)
BY DEF vars, BoundPiece, ValidBinding, BoundWritten, Written, SerializedBy, Text, Entry

\* The redactors are made: nothing but their paths changes, before any line.
LEMMA NextKeepsLineInv ==
    ASSUME LineInv, Next, UNCHANGED lineState
    PROVE  LineInv'
<1>1. ~built
  BY DEF Next, Reduce, Build
<1>2. bound = << >> /\ line = Nothing
  BY <1>1 DEF LineInv, BuiltFirst
<1>3. format' = format /\ chindings' = chindings /\ bound' = bound /\ line' = line
  BY DEF lineState
<1>4. Len(bound') = 0
  BY <1>2, <1>3
<1>5. RenderedOK'
  BY <1>3, <1>4 DEF LineInv, RenderedOK
<1>6. NewestBound'
  BY <1>3 DEF LineInv, NewestBound, HasBound
<1>7. LineIsOfCall' /\ BuiltFirst'
  BY <1>2, <1>3 DEF LineIsOfCall, BuiltFirst
<1> QED
  BY <1>5, <1>6, <1>7 DEF LineInv

\* The bindings given last are appended as they are rendered now.
LEMMA BindKeepsLineInv ==
    ASSUME LineInv, NEW ks \in BoundObjects, Bind(ks)
    PROVE  LineInv'
<1> DEFINE n == Len(bound) + 1
           N == Len(bound)
<1>1. /\ built /\ n <= MaxBindings /\ bound' = Append(bound, ks)
      /\ chindings' = Append(chindings, BoundPiece(n, ks))
      /\ line' = Nothing /\ UNCHANGED <<vars, format>>
  BY DEF Bind
<1>2. /\ format \in Formats /\ bound \in Seq(BoundObjects) /\ chindings \in Seq(Piece)
      /\ Len(chindings) = N /\ N \in Nat /\ MaxBindings \in Nat
      /\ \A i \in 1 .. N : chindings[i] = BoundPiece(i, bound[i])
  BY LineAssumption DEF LineInv, RenderedOK
<1>3. n \in 1 .. MaxBindings
  BY <1>1, <1>2
<1>4. BoundPiece(n, ks) \in Piece
  BY <1>3, BoundPieceOK
<1>5. /\ bound' \in Seq(BoundObjects) /\ Len(bound') = n
      /\ bound'[n] = ks /\ \A i \in 1 .. N : bound'[i] = bound[i]
  BY <1>1, <1>2
<1>6. PICK piece \in Piece : piece = BoundPiece(n, ks)
  BY <1>4
<1>7. /\ chindings' \in Seq(Piece) /\ Len(chindings') = n
      /\ chindings'[n] = piece /\ \A i \in 1 .. N : chindings'[i] = chindings[i]
  BY <1>1, <1>2, <1>6
<1>8. PICK cs, bs : cs = chindings' /\ bs = bound'
  OBVIOUS
<1>9. \A i \in 1 .. n : cs[i] = BoundPiece(i, bs[i])
  <2>1. cs[n] = BoundPiece(n, bs[n])
    BY <1>5, <1>6, <1>7, <1>8
  <2>2. \A i \in 1 .. N : cs[i] = BoundPiece(i, bs[i])
    BY <1>2, <1>5, <1>7, <1>8
  <2>3. \A i \in 1 .. n : i = n \/ i \in 1 .. N
    BY <1>2
  <2> QED
    BY <2>1, <2>2, <2>3
<1>10. \A i \in 1 .. n : cs[i] = BoundPiece(i, bs[i])'
  <2>1. \A i, ks1 : BoundPiece(i, ks1)' = BoundPiece(i, ks1)
    BY <1>1, RendersSame
  <2>2. ASSUME NEW i \in 1 .. n PROVE cs[i] = BoundPiece(i, bs[i])'
    <3>1. PICK b : b = bs[i]
      OBVIOUS
    <3>2. cs[i] = BoundPiece(i, b)
      BY <1>9, <3>1
    <3>3. BoundPiece(i, b)' = BoundPiece(i, b)
      BY <2>1
    <3> QED
      BY <3>1, <3>2, <3>3
  <2> QED
    BY <2>2
<1>11. RenderedOK'
  <2>1. \A i \in 1 .. Len(bound') : chindings'[i] = BoundPiece(i, bound[i])'
    BY <1>5, <1>8, <1>10
  <2>2. format' \in Formats
    BY <1>1, <1>2
  <2> QED
    BY <1>1, <1>2, <1>5, <1>7, <2>1, <2>2 DEF RenderedOK
<1>12. NewestBound'
  <2> SUFFICES ASSUME NEW k \in Key
               PROVE  \/ \A i \in 1 .. n : k \notin DOMAIN cs[i]
                      \/ \E i \in 1 .. n :
                            /\ k \in DOMAIN cs[i]
                            /\ \A m \in 1 .. n : k \in DOMAIN cs[m] => m <= i
    BY <1>7, <1>8 DEF NewestBound, HasBound
  <2>1. \A i \in 1 .. n : i = n \/ i \in 1 .. N
    BY <1>2
  <2>2. n \in 1 .. n /\ (\A m \in 1 .. n : m <= n) /\ \A m \in 1 .. N : m \in 1 .. n
    BY <1>2
  <2>3. CASE k \in DOMAIN cs[n]
    BY <2>2, <2>3
  <2>4. CASE k \notin DOMAIN cs[n]
    <3>1. \A i \in 1 .. n : k \in DOMAIN cs[i] => i \in 1 .. N
      BY <2>1, <2>4
    <3>2. \A i \in 1 .. N : HasBound(i, k) <=> k \in DOMAIN cs[i]
      BY <1>7, <1>8 DEF HasBound
    <3>3. CASE \A i \in 1 .. N : ~HasBound(i, k)
      BY <3>1, <3>2, <3>3
    <3>4. CASE \E i \in 1 .. N : HasBound(i, k) /\ \A m \in 1 .. N : HasBound(m, k) => m <= i
      <4>1. PICK i \in 1 .. N : HasBound(i, k) /\ \A m \in 1 .. N : HasBound(m, k) => m <= i
        BY <3>4
      <4>2. i \in 1 .. n /\ k \in DOMAIN cs[i]
        BY <4>1, <3>2, <2>2
      <4>3. \A m \in 1 .. n : k \in DOMAIN cs[m] => m <= i
        BY <4>1, <3>1, <3>2
      <4> QED
        BY <4>2, <4>3
    <3> QED
      BY <3>3, <3>4, <1>2 DEF LineInv, NewestBound
  <2> QED
    BY <2>3, <2>4
<1>13. LineIsOfCall' /\ BuiltFirst'
  BY <1>1 DEF LineIsOfCall, BuiltFirst, vars
<1> QED
  BY <1>11, <1>12, <1>13 DEF LineInv

\* A step that leaves all that a line is made of leaves what is written.
LEMMA WritesSame ==
    ASSUME UNCHANGED <<vars, format, chindings>>
    PROVE  /\ \A obj, msg : AsJson(obj, msg)' = AsJson(obj, msg)
           /\ \A obj : Mixed(obj)' = Mixed(obj) /\ (Nests(obj) <=> Nests(obj)')
                         /\ ObjectPiece(obj)' = ObjectPiece(obj)
<1> QED
  BY DEF vars, AsJson, Mixed, Nests, NestedPiece, LevelPiece, ObjectPiece, ShownKeys,
         MessagePiece, Written, Serialized, SerializedBy, Text, Entry

LEMMA RenderedStays ==
    ASSUME LineInv, UNCHANGED <<vars, format, chindings, bound>>
    PROVE  RenderedOK' /\ NewestBound' /\ (built => built')
<1>1. \A n, ks : BoundPiece(n, ks)' = BoundPiece(n, ks)
  BY RendersSame
<1>2. \A n \in 1 .. Len(bound) : chindings[n] = BoundPiece(n, bound[n])'
  <2> SUFFICES ASSUME NEW n \in 1 .. Len(bound) PROVE chindings[n] = BoundPiece(n, bound[n])'
    OBVIOUS
  <2>1. PICK b : b = bound[n] /\ b = bound'[n]
    OBVIOUS
  <2>2. BoundPiece(n, b)' = BoundPiece(n, b)
    BY <1>1
  <2> QED
    BY <2>1, <2>2 DEF LineInv, RenderedOK
<1>3. RenderedOK'
  BY <1>2 DEF LineInv, RenderedOK
<1>4. NewestBound'
  BY DEF LineInv, NewestBound, HasBound
<1> QED
  BY <1>3, <1>4 DEF vars

LEMMA LogKeepsLineInv ==
    ASSUME LineInv, NEW arg \in Args, Log(arg)
    PROVE  LineInv'
<1> DEFINE obj == Mixed(ObjectOf(arg))
           msg == MessageOf(arg)
<1>1. /\ built
      /\ line' = [arg |-> arg, top |-> AsJson(obj, msg),
                  nested |-> IF Nests(obj) THEN ObjectPiece(obj) ELSE << >>]
      /\ UNCHANGED <<vars, format, chindings, bound>>
  BY DEF Log
<1>2. PICK l : l = line'
  OBVIOUS
<1>3. /\ l.arg = arg /\ l.top = AsJson(obj, msg)
      /\ l.nested = IF Nests(obj) THEN ObjectPiece(obj) ELSE << >>
  BY <1>1, <1>2
<1>4. /\ \A o, m : AsJson(o, m)' = AsJson(o, m)
      /\ \A o : Mixed(o)' = Mixed(o) /\ (Nests(o) <=> Nests(o)')
                    /\ ObjectPiece(o)' = ObjectPiece(o)
  BY <1>1, WritesSame
<1>5. PICK given : given = ObjectOf(arg)
  OBVIOUS
<1>6. PICK o, m : o = obj /\ m = msg
  OBVIOUS
<1>7. Mixed(given)' = o /\ AsJson(o, m)' = l.top
  BY <1>3, <1>4, <1>5, <1>6
<1>8. l.nested = IF Nests(o)' THEN ObjectPiece(o)' ELSE << >>
  BY <1>3, <1>4, <1>6
<1> HIDE DEF obj, msg
<1>9. LineIsOfCall'
  BY <1>2, <1>3, <1>5, <1>6, <1>7, <1>8 DEF LineIsOfCall, msg
<1>10. RenderedOK' /\ NewestBound' /\ BuiltFirst'
  BY <1>1, RenderedStays DEF BuiltFirst
<1> QED
  BY <1>9, <1>10 DEF LineInv

LEMMA LineNextOK == LineInv /\ [LineNext]_<<vars, lineState>> => LineInv'
<1> SUFFICES ASSUME LineInv, [LineNext]_<<vars, lineState>> PROVE LineInv'
  OBVIOUS
<1>1. CASE Next /\ UNCHANGED lineState
  BY <1>1, NextKeepsLineInv
<1>2. ASSUME NEW ks \in BoundObjects, Bind(ks) PROVE LineInv'
  BY <1>2, BindKeepsLineInv
<1>3. ASSUME NEW arg \in Args, Log(arg) PROVE LineInv'
  BY <1>3, LogKeepsLineInv
<1>4. CASE UNCHANGED <<vars, lineState>>
  <2>1. UNCHANGED <<vars, format, chindings, bound>> /\ line' = line
    BY <1>4 DEF lineState
  <2>2. RenderedOK' /\ NewestBound' /\ BuiltFirst'
    BY <2>1, RenderedStays DEF LineInv, BuiltFirst
  <2>3. LineIsOfCall'
    <3>1. /\ \A o, m : AsJson(o, m)' = AsJson(o, m)
          /\ \A o : Mixed(o)' = Mixed(o) /\ (Nests(o) <=> Nests(o)')
                        /\ ObjectPiece(o)' = ObjectPiece(o)
      BY <2>1, WritesSame
    <3>2. PICK l : l = line /\ l = line'
      BY <2>1
    <3>3. PICK given, m : given = ObjectOf(l.arg) /\ m = MessageOf(l.arg)
      OBVIOUS
    <3>4. PICK o : o = Mixed(given)
      OBVIOUS
    <3>5. l # Nothing =>
            /\ l.arg \in Args /\ l.top = AsJson(o, m)
            /\ l.nested = IF Nests(o) THEN ObjectPiece(o) ELSE << >>
      BY <3>2, <3>3, <3>4 DEF LineInv, LineIsOfCall
    <3>6. Mixed(given)' = o /\ AsJson(o, m)' = AsJson(o, m)
          /\ (Nests(o) <=> Nests(o)') /\ ObjectPiece(o)' = ObjectPiece(o)
      BY <3>1, <3>4
    <3> QED
      BY <3>2, <3>3, <3>5, <3>6 DEF LineIsOfCall
  <2> QED
    BY <2>2, <2>3 DEF LineInv
<1> QED
  BY <1>1, <1>2, <1>3, <1>4 DEF LineNext

\* The bindings of a logger are always those it was given, rendered in their
\* order, and its last line is made of them and of what the call gave.
THEOREM LineInvariant == LineSpec => []LineInv
<1> QED
  BY LineInitOK, LineNextOK, PTL DEF LineSpec

\* The redactors are made as Redaction says, lines and bindings or not: what it
\* promises of the paths holds of those a line is written with.
THEOREM LineRedacts == LineSpec => Spec
<1>1. LineInit => Init
  BY DEF LineInit
<1>2. [LineNext]_<<vars, lineState>> => [Next]_vars
  BY DEF LineNext, Bind, Log
<1> QED
  BY <1>1, <1>2, PTL DEF LineSpec, Spec

-----------------------------------------------------------------------------
(* What a reader gets *)

LEMMA LastIs ==
    ASSUME NEW k, NEW i \in Pieces(k), Pieces(k) \subseteq Nat,
           \A j \in Pieces(k) : j <= i
    PROVE  LastPiece(k) = i
BY DEF LastPiece

\* The value of a key is that of the message, or else of the object, or else of
\* the newest bindings that have it, or else of the level; or it has none.
LEMMA ParsedIs ==
    ASSUME LineInv, line # Nothing, NEW k \in Key
    PROVE  \/ k \in DOMAIN MsgPart /\ Parsed(k) = MsgPart[k]
           \/ /\ k \notin DOMAIN MsgPart
              /\ k \in DOMAIN ObjPart /\ Parsed(k) = ObjPart[k]
           \/ /\ k \notin DOMAIN MsgPart /\ k \notin DOMAIN ObjPart
              /\ \E m \in 1 .. Len(chindings) :
                    /\ HasBound(m, k) /\ Parsed(k) = chindings[m][k]
                    /\ \A j \in 1 .. Len(chindings) : HasBound(j, k) => j <= m
           \/ /\ k \notin DOMAIN MsgPart /\ k \notin DOMAIN ObjPart
              /\ k = LevelKey /\ Parsed(k) = LevelPiece[k]
              /\ \A j \in 1 .. Len(chindings) : ~HasBound(j, k)
           \/ /\ k \notin DOMAIN MsgPart /\ k \notin DOMAIN ObjPart
              /\ Pieces(k) = {} /\ k # LevelKey
              /\ \A j \in 1 .. Len(chindings) : ~HasBound(j, k)
<1> DEFINE N == Len(chindings)
<1>1. /\ N \in Nat /\ DOMAIN line.top = 1 .. (N + 3)
      /\ line.top[1] = LevelPiece
      /\ \A i \in 1 .. N : line.top[i + 1] = chindings[i]
      /\ line.top[N + 2] = ObjPart
      /\ line.top[N + 3] = MsgPart
  BY TopIs
<1>2. DOMAIN LevelPiece = {LevelKey}
  BY LevelPieceOK
<1> HIDE DEF N
<1>3. \A i \in 1 .. (N + 3) : i = 1 \/ i = N + 2 \/ i = N + 3 \/ (i - 1 \in 1 .. N /\ (i - 1) + 1 = i)
  BY <1>1
<1>4. \A i : i \in Pieces(k) <=>
                \/ i = 1 /\ k = LevelKey
                \/ i - 1 \in 1 .. N /\ i \in 1 .. (N + 3) /\ HasBound(i - 1, k)
                \/ i = N + 2 /\ k \in DOMAIN ObjPart
                \/ i = N + 3 /\ k \in DOMAIN MsgPart
  <2> SUFFICES ASSUME NEW i
               PROVE  i \in Pieces(k) <=>
                \/ i = 1 /\ k = LevelKey
                \/ i - 1 \in 1 .. N /\ i \in 1 .. (N + 3) /\ HasBound(i - 1, k)
                \/ i = N + 2 /\ k \in DOMAIN ObjPart
                \/ i = N + 3 /\ k \in DOMAIN MsgPart
    OBVIOUS
  <2>1. i \in Pieces(k) <=> i \in 1 .. (N + 3) /\ k \in DOMAIN line.top[i]
    BY <1>1 DEF Pieces
  <2>2. 1 \in 1 .. (N + 3) /\ N + 2 \in 1 .. (N + 3) /\ N + 3 \in 1 .. (N + 3)
    BY <1>1
  <2>3. i \in 1 .. (N + 3) /\ i - 1 \in 1 .. N
           => (k \in DOMAIN line.top[i] <=> HasBound(i - 1, k))
    <3>1. i \in 1 .. (N + 3) /\ i - 1 \in 1 .. N => line.top[i] = chindings[i - 1]
      BY <1>1, <1>3
    <3> QED
      BY <3>1 DEF HasBound
  <2>4. /\ k \in DOMAIN line.top[1] <=> k = LevelKey
        /\ k \in DOMAIN line.top[N + 2] <=> k \in DOMAIN ObjPart
        /\ k \in DOMAIN line.top[N + 3] <=> k \in DOMAIN MsgPart
    BY <1>1, <1>2
  <2> QED
    BY <2>1, <2>2, <2>3, <2>4, <1>1, <1>3
<1>5. Pieces(k) \subseteq 1 .. (N + 3) /\ Pieces(k) \subseteq Nat
  BY <1>1 DEF Pieces
<1>6. ASSUME NEW i \in Pieces(k), \A j \in Pieces(k) : j <= i
      PROVE  Parsed(k) = line.top[i][k]
  BY <1>5, <1>6, LastIs DEF Parsed
<1>7. CASE k \in DOMAIN MsgPart
  <2>1. N + 3 \in Pieces(k) /\ \A j \in Pieces(k) : j <= N + 3
    BY <1>4, <1>5, <1>1, <1>7
  <2>2. Parsed(k) = line.top[N + 3][k]
    BY <2>1, <1>6
  <2> QED
    BY <2>2, <1>1, <1>7
<1>8. CASE k \notin DOMAIN MsgPart /\ k \in DOMAIN ObjPart
  <2>1. N + 2 \in Pieces(k) /\ \A j \in Pieces(k) : j <= N + 2
    BY <1>4, <1>1, <1>8
  <2>2. Parsed(k) = line.top[N + 2][k]
    BY <2>1, <1>6
  <2> QED
    BY <2>2, <1>1, <1>8
<1>9. CASE k \notin DOMAIN MsgPart /\ k \notin DOMAIN ObjPart
  <2>1. CASE \E m \in 1 .. N :
               /\ HasBound(m, k)
               /\ \A j \in 1 .. N : HasBound(j, k) => j <= m
    <3>1. PICK m \in 1 .. N :
               /\ HasBound(m, k)
               /\ \A j \in 1 .. N : HasBound(j, k) => j <= m
      BY <2>1
    <3>2. m + 1 \in Pieces(k)
      <4>1. (m + 1) - 1 = m /\ m + 1 \in 1 .. (N + 3)
        BY <1>1
      <4> QED
        BY <4>1, <3>1, <1>4
    <3>3. \A j \in Pieces(k) : j <= m + 1
      <4> SUFFICES ASSUME NEW j \in Pieces(k) PROVE j <= m + 1
        OBVIOUS
      <4>1. j = 1 \/ (j - 1 \in 1 .. N /\ HasBound(j - 1, k))
        BY <1>4, <1>9
      <4>2. j \in Nat
        BY <1>5
      <4>3. j = 1 \/ j - 1 <= m
        BY <4>1, <3>1
      <4> QED
        BY <4>2, <4>3, <1>1
    <3>4. Parsed(k) = line.top[m + 1][k]
      BY <3>2, <3>3, <1>6
    <3> QED
      BY <3>1, <3>4, <1>1, <1>9 DEF N
  <2>2. CASE \A j \in 1 .. N : ~HasBound(j, k)
    <3>1. \A i : i \in Pieces(k) <=> i = 1 /\ k = LevelKey
      BY <2>2, <1>4, <1>9
    <3>2. CASE k = LevelKey
      <4>1. 1 \in Pieces(k) /\ \A j \in Pieces(k) : j <= 1
        BY <3>1, <3>2
      <4>2. Parsed(k) = line.top[1][k]
        BY <4>1, <1>6
      <4> QED
        BY <4>2, <3>2, <2>2, <1>1, <1>9 DEF N
    <3>3. CASE k # LevelKey
      <4>1. Pieces(k) = {}
        BY <3>1, <3>3
      <4> QED
        BY <4>1, <3>3, <2>2, <1>9 DEF N
    <3> QED
      BY <3>2, <3>3
  <2> QED
    BY <2>1, <2>2 DEF LineInv, NewestBound, N
<1> QED
  BY <1>7, <1>8, <1>9

\* What the bindings have been written as.
LEMMA ChindingIs ==
    ASSUME LineInv, NEW n \in 1 .. Len(chindings)
    PROVE  /\ n \in 1 .. MaxBindings /\ bound[n] \subseteq Key
           /\ chindings[n] \in Piece
           /\ \A k : HasBound(n, k) <=>
                       k \in bound[n] /\ k # LevelKey /\ BoundWritten(k) # "undefined"
           /\ \A k \in DOMAIN chindings[n] :
                 /\ chindings[n][k].by = "bindings" /\ chindings[n][k].of = n
                 /\ chindings[n][k].text # "undefined"
                 /\ chindings[n][k].text = BoundWritten(k)
<1>1. /\ bound \in Seq(BoundObjects) /\ Len(bound) <= MaxBindings /\ MaxBindings \in Nat
      /\ Len(chindings) = Len(bound)
      /\ \A i \in 1 .. Len(bound) : chindings[i] = BoundPiece(i, bound[i])
  BY LineAssumption DEF LineInv, RenderedOK
<1>2. n \in 1 .. MaxBindings /\ bound[n] \in BoundObjects
  BY <1>1
<1>3. PICK ks \in BoundObjects : ks = bound[n]
  BY <1>2
<1>4. chindings[n] = BoundPiece(n, ks)
  BY <1>1, <1>3
<1>5. /\ BoundPiece(n, ks) \in Piece
      /\ \A k : k \in DOMAIN BoundPiece(n, ks) <=>
                  k \in ks /\ k # LevelKey /\ BoundWritten(k) # "undefined"
      /\ \A k \in DOMAIN BoundPiece(n, ks) :
            /\ BoundPiece(n, ks)[k].by = "bindings" /\ BoundPiece(n, ks)[k].of = n
            /\ BoundPiece(n, ks)[k].text # "undefined"
            /\ BoundPiece(n, ks)[k].text = BoundWritten(k)
  BY <1>2, BoundPieceOK
<1> QED
  BY <1>2, <1>3, <1>4, <1>5, LineAssumption DEF HasBound

-----------------------------------------------------------------------------
(* The properties *)

\* Bindings and lines have their types, for any options and bounds.
THEOREM LineAlwaysTypeOK == LineSpec => []LineTypeOK
<1>1. LineInv /\ ShapeInv => LineTypeOK
  <2> SUFFICES ASSUME LineInv, ShapeInv PROVE LineTypeOK
    OBVIOUS
  <2>1. /\ TypeOK /\ format \in Formats /\ bound \in Seq(BoundObjects)
        /\ Len(chindings) = Len(bound)
    BY DEF LineInv, ShapeInv, RenderedOK
  <2>2. DOMAIN chindings = 1 .. Len(chindings)
    BY DEF LineInv, RenderedOK
  <2>3. ASSUME NEW n \in DOMAIN chindings
        PROVE  /\ DOMAIN chindings[n] \subseteq bound[n] /\ Range(chindings[n]) \subseteq Value
               /\ \A k \in DOMAIN chindings[n] : chindings[n][k].of = n
    <3>1. n \in 1 .. Len(chindings)
      BY <2>2
    <3>2. /\ chindings[n] \in Piece
          /\ \A k : HasBound(n, k) => k \in bound[n]
          /\ \A k \in DOMAIN chindings[n] : chindings[n][k].of = n
      BY <3>1, ChindingIs
    <3> QED
      BY <3>2, PieceGives DEF HasBound
  <2>4. ASSUME line # Nothing
        PROVE  /\ line.arg \in Args
               /\ \A i \in DOMAIN line.top :
                     /\ DOMAIN line.top[i] \subseteq Key \cup {NestedKey}
                     /\ Range(line.top[i]) \subseteq Value
    <3>1. line.arg \in Args
      BY <2>4 DEF LineInv, LineIsOfCall
    <3>2. \A i \in DOMAIN line.top : line.top[i] \in Piece
      BY <2>4, TopIs
    <3> QED
      BY <3>1, <3>2, PieceGives
  <2> QED
    BY <2>1, <2>3, <2>4 DEF LineTypeOK
<1> QED
  BY <1>1, LineInvariant, LineRedacts, ShapeInvariant, PTL

\* Whatever the bindings, the object, the mixin and the redaction, a reader gets
\* the newest value that has a text (tools.js:156-157).
THEOREM NewestAlwaysWins == LineSpec => []NewestWins
<1>1. LineInv => NewestWins
  <2> SUFFICES ASSUME LineInv, line # Nothing
               PROVE  /\ line.arg.message => Parsed(MessageKey).by = "message"
                      /\ ~format.nested => \A k \in Key \ {MessageKey} :
                            InCall(k) /\ Serialized(k) = "value" /\ Text(k) # "undefined"
                              => Parsed(k).by = Mixed(ObjectOf(line.arg))[k]
                      /\ \A n \in DOMAIN bound : \A k \in bound[n] :
                            Pieces(k) # {} /\ Parsed(k).by = "bindings" /\ Parsed(k).of < n
                              => BoundWritten(k) = "undefined"
    BY DEF NewestWins
  <2>1. /\ \A k \in DOMAIN ObjPart :
              k \in Key => k \in ShownKeys(Obj) /\ ObjPart[k].by = Obj[k]
        /\ \A k \in DOMAIN MsgPart :
              /\ k = MessageKey /\ MsgPart[k].by = MessageOf(line.arg)
              /\ MsgPart[k].by \in {"message", "error"}
        /\ MessageOf(line.arg) # Nothing => MessageKey \in DOMAIN MsgPart
        /\ ~format.nested => DOMAIN ObjPart = ShownKeys(Obj)
    BY PartsOK
  <2>2. ASSUME line.arg.message PROVE Parsed(MessageKey).by = "message"
    <3>1. MessageOf(line.arg) = "message"
      BY <2>2, MessageOfIs
    <3>2. MessageKey \in DOMAIN MsgPart /\ MessageKey \in Key
      BY <3>1, <2>1, LineAssumption
    <3>3. Parsed(MessageKey) = MsgPart[MessageKey]
      BY <3>2, ParsedIs
    <3> QED
      BY <3>1, <3>2, <3>3, <2>1
  <2>3. ASSUME ~format.nested, NEW k \in Key \ {MessageKey},
               InCall(k), Serialized(k) = "value", Text(k) # "undefined"
        PROVE  Parsed(k).by = Mixed(ObjectOf(line.arg))[k]
    <3>1. k \in DOMAIN Obj
      BY <2>3, ObjIs
    <3>2. k \in ShownKeys(Obj)
      BY <3>1, <2>3 DEF ShownKeys, Written
    <3>3. k \in DOMAIN ObjPart /\ k \notin DOMAIN MsgPart
      BY <3>2, <2>1, <2>3
    <3>4. Parsed(k) = ObjPart[k]
      BY <3>3, <2>3, ParsedIs
    <3> QED
      BY <3>3, <3>4, <2>1 DEF Obj
  <2>4. ASSUME NEW n \in DOMAIN bound, NEW k \in bound[n],
               Pieces(k) # {}, Parsed(k).by = "bindings", Parsed(k).of < n
        PROVE  BoundWritten(k) = "undefined"
    <3>1. n \in 1 .. Len(chindings) /\ n \in Nat
      BY DEF LineInv, RenderedOK
    <3>2. k \in Key /\ (HasBound(n, k) <=> k # LevelKey /\ BoundWritten(k) # "undefined")
      BY <3>1, ChindingIs
    <3>3. \A j \in 1 .. Len(chindings) : ~HasBound(j, LevelKey)
      BY ChindingIs
    <3>4. CASE k \in DOMAIN MsgPart /\ Parsed(k) = MsgPart[k]
      <4>1. Parsed(k).by \in {"message", "error"}
        BY <3>4, <2>1
      <4> QED
        BY <4>1, <2>4
    <3>5. CASE k \in DOMAIN ObjPart /\ Parsed(k) = ObjPart[k]
      <4>1. k \in DOMAIN Obj /\ Parsed(k).by = Obj[k]
        BY <3>2, <3>5, <2>1 DEF ShownKeys
      <4>2. Parsed(k).by \in {"object", "mixin"}
        BY <4>1, ObjIs
      <4> QED
        BY <4>2, <2>4
    <3>6. CASE \E m \in 1 .. Len(chindings) :
                  /\ HasBound(m, k) /\ Parsed(k) = chindings[m][k]
                  /\ \A j \in 1 .. Len(chindings) : HasBound(j, k) => j <= m
      <4>1. PICK m \in 1 .. Len(chindings) :
                  /\ HasBound(m, k) /\ Parsed(k) = chindings[m][k]
                  /\ \A j \in 1 .. Len(chindings) : HasBound(j, k) => j <= m
        BY <3>6
      <4>2. Parsed(k).of = m /\ k # LevelKey
        BY <4>1, <3>3, ChindingIs DEF HasBound
      <4>3. ~HasBound(n, k)
        <5>1. HasBound(n, k) => n <= m
          BY <4>1, <3>1
        <5>2. m < n
          BY <4>2, <2>4
        <5>3. m \in Nat
          BY <4>1
        <5> QED
          BY <5>1, <5>2, <5>3, <3>1
      <4> QED
        BY <4>2, <4>3, <3>2
    <3>7. CASE k = LevelKey /\ Parsed(k) = LevelPiece[k]
      <4>1. Parsed(k).by = "level"
        BY <3>7, LevelPieceOK
      <4> QED
        BY <4>1, <2>4
    <3> QED
      BY <3>2, <3>4, <3>5, <3>6, <3>7, <2>4, ParsedIs
  <2> QED
    BY <2>2, <2>3, <2>4
<1> QED
  BY <1>1, LineInvariant, PTL

\* For any bindings and paths, the level a reader takes is that of the call,
\* unless its own object or the mixin has the key (tools.js:246, worker.js:157).
THEOREM LevelAlwaysReads == LineSpec => []LevelReadsAsLogged
<1>1. LineInv => LevelReadsAsLogged
  <2> SUFFICES ASSUME LineInv, line # Nothing
               PROVE  Parsed(LevelKey).by = "level" \/ (InCall(LevelKey) /\ ~format.nested)
    BY DEF LevelReadsAsLogged
  <2>1. LevelKey \in Key /\ LevelKey # MessageKey
    BY LineAssumption, KeysAssumption
  <2>2. LevelKey \notin DOMAIN MsgPart
    BY <2>1, PartsOK
  <2>3. \A j \in 1 .. Len(chindings) : ~HasBound(j, LevelKey)
    BY ChindingIs
  <2>4. CASE LevelKey \in DOMAIN ObjPart
    <3>1. ~format.nested /\ LevelKey \in ShownKeys(Obj)
      BY <2>1, <2>4, PartsOK
    <3>2. InCall(LevelKey)
      BY <3>1, ObjIs DEF ShownKeys
    <3> QED
      BY <3>1, <3>2
  <2>5. CASE LevelKey \notin DOMAIN ObjPart
    <3>1. Parsed(LevelKey) = LevelPiece[LevelKey]
      BY <2>1, <2>2, <2>3, <2>5, ParsedIs
    <3> QED
      BY <3>1, LevelPieceOK
  <2> QED
    BY <2>4, <2>5
<1> QED
  BY <1>1, LineInvariant, PTL

\* Whatever the redaction and the serializers take away, what is left of a line
\* is JSON but for the message (tools.js:133-134, tools.js:221).
THEOREM LineAlwaysParses == LineSpec => []LineParses
<1>1. LineInv => LineParses
  <2> SUFFICES ASSUME LineInv, line # Nothing,
                      NEW piece \in Range(line.top) \cup {line.nested}, NEW k \in DOMAIN piece,
                      piece[k].text = "undefined"
               PROVE  /\ k = MessageKey /\ piece[k].by \in {"message", "error"}
                      /\ (remove /\ Entry(k) \in whole) \/ SerializedBy(k) = "nothing"
    BY DEF LineParses
  <2>1. \A x \in DOMAIN ObjPart : ObjPart[x].text # "undefined"
    BY PartsOK
  <2>2. piece # ObjPart
    BY <2>1
  <2>3. \A n \in 1 .. Len(chindings) : piece # chindings[n]
    BY ChindingIs
  <2>4. piece # LevelPiece
    BY LevelPieceOK
  <2>5. piece # line.nested
    <3>1. /\ DOMAIN Obj \subseteq Key
          /\ \A x \in DOMAIN Obj : Obj[x] \in {"object", "mixin"}
      BY ObjIs
    <3>2. \A x \in DOMAIN ObjectPiece(Obj) : ObjectPiece(Obj)[x].text # "undefined"
      BY <3>1, ObjectPieceOK
    <3>3. line.nested = ObjectPiece(Obj) \/ line.nested = << >>
      BY DEF LineInv, LineIsOfCall, Obj
    <3> QED
      BY <3>2, <3>3, EmptyPiece
  <2>6. piece = MsgPart
    <3>1. PICK i \in DOMAIN line.top : piece = line.top[i]
      BY <2>5 DEF Range
    <3>2. PICK N \in Nat : N = Len(chindings)
      BY TopIs
    <3>3. i \in 1 .. (N + 3)
      BY <3>1, <3>2, TopIs
    <3>4. i = 1 \/ i = N + 2 \/ i = N + 3 \/ (i - 1 \in 1 .. N /\ (i - 1) + 1 = i)
      BY <3>3
    <3>5. i # 1 /\ i # N + 2
      BY <3>1, <3>2, <2>2, <2>4, TopIs
    <3>6. ~(i - 1 \in 1 .. N /\ (i - 1) + 1 = i)
      <4>1. i - 1 \in 1 .. N => line.top[(i - 1) + 1] = chindings[i - 1]
        BY <3>2, TopIs
      <4> QED
        BY <4>1, <3>1, <3>2, <2>3
    <3> QED
      BY <3>1, <3>2, <3>4, <3>5, <3>6, TopIs
  <2>7. /\ k = MessageKey /\ piece[k].by \in {"message", "error"}
        /\ piece[k].text = Written(MessageKey, SerializedBy(MessageKey))
    BY <2>6, PartsOK
  <2>8. SerializedBy(k) \in SerializerResult
    BY SerializerGives DEF LineInv, RenderedOK
  <2>9. CASE SerializedBy(k) = "value"
    BY <2>7, <2>9 DEF Written, Text
  <2>10. CASE SerializedBy(k) = "nothing"
    BY <2>7, <2>10
  <2> QED
    BY <2>8, <2>9, <2>10 DEF SerializerResult
<1> QED
  BY <1>1, LineInvariant, PTL

\* What is written of a value is what the redactor of its key leaves of it, or
\* nothing, of a message that its serializer took away.
LEMMA TextIs ==
    ASSUME LineInv, line # Nothing,
           NEW piece \in Range(line.top) \cup {line.nested},
           NEW k \in Key, k \in DOMAIN piece, piece[k].by # "level"
    PROVE  \/ piece[k].text = Text(k)
           \/ piece[k].text = "undefined" /\ SerializedBy(k) = "nothing"
<1>1. format \in Formats
  BY DEF LineInv, RenderedOK
<1>2. \A x, v : Written(x, v) \in {Text(x), "undefined"}
  BY DEF Written
<1>3. CASE piece = ObjectPiece(Obj)
  <2>1. /\ DOMAIN Obj \subseteq Key
        /\ \A x \in DOMAIN Obj : Obj[x] \in {"object", "mixin"}
    BY ObjIs
  <2>2. piece[k].text # "undefined" /\ piece[k].text = Written(k, Serialized(k))
    BY <2>1, <1>3, ObjectPieceOK
  <2> QED
    BY <2>2, <1>2
<1>4. CASE piece = MsgPart
  <2>1. k = MessageKey /\ piece[k].text = Written(MessageKey, SerializedBy(MessageKey))
    BY <1>4, PartsOK
  <2>2. SerializedBy(k) \in {"value", "nothing"}
    BY <1>1, SerializerGives DEF SerializerResult
  <2>3. SerializedBy(k) = "value" => piece[k].text = Text(k)
    BY <2>1 DEF Written
  <2> QED
    BY <2>1, <2>2, <2>3, <1>2
<1>5. CASE \E n \in 1 .. Len(chindings) : piece = chindings[n]
  <2>1. PICK n \in 1 .. Len(chindings) : piece = chindings[n]
    BY <1>5
  <2>2. piece[k].text # "undefined" /\ piece[k].text = BoundWritten(k)
    BY <2>1, ChindingIs
  <2> QED
    BY <2>2, <1>2 DEF BoundWritten
<1>6. piece # LevelPiece
  BY LevelPieceOK
<1>7. piece # NestedPiece
  BY NestedPieceOK, LineAssumption
<1>8. piece # << >>
  BY EmptyPiece
<1>9. \/ piece = ObjectPiece(Obj) \/ piece = MsgPart
      \/ piece = LevelPiece \/ piece = NestedPiece \/ piece = << >>
      \/ \E n \in 1 .. Len(chindings) : piece = chindings[n]
  <2>1. CASE piece = line.nested
    BY <2>1 DEF LineInv, LineIsOfCall, Obj
  <2>2. CASE piece \in Range(line.top)
    <3>1. PICK i \in DOMAIN line.top : piece = line.top[i]
      BY <2>2 DEF Range
    <3>2. PICK N \in Nat : N = Len(chindings)
      BY TopIs
    <3>3. i \in 1 .. (N + 3)
      BY <3>1, <3>2, TopIs
    <3>4. i = 1 \/ i = N + 2 \/ i = N + 3 \/ (i - 1 \in 1 .. N /\ (i - 1) + 1 = i)
      BY <3>3
    <3>5. CASE i = 1 \/ i = N + 2 \/ i = N + 3
      BY <3>1, <3>2, <3>5, TopIs DEF ObjPart
    <3>6. CASE i - 1 \in 1 .. N /\ (i - 1) + 1 = i
      <4>1. line.top[(i - 1) + 1] = chindings[i - 1]
        BY <3>2, <3>6, TopIs
      <4> QED
        BY <4>1, <3>1, <3>2, <3>6
    <3> QED
      BY <3>4, <3>5, <3>6
  <2> QED
    BY <2>1, <2>2
<1> QED
  BY <1>3, <1>4, <1>5, <1>6, <1>7, <1>8, <1>9

\* What redaction promises of the entries holds of the text: whatever the order
\* of the paths and whoever gave the value, no line shows a place a listed path
\* applies to, and none hides another (redaction.js:46-63, tools.js:175, 259).
THEOREM LineAlwaysHides == LineSpec => []LineHides
<1>1. LineInv /\ ShapeInv /\ PathsApply /\ OnlyPathsApply => LineHides
  <2> SUFFICES ASSUME LineInv, ShapeInv, PathsApply, OnlyPathsApply, line # Nothing,
                      NEW piece \in Range(line.top) \cup {line.nested}, NEW place \in Place,
                      place[1] \in DOMAIN piece, piece[place[1]].by # "level"
               PROVE  /\ \A path \in listed : AppliesTo(path, place) => Concealed(piece, place)
                      /\ Concealed(piece, place) =>
                            Matched(place) \/ SerializedBy(place[1]) = "nothing"
    BY DEF LineHides
  <2> DEFINE k == place[1]
  <2>1. k \in Key
    BY PlacesAreSeqs
  <2>2. whole \subseteq keys
    BY DEF ShapeInv, TypeOK
  <2>3. \/ piece[k].text = Text(k)
        \/ piece[k].text = "undefined" /\ SerializedBy(k) = "nothing"
    BY <2>1, TextIs
  <2>4. piece[k].text = Text(k) => (Concealed(piece, place) <=> Hidden(place))
    BY <2>2 DEF Concealed, Hidden, Text
  <2>5. piece[k].text = "undefined" => Concealed(piece, place)
    BY DEF Concealed
  <2>6. /\ \A path \in listed : AppliesTo(path, place) => Hidden(place)
        /\ Hidden(place) => Matched(place)
    BY DEF PathsApply, OnlyPathsApply
  <2> QED
    BY <2>3, <2>4, <2>5, <2>6
<1> QED
  BY <1>1, LineInvariant, LineRedacts, ShapeInvariant, PathsAlwaysApply, OnlyPathsEverApply, PTL
=============================================================================
