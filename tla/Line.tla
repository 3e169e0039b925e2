-------------------------------- MODULE Line --------------------------------
(***************************************************************************)
(* The text of a line, from the arguments of a log call to what a reader   *)
(* of the JSON gets: write() in lib/proto.js, asChindings and _asJson in   *)
(* lib/tools.js, over the redactors of Redaction.                          *)
(*                                                                         *)
(* A line is text that is appended piece by piece: the level, the          *)
(* bindings as they were rendered when they were given, the keys of the    *)
(* object, the message.  A key may be in several pieces, and a reader takes*)
(* the last one.  Here a piece is a function from its keys to what is      *)
(* written for them: who gave the value, and what the redactor left of it. *)
(*                                                                         *)
(* One logger stands for the loggers that share their serializers and      *)
(* redaction (LoggerTree has those that do not); base, child() and         *)
(* setBindings() append bindings in the same way.  Left out: the values    *)
(* themselves, the time, formatters, the interpolation of the message.     *)
(***************************************************************************)
EXTENDS Redaction, Functions

CONSTANTS
    LevelKey,       \* the key of the level
    ErrorKey,       \* the key of a logged error
    ErrKey,         \* the key `err`, whose serializer errors have by default
    MessageKey,     \* the key of the message
    NestedKey,      \* the key objects are nested under
    Formats,        \* what a logger may be made with
    Objects,        \* objects logged, by their keys
    BoundObjects,   \* bindings objects, by their keys
    MaxBindings,    \* bound: bindings objects given
    MaxPathsLogged, \* bound: paths listed when bindings are given and lines logged
    Nothing         \* no line

VARIABLES
    format,         \* nested, serializers, mixin: options of the logger
    chindings,      \* the pieces asChindings has appended
    bound,          \* history: the bindings objects given
    line            \* the last line, and the call it was written for

lineState == <<format, chindings, bound, line>>

\* A serializer gives a value, or undefined.
SerializerResult == {"value", "nothing"}

ASSUME LineAssumption ==
    /\ {LevelKey, ErrorKey, ErrKey, MessageKey} \subseteq Key
    /\ NestedKey \notin Key
    /\ MaxBindings \in Nat
    /\ Nothing \notin {"message", "error"}
    /\ Objects \subseteq SUBSET Key /\ BoundObjects \subseteq SUBSET Key
    /\ \A f \in Formats :
          /\ f.nested \in BOOLEAN
          /\ f.serializers \in [DOMAIN f.serializers -> SerializerResult]
          /\ DOMAIN f.serializers \subseteq Key
          /\ f.mixin \subseteq Key

\* pino() does not refuse `messageKey: 'level'`; then the message is the level.
ASSUME KeysAssumption == LevelKey # MessageKey

-----------------------------------------------------------------------------
\* serializers[key](value), where there is one.
SerializedBy(k) == IF k \in DOMAIN format.serializers THEN format.serializers[k] ELSE "value"

\* In the object the key of errors falls back to serializers.err.
Serialized(k) ==
    IF k = ErrorKey /\ k \notin DOMAIN format.serializers
    THEN SerializedBy(ErrKey) ELSE SerializedBy(k)

\* What a stringifier, or JSON.stringify, writes for the value of a key: of an
\* undefined value nothing but the censor has a text.
Written(k, value) ==
    IF value = "value" \/ Text(k) = "censored" THEN Text(k) ELSE "undefined"

\* Mutant for LineHides: bindings are not redacted.
BoundUnredacted(k) == IF SerializedBy(k) = "value" THEN "plain" ELSE "undefined"

\* stringifiers[key] || wildcardStringifier || stringify, in asChindings, which
\* has no fallback for the key of errors.
BoundWritten(k) == Written(k, SerializedBy(k))

\* Mutant for LevelReadsAsLogged: bindings may have any key.
AnyKey(k) == TRUE

\* The keys asChindings passes over, of those that are keys here.
ValidBinding(k) == k # LevelKey

\* asChindings: what the bindings object n appends.
BoundPiece(n, ks) ==
    [k \in {x \in ks : ValidBinding(x) /\ BoundWritten(x) # "undefined"} |->
        [by |-> "bindings", of |-> n, text |-> BoundWritten(k)]]

\* Mutant for LineParses: values without a text are written.
ShownKeysOfAll(obj) == DOMAIN obj

\* The keys of the object that are written: an undefined value is passed over
\* before it gets to a redactor, and one a redactor removed after it.
ShownKeys(obj) ==
    {k \in DOMAIN obj : Serialized(k) = "value" /\ Written(k, "value") # "undefined"}

ObjectPiece(obj) ==
    [k \in ShownKeys(obj) |-> [by |-> obj[k], of |-> 0, text |-> Written(k, Serialized(k))]]

\* The message is appended whatever its stringifier returns.
MessagePiece(msg) ==
    IF msg = Nothing THEN << >>
    ELSE [k \in {MessageKey} |->
            [by |-> msg, of |-> 0, text |-> Written(MessageKey, SerializedBy(MessageKey))]]

LevelPiece == [k \in {LevelKey} |-> [by |-> "level", of |-> 0, text |-> "plain"]]

\* With nestedKey the object's keys go below it, if there are any.
Nests(obj) == format.nested /\ ShownKeys(obj) # {}

NestedPiece == [k \in {NestedKey} |-> [by |-> "object", of |-> 0, text |-> "plain"]]

\* Mutant for NewestWins: the bindings come after the object.
ObjectFirst(obj, msg) ==
    <<LevelPiece>> \o <<IF Nests(obj) THEN NestedPiece ELSE ObjectPiece(obj)>>
        \o chindings \o <<MessagePiece(msg)>>

\* _asJson: the pieces in the order of the text.
AsJson(obj, msg) ==
    <<LevelPiece>> \o chindings
        \o <<IF Nests(obj) THEN NestedPiece ELSE ObjectPiece(obj)>> \o <<MessagePiece(msg)>>

-----------------------------------------------------------------------------
\* write(): what a log call was given, as an object and a message.

GivenBy(ks, who) == [k \in ks |-> who]

\* _obj: none (null, or only a message), an error, or an object.
ObjectOf(arg) ==
    IF arg.kind = "none" THEN << >>
    ELSE IF arg.kind = "error" THEN GivenBy({ErrorKey}, "object")
    ELSE GivenBy(arg.keys, "object")

\* Without a message that of the error is taken, if it has one: of the error
\* logged, or of an object's unless the object has the key of the message.
MessageOf(arg) ==
    IF arg.message THEN "message"
    ELSE IF arg.errorMessage /\ MessageKey \notin arg.keys THEN "error"
    ELSE Nothing

\* mixinMergeStrategy: the object is assigned over what the mixin returned.
Mixed(obj) ==
    [k \in DOMAIN obj \cup format.mixin |-> IF k \in DOMAIN obj THEN obj[k] ELSE "mixin"]

\* logger[level](...)
Log(arg) ==
    LET obj == Mixed(ObjectOf(arg))
        msg == MessageOf(arg)
    IN  /\ built
        /\ Cardinality(listed) <= MaxPathsLogged
        /\ line' = [arg |-> arg, top |-> AsJson(obj, msg),
                    nested |-> IF Nests(obj) THEN ObjectPiece(obj) ELSE << >>]
        /\ UNCHANGED <<vars, format, chindings, bound>>

\* Mutant for LineTypeOK: the text starts anew.
BindAnew(ks) ==
    LET n == Len(bound) + 1
    IN  /\ built
        /\ Cardinality(listed) <= MaxPathsLogged
        /\ n <= MaxBindings
        /\ bound' = Append(bound, ks)
        /\ chindings' = <<BoundPiece(n, ks)>>
        /\ line' = Nothing
        /\ UNCHANGED <<vars, format>>

\* Bindings with the keys ks are given.
Bind(ks) ==
    LET n == Len(bound) + 1
    IN  /\ built
        /\ Cardinality(listed) <= MaxPathsLogged
        /\ n <= MaxBindings
        /\ bound' = Append(bound, ks)
        /\ chindings' = Append(chindings, BoundPiece(n, ks))
        /\ line' = Nothing
        /\ UNCHANGED <<vars, format>>

\* The arguments of a call; errorMessage: the error, or what an object has under
\* the key of errors, is something with a message.
Args ==
    {arg \in [kind : {"none", "error", "object"}, keys : Objects \cup {{}},
              message : BOOLEAN, errorMessage : BOOLEAN] :
        /\ arg.kind = "object" => arg.keys \in Objects
        /\ arg.kind # "object" => arg.keys = {}
        /\ arg.errorMessage =>
              arg.kind = "error" \/ (arg.kind = "object" /\ ErrorKey \in arg.keys)}

LineInit ==
    /\ Init
    /\ format \in Formats
    /\ chindings = << >>
    /\ bound = << >>
    /\ line = Nothing

LineNext ==
    \/ Next /\ UNCHANGED lineState
    \/ \E ks \in BoundObjects : Bind(ks)
    \/ \E arg \in Args : Log(arg)

LineSpec == LineInit /\ [][LineNext]_<<vars, lineState>>

-----------------------------------------------------------------------------
(* Properties *)

Value ==
    [by : {"level", "bindings", "object", "mixin", "message", "error"},
     of : 0 .. MaxBindings,
     text : {"plain", "censored", "filtered", "undefined"}]

\* The types; nothing is in the bindings of a logger but what was given as such.
LineTypeOK ==
    /\ TypeOK
    /\ format \in Formats
    /\ bound \in Seq(BoundObjects)
    /\ Len(chindings) = Len(bound)
    /\ \A n \in DOMAIN chindings :
          /\ DOMAIN chindings[n] \subseteq bound[n] /\ Range(chindings[n]) \subseteq Value
          /\ \A k \in DOMAIN chindings[n] : chindings[n][k].of = n
    /\ line # Nothing =>
          /\ line.arg \in Args
          /\ \A i \in DOMAIN line.top :
                /\ DOMAIN line.top[i] \subseteq Key \cup {NestedKey}
                /\ Range(line.top[i]) \subseteq Value

\* What JSON.parse reads for a key of the line: the last piece that has it.
Pieces(k) == {i \in DOMAIN line.top : k \in DOMAIN line.top[i]}
LastPiece(k) == CHOOSE i \in Pieces(k) : \A j \in Pieces(k) : j <= i
Parsed(k) == line.top[LastPiece(k)][k]

\* The call gave a value for the key, in the object or by the mixin.
InCall(k) == k \in format.mixin \/ k \in DOMAIN ObjectOf(line.arg)

\* The newest value wins: "instance logged objects can take precedence when
\* JSON.parse-ing the resulting log line" (tools.js:156-157), the message over
\* them, and later bindings over earlier ones; except that a value that has no
\* text leaves the older one in its place.
NewestWins ==
    line # Nothing =>
        /\ line.arg.message => Parsed(MessageKey).by = "message"
        /\ ~format.nested => \A k \in Key \ {MessageKey} :
              InCall(k) /\ Serialized(k) = "value" /\ Text(k) # "undefined"
                => Parsed(k).by = Mixed(ObjectOf(line.arg))[k]
        /\ \A n \in DOMAIN bound : \A k \in bound[n] :
              Pieces(k) # {} /\ Parsed(k).by = "bindings" /\ Parsed(k).of < n
                => BoundWritten(k) = "undefined"

\* Bindings never replace the level a reader takes from the line (a worker routes
\* lines by it, worker.js:157); only an object or a mixin with that key does, and
\* not with nestedKey.
LevelReadsAsLogged ==
    line # Nothing =>
        \/ Parsed(LevelKey).by = "level"
        \/ InCall(LevelKey) /\ ~format.nested

\* A line is JSON, its values have a text, as `_asJson` promises
\* (tools.js:133-134); the exception is the message, whose text is appended
\* unseen (tools.js:221): a redaction or a serializer that takes it away leaves
\* `undefined`.
LineParses ==
    line # Nothing =>
        \A piece \in Range(line.top) \cup {line.nested} : \A k \in DOMAIN piece :
            piece[k].text = "undefined" =>
                /\ k = MessageKey /\ piece[k].by \in {"message", "error"}
                /\ (remove /\ Entry(k) \in whole) \/ SerializedBy(k) = "nothing"

\* A piece of the line does not show what is at a place.
Concealed(piece, place) ==
    LET k == place[1]
    IN  \/ piece[k].text \in {"censored", "undefined"}
        \/ /\ piece[k].text = "filtered"
           /\ \E path \in below[Entry(k)] : Matches(path, Tail(place))

\* In a line each listed path hides what it applies to (see AppliesTo for the
\* wildcard listed alone), whoever gave the value: bindings rendered long before
\* the line, the object, the mixin, the message, an object below the nested key;
\* and nothing else is missing but a message its serializer took away.  Only the
\* level the logger writes itself is never redacted (tools.js:154, 175, 259).
LineHides ==
    line # Nothing =>
        \A piece \in Range(line.top) \cup {line.nested}, place \in Place :
            place[1] \in DOMAIN piece /\ piece[place[1]].by # "level" =>
                /\ \A path \in listed : AppliesTo(path, place) => Concealed(piece, place)
                /\ Concealed(piece, place) =>
                      Matched(place) \/ SerializedBy(place[1]) = "nothing"
=============================================================================
