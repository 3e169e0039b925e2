----------------------------- MODULE MultiStream -----------------------------
(***************************************************************************)
(* lib/multistream.js: a destination that forwards each line to the streams*)
(* it holds whose level the line reaches, and the clones made of it.       *)
(*                                                                         *)
(* write() walks a live array and calls stream.write on the way; the code  *)
(* of a stream runs inside that call and may log again, add, remove or     *)
(* clone before it returns, so a write is a frame on a call stack and each *)
(* turn of its loop is a step.  Everything else is one step.               *)
(*                                                                         *)
(* A destination buffers what it is given until it drains; flushSync works *)
(* once it is open and throws before (sonic-boom, which is not under src/: *)
(* its part is marked external).                                           *)
(***************************************************************************)
EXTENDS Integers, SequencesExt

CONSTANTS
    Instance,       \* the multistream and the clones there may be
    Original,       \* the one multistream() returns
    Stream,         \* destinations
    HasFlushSync,   \* those with a flushSync function
    StreamLevels,   \* numeric levels streams are added with
    LineLevels,     \* levels lines are logged at, NotANumber for a label that
                    \* streamLevels does not know (write resolves it to undefined)
    CloneLevels,    \* what clone() is called with, NotANumber for a label
    Fatal,          \* the level of fatal
    Dedupe,         \* values of the option dedupe
    Ids,            \* ids an application may ask to remove
    NotANumber,     \* a level that compares as NaN with a number
    Absent,         \* no id
    MaxEntries,     \* bound: streams held by one instance
    MaxId,          \* bound: streams added
    MaxLine,        \* bound: lines logged
    MaxDepth        \* bound: writes on the call stack

VARIABLES
    dedupe,         \* opts.dedupe
    held,           \* instance -> its `streams`
    minLevel,       \* instance -> minLevel
    lastId,         \* res.lastId, shared by the closures of all instances
    clones,         \* instances made by clone()
    lastLine,       \* instance -> lastObj, lastMsg, ...: the line they are of
    lines,          \* lines logged so far, numbered from 1
    stack,          \* the frames of write(), the innermost last
    open,           \* destinations that can be flushed
    dirty,          \* destinations with lines not yet written out
    ended,          \* destinations whose end() was called
    obs             \* what the last step showed

arrays == <<held, minLevel, lastId, clones>>
destinations == <<open, dirty, ended>>
vars == <<dedupe, held, minLevel, lastId, clones, lastLine, lines, stack, open,
          dirty, ended, obs>>

Level == StreamLevels \cup CloneLevels

ASSUME MultiStreamAssumption ==
    /\ Original \in Instance
    /\ HasFlushSync \subseteq Stream
    /\ StreamLevels \subseteq Nat
    /\ LineLevels \subseteq Nat \cup {NotANumber}
    /\ CloneLevels \subseteq Nat \cup {NotANumber}
    /\ NotANumber \notin Nat
    /\ Absent \notin Nat
    /\ Dedupe \subseteq BOOLEAN

\* The entries of `streams`.
Entry == [stream : Stream, level : Level, id : Nat \cup {Absent}]

\* JavaScript's a <= b: false as soon as one of them is not a number.
AtMost(a, b) == a \in Nat /\ b \in Nat /\ a =< b

Alive == {Original} \cup clones

Top == stack[Len(stack)]

\* The code of a stream runs, or that of the application.
CanCall == stack # << >> => Top.inside

Quiet == [kind |-> "quiet"]

-----------------------------------------------------------------------------
\* add and remove.

\* Mutant for OrderedByLevel: push without a sort.
IsLastPlace(es, level, p) == p = Len(es) + 1

\* unshift, then a stable sort by level: the new entry comes right before the
\* first one that is not below it.
IsSortedPlace(es, level, p) ==
    /\ \A i \in 1 .. (p - 1) : es[i].level < level
    /\ \A i \in p .. Len(es) : level =< es[i].level

\* The frames whose array changes under them.
Disturbed(inst) ==
    [d \in 1 .. Len(stack) |->
        [stack[d] EXCEPT !.calm = @ /\ stack[d].inst # inst]]

\* An array with a level that is no number has no sorted place for another one.
AddStream(inst, s, level) ==
    /\ CanCall
    /\ s \notin ended
    /\ Len(held[inst]) < MaxEntries /\ lastId < MaxId
    /\ \A i \in 1 .. Len(held[inst]) : held[inst][i].level \in Nat
    /\ lastId' = lastId + 1
    /\ \E p \in 1 .. (Len(held[inst]) + 1) :
          /\ IsSortedPlace(held[inst], level, p)
          /\ held' = [held EXCEPT ![inst] =
                InsertAt(@, p, [stream |-> s, level |-> level, id |-> lastId + 1])]
    /\ minLevel' = [minLevel EXCEPT ![inst] = held'[inst][1].level]
    /\ stack' = Disturbed(inst)
    /\ obs' = Quiet
    /\ UNCHANGED <<dedupe, clones, lastLine, lines, destinations>>

\* findIndex, splice; the sort that follows finds the array sorted.
RemoveStream(inst, id) ==
    /\ CanCall
    /\ \E i \in 1 .. Len(held[inst]) :
          /\ held[inst][i].id = id
          /\ \A j \in 1 .. (i - 1) : held[inst][j].id # id
          /\ held' = [held EXCEPT ![inst] = RemoveAt(@, i)]
    /\ minLevel' = [minLevel EXCEPT ![inst] =
          IF held'[inst] = << >> THEN -1 ELSE held'[inst][1].level]
    /\ stack' = Disturbed(inst)
    /\ obs' = Quiet
    /\ UNCHANGED <<dedupe, lastId, clones, lastLine, lines, destinations>>

\* Mutant for IdsAreUnique: the entries of the clone keep their ids.
CloneWithIds(inst, c, level) ==
    /\ CanCall
    /\ c \notin Alive
    /\ held' = [held EXCEPT ![c] =
          [i \in 1 .. Len(held[inst]) |-> [held[inst][i] EXCEPT !.level = level]]]
    /\ minLevel' = [minLevel EXCEPT ![c] = level]
    /\ clones' = clones \cup {c}
    /\ obs' = Quiet
    /\ UNCHANGED <<dedupe, lastId, lastLine, lines, stack, destinations>>

\* clone(level): the same streams, all at that level and without an id.
Clone(inst, c, level) ==
    /\ CanCall
    /\ c \notin Alive
    /\ held' = [held EXCEPT ![c] =
          [i \in 1 .. Len(held[inst]) |->
              [stream |-> held[inst][i].stream, level |-> level, id |-> Absent]]]
    /\ minLevel' = [minLevel EXCEPT ![c] = level]
    /\ clones' = clones \cup {c}
    /\ obs' = Quiet
    /\ UNCHANGED <<dedupe, lastId, lastLine, lines, stack, destinations>>

-----------------------------------------------------------------------------
\* flushSync and end.

Flushable(inst, i) == held[inst][i].stream \in HasFlushSync

\* flushSync stops at the first stream that throws.
FlushReaches(inst, i) ==
    \A j \in 1 .. i : Flushable(inst, j) => held[inst][j].stream \in open

\* Mutant for EndedIsFlushed and FatalLeavesNothing: only the first stream is flushed.
FlushedFirst(inst) ==
    {held[inst][i].stream :
        i \in {j \in 1 .. Len(held[inst]) : j = 1 /\ Flushable(inst, j) /\ FlushReaches(inst, j)}}

Flushed(inst) ==
    {held[inst][i].stream :
        i \in {j \in 1 .. Len(held[inst]) : Flushable(inst, j) /\ FlushReaches(inst, j)}}

FlushThrows(inst) ==
    \E i \in 1 .. Len(held[inst]) : Flushable(inst, i) /\ held[inst][i].stream \notin open

FlushSync(inst) ==
    /\ CanCall
    /\ dirty' = dirty \ Flushed(inst)
    /\ obs' = [kind |-> "flushSync", inst |-> inst, threw |-> FlushThrows(inst)]
    /\ UNCHANGED <<dedupe, arrays, lastLine, lines, stack, open, ended>>

\* Each stream is flushed, then ended; a flushSync that throws ends neither its
\* own stream nor the ones behind it.  An application ends a multistream once,
\* from its own code.
End(inst) ==
    LET n == Len(held[inst])
    IN  /\ stack = << >>
        /\ \A i \in 1 .. n : held[inst][i].stream \notin ended
        /\ dirty' = dirty \ Flushed(inst)
        /\ ended' = ended \cup {held[inst][i].stream : i \in {j \in 1 .. n : FlushReaches(inst, j)}}
        /\ obs' = [kind |-> "end", inst |-> inst, threw |-> FlushThrows(inst)]
        /\ UNCHANGED <<dedupe, arrays, lastLine, lines, stack, open>>

\* External: a destination opens its file, and writes out what it buffered.
Open(s) ==
    /\ s \notin open
    /\ open' = open \cup {s}
    /\ obs' = Quiet
    /\ UNCHANGED <<dedupe, arrays, lastLine, lines, stack, dirty, ended>>

Drain(s) ==
    /\ s \in open /\ s \in dirty
    /\ dirty' = dirty \ {s}
    /\ obs' = Quiet
    /\ UNCHANGED <<dedupe, arrays, lastLine, lines, stack, open, ended>>

-----------------------------------------------------------------------------
\* write.  A frame keeps the locals of one call; start, sent and calm are
\* history: the array it found, the positions and ids it wrote to, and whether
\* the array has stayed the same.
Frame ==
    [inst : Instance, line : Nat, level : LineLevels, i : Nat,
     recordedLevel : Level \cup {0}, inside : BOOLEAN,
     start : Seq(Entry), sent : SUBSET [at : Nat, id : Nat \cup {Absent}], calm : BOOLEAN]

\* Mutant for MetadataNotOlder: metadata is set on the multistream a clone is of.
SetMetadataOfOriginal(inst) == lastLine' = [lastLine EXCEPT ![Original] = lines + 1]

\* A logger sets lastLevel and the other metadata on the instance it writes to.
SetMetadata(inst) == lastLine' = [lastLine EXCEPT ![inst] = lines + 1]

Write(inst, level) ==
    /\ CanCall
    /\ Len(stack) < MaxDepth /\ lines < MaxLine
    /\ \A i \in 1 .. Len(held[inst]) : held[inst][i].stream \notin ended
    /\ lines' = lines + 1
    /\ SetMetadata(inst)
    /\ stack' = Append(stack,
          [inst |-> inst, line |-> lines + 1, level |-> level,
           i |-> IF dedupe THEN Len(held[inst]) ELSE 1,
           recordedLevel |-> 0, inside |-> FALSE,
           start |-> held[inst], sent |-> {}, calm |-> TRUE])
    /\ obs' = Quiet
    /\ UNCHANGED <<dedupe, arrays, destinations>>

\* The loop of the innermost write is at its condition.
AtLoop == stack # << >> /\ ~Top.inside

LoopGoesOn == IF dedupe THEN Top.i >= 1 ELSE Top.i =< Len(held[Top.inst])

Dest == held[Top.inst][Top.i]

\* Mutant for FanOutExact: `<` for `<=`.
StrictlyEligible == AtMost(Dest.level, Top.level) /\ Dest.level # Top.level

Eligible == AtMost(Dest.level, Top.level)

OtherLevelRecorded == Top.recordedLevel # 0 /\ Top.recordedLevel # Dest.level

\* Mutant for TypeOK: the directions of adjustLoopVar swapped.
OtherIndex(f) == IF dedupe THEN f.i + 1 ELSE f.i - 1

NextIndex(f) == IF dedupe THEN f.i - 1 ELSE f.i + 1

Pop == SubSeq(stack, 1, Len(stack) - 1)

SetTop(f) == [stack EXCEPT ![Len(stack)] = f]

\* The loop ends at its condition or at one of its breaks.  A fatal line is
\* followed by flushSync, whose error is dropped.
Return ==
    /\ AtLoop
    /\ LoopGoesOn =>
          /\ Top.i =< Len(held[Top.inst])
          /\ IF Eligible THEN OtherLevelRecorded ELSE ~dedupe
    /\ stack' = Pop
    /\ dirty' = IF Top.level = Fatal THEN dirty \ Flushed(Top.inst) ELSE dirty
    /\ obs' = [kind |-> "written", inst |-> Top.inst, level |-> Top.level,
               start |-> Top.start, sent |-> Top.sent, calm |-> Top.calm]
    /\ UNCHANGED <<dedupe, arrays, lastLine, lines, open, ended>>

Skip ==
    /\ AtLoop /\ LoopGoesOn
    /\ Top.i =< Len(held[Top.inst])
    /\ ~Eligible /\ dedupe
    /\ stack' = SetTop([Top EXCEPT !.i = NextIndex(Top)])
    /\ obs' = Quiet
    /\ UNCHANGED <<dedupe, arrays, lastLine, lines, destinations>>

\* stream.write is called, with the metadata the instance has now.
Deliver ==
    /\ AtLoop /\ LoopGoesOn
    /\ Top.i =< Len(held[Top.inst])
    /\ Eligible /\ ~OtherLevelRecorded
    /\ stack' = SetTop([Top EXCEPT !.inside = TRUE, !.sent = @ \cup {[at |-> Top.i, id |-> Dest.id]},
                           !.recordedLevel = IF dedupe THEN Dest.level ELSE @])
    /\ dirty' = dirty \cup {Dest.stream}
    /\ obs' = [kind |-> "delivered", stream |-> Dest.stream, line |-> Top.line,
               metadata |-> lastLine[Top.inst]]
    /\ UNCHANGED <<dedupe, arrays, lastLine, lines, open, ended>>

\* streams[i] is undefined: the array lost entries while a stream was written to.
TypeError ==
    /\ AtLoop /\ LoopGoesOn
    /\ Top.i > Len(held[Top.inst])
    /\ stack' = Pop
    /\ obs' = [kind |-> "threw"]
    /\ UNCHANGED <<dedupe, arrays, lastLine, lines, destinations>>

\* stream.write returns to the loop, or throws through write().
StreamReturns ==
    /\ stack # << >> /\ Top.inside
    /\ stack' = SetTop([Top EXCEPT !.inside = FALSE, !.i = NextIndex(Top)])
    /\ obs' = Quiet
    /\ UNCHANGED <<dedupe, arrays, lastLine, lines, destinations>>

StreamThrows ==
    /\ stack # << >> /\ Top.inside
    /\ stack' = Pop
    /\ obs' = [kind |-> "threw"]
    /\ UNCHANGED <<dedupe, arrays, lastLine, lines, destinations>>

-----------------------------------------------------------------------------
\* multistream([], {dedupe}); the streams it is given are added one by one.
Init ==
    /\ dedupe \in Dedupe
    /\ held = [inst \in Instance |-> << >>]
    /\ minLevel = [inst \in Instance |-> 0]
    /\ lastId = 0
    /\ clones = {}
    /\ lastLine = [inst \in Instance |-> 0]
    /\ lines = 0
    /\ stack = << >>
    /\ open = {} /\ dirty = {} /\ ended = {}
    /\ obs = Quiet

Next ==
    \/ \E inst \in Alive :
          \/ \E s \in Stream, level \in StreamLevels : AddStream(inst, s, level)
          \/ \E id \in Ids : RemoveStream(inst, id)
          \/ \E c \in Instance, level \in CloneLevels : Clone(inst, c, level)
          \/ FlushSync(inst)
          \/ End(inst)
          \/ \E level \in LineLevels : Write(inst, level)
    \/ Return \/ Skip \/ Deliver \/ TypeError \/ StreamReturns \/ StreamThrows
    \/ \E s \in Stream : Open(s) \/ Drain(s)

Spec == Init /\ [][Next]_vars

-----------------------------------------------------------------------------
(* Properties *)

StackOK ==
    /\ stack \in Seq(Frame)
    /\ \A d \in 1 .. Len(stack) : stack[d].inside \/ ~dedupe => stack[d].i >= 1

TypeOK ==
    /\ dedupe \in BOOLEAN
    /\ held \in [Instance -> Seq(Entry)]
    /\ minLevel \in [Instance -> Int \cup {NotANumber}]
    /\ lastId \in Nat
    /\ clones \subseteq Instance \ {Original}
    /\ lastLine \in [Instance -> Nat]
    /\ lines \in Nat
    /\ StackOK
    /\ open \subseteq Stream /\ dirty \subseteq Stream /\ ended \subseteq Stream

\* The positions a frame has written to.
At(sent) == {s.at : s \in sent}

\* The entries no write may skip without being told: for a line of that level,
\* every eligible one, or with dedupe (oneLevel) those at the highest eligible level.
Targets(es, level, oneLevel) ==
    LET eligible == {i \in 1 .. Len(es) : AtMost(es[i].level, level)}
    IN  IF oneLevel
        THEN {i \in eligible : \A j \in eligible : es[j].level =< es[i].level}
        ELSE eligible

\* Sorted by level, or cloned with a level that is no number.
Sorted(es) ==
    \/ \A i \in 1 .. Len(es) : es[i].level \notin Nat
    \/ \A i, j \in 1 .. Len(es) : i =< j => AtMost(es[i].level, es[j].level)

\* Every array stays sorted by level and minLevel is its first level, across
\* add, remove and clone (the early exit of write, multistream.js:48, and the
\* dedupe walk from the end rest on it).
OrderedByLevel ==
    \A inst \in Alive :
        /\ Sorted(held[inst])
        /\ held[inst] # << >> => minLevel[inst] = held[inst][1].level

\* An id names at most one entry of all arrays, clones included, although they
\* share one counter: remove(id) never takes another stream.
IdsAreUnique ==
    \A a, b \in Alive : \A i \in 1 .. Len(held[a]), j \in 1 .. Len(held[b]) :
        held[a][i].id = held[b][j].id /\ held[a][i].id # Absent => a = b /\ i = j

\* A write that returned, and whose array nobody changed meanwhile, called
\* stream.write on exactly the streams the line is for, whatever other writes
\* ran inside it.
FanOutExact ==
    obs.kind = "written" /\ obs.calm =>
        At(obs.sent) = Targets(obs.start, obs.level, dedupe)

\* The metadata a stream sees with a line is never that of an older line.
MetadataNotOlder ==
    obs.kind = "delivered" => obs.metadata >= obs.line

\* end() leaves no line in the buffer of a stream it ended.
EndedIsFlushed == ended \cap dirty \cap HasFlushSync = {}

\* When fatal returns and every destination could be flushed, nothing of what
\* the instance holds is left in a buffer: neither its own line nor older ones.
FatalLeavesNothing ==
    obs.kind = "written" /\ obs.level = Fatal /\ ~FlushThrows(obs.inst) =>
        \A i \in 1 .. Len(held[obs.inst]) :
            held[obs.inst][i].stream \in HasFlushSync => held[obs.inst][i].stream \notin dirty

-----------------------------------------------------------------------------
(* The inductive invariant behind FanOutExact *)

\* How far a frame has come, in an array nobody changed: without dedupe it has
\* written to everything before i, with dedupe to every eligible stream after i,
\* all of them at the recorded level.
Reached(f, oneLevel) ==
    LET at == At(f.sent)
        levelAt(j) == f.start[j].level
    IN  IF oneLevel
        THEN LET lo == IF f.inside THEN f.i ELSE f.i + 1
             IN  /\ lo >= 1 /\ f.i =< Len(f.start)
                 /\ at = {j \in lo .. Len(f.start) : AtMost(levelAt(j), f.level)}
                 /\ \A j \in at : levelAt(j) = f.recordedLevel
                 /\ at = {} => f.recordedLevel = 0
        ELSE LET hi == IF f.inside THEN f.i ELSE f.i - 1
             IN  /\ f.i >= 1 /\ hi =< Len(f.start)
                 /\ f.recordedLevel = 0
                 /\ at = 1 .. hi
                 /\ \A j \in at : AtMost(levelAt(j), f.level)

FrameOK(f, oneLevel, streams, instances) ==
    /\ f.inst \in instances
    /\ Sorted(f.start)
    /\ f.calm => f.start = streams[f.inst] /\ Reached(f, oneLevel)

FramesOK == \A d \in 1 .. Len(stack) : FrameOK(stack[d], dedupe, held, Alive)

FanOutInv == TypeOK /\ OrderedByLevel /\ FramesOK /\ FanOutExact

-----------------------------------------------------------------------------
(* What the documentation says and the code does not do *)

\* docs/api.md:1546-1550, 1566-1570: clone(level) takes a level label and returns
\* a clone "with the provided level", so whatever the label a fatal line reaches
\* the streams of the clone.
FatalReachesClone ==
    obs.kind = "written" /\ obs.calm /\ obs.level = Fatal /\ obs.inst \in clones =>
        At(obs.sent) = 1 .. Len(obs.start)
=============================================================================
