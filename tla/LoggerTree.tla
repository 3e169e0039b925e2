----------------------------- MODULE LoggerTree -----------------------------
(***************************************************************************)
(* A tree of loggers: pino() in pino.js, child(), setBindings() and write()*)
(* in lib/proto.js, setLevel() in lib/levels.js.                           *)
(*                                                                         *)
(* A child is Object.create(parent): what it does not own it reads through *)
(* the prototype chain, at the time it reads it.  Each variable below is   *)
(* one own property of every logger, Absent where the logger does not own  *)
(* it, and Get is the read through the chain.  A log method is bound when  *)
(* setLevel runs, so it is a cache of the comparison of two levels; the    *)
(* opening of a line is a cache of a formatter's result.                   *)
(*                                                                         *)
(* obs is what the last operation showed to the outside: the line it wrote,*)
(* the level-change event it emitted, or that it did neither.              *)
(*                                                                         *)
(* Left out: what happens inside one call to a log method after its level  *)
(* and its bindings are known (merging object, serializers of the line's   *)
(* own keys, mixin, time).  A hook that runs at the end of an operation    *)
(* (onChild, a level-change listener) is the next operation.               *)
(***************************************************************************)
EXTENDS Levels, Sequences

CONSTANTS
    Logger,         \* the loggers there may be
    Root,           \* the one pino() returns
    RootOptions,    \* options pino() is called with
    ChildOptions,   \* options objects child() is called with
    LevelArgs,      \* levels assigned to `level`
    LogLabels,      \* labels of the log methods that are called
    Bindings,       \* bindings objects given to pino() or child()
    NewBindings,    \* bindings objects given to setBindings()
    Formatter,      \* formatters of levels and of bindings
    SerializerMap,  \* `serializers` objects, and what merging them makes
    Redact,         \* `redact` options
    MaxSegments     \* bound: calls of asChindings kept in one logger

VARIABLES
    config,         \* levelComparison and useOnlyCustomLevels, shared by all
    chain,          \* logger -> the logger, its parent, ..., the root
    levels,         \* own `levels`
    levelVal,       \* own [levelValSym]
    methods,        \* own log methods: a function on the labels owned
    lsCache,        \* own [lsCacheSym]
    formatters,     \* own [formattersSym]: its level and bindings
    serializers,    \* own [serializersSym]: a function on keys
    redact,         \* own [stringifiersSym]
    chindings,      \* own [chindingsSym]: the segments asChindings appended
    msgPrefix,      \* own [msgPrefixSym]: the prefixes concatenated
    obs             \* what the last operation showed

levelState == <<levels, levelVal, methods, lsCache>>
lineState == <<formatters, serializers, redact, msgPrefix>>
vars == <<config, chain, levels, levelVal, methods, lsCache, formatters,
          serializers, redact, chindings, msgPrefix, obs>>

\* proto.js resetChildingsFormatter, the bindings formatter of every child
\* whose options do not give one.
ResetFormatter == "reset"

ASSUME LoggerAssumption ==
    /\ Root \in Logger
    /\ ResetFormatter \in Formatter
    /\ MaxSegments \in Nat \ {0}

\* What a logger's formatters and each of the segments of its bindings hold.
FormatterPair == [level : Formatter, bindings : Formatter]

Segments == [by : Logger, bindings : Bindings \cup NewBindings, formatter : Formatter,
             serializers : SerializerMap, redact : Redact]

Born == {l \in Logger : chain[l] # << >>}

\* The loggers that own a property, given as its variable.
Owners(f) == {l \in Logger : f[l] # Absent}

-----------------------------------------------------------------------------
\* Reading through the prototype chain.

\* Position i is the first of chain c that is in S.
IsFirst(c, i, S) ==
    /\ i \in 1 .. Len(c)
    /\ c[i] \in S
    /\ \A j \in 1 .. (i - 1) : c[j] \notin S

Nearest(c, S) == c[CHOOSE i \in 1 .. Len(c) : IsFirst(c, i, S)]

Get(f, l) == f[Nearest(chain[l], Owners(f))]

MethodOwners(k) == {l \in Logger : k \in DOMAIN methods[l]}

HasMethod(l, k) == \E i \in 1 .. Len(chain[l]) : chain[l][i] \in MethodOwners(k)

MethodOf(l, k) == methods[Nearest(chain[l], MethodOwners(k))][k]

LevelVal(l) == Get(levelVal, l)

\* getLevel
Level(l) == Get(levels, l).labels[LevelVal(l)]

\* isLevelEnabled
IsLevelEnabled(l, k) ==
    /\ k \in DOMAIN Get(levels, l).values
    /\ LevelEnabled(config.comparison, Get(levels, l).values[k], LevelVal(l))

-----------------------------------------------------------------------------
\* What the last operation showed.
Quiet(op, l) == [kind |-> op, of |-> l]

LevelChange(l, table, arg, prev) ==
    [kind |-> "level-change", of |-> l,
     level |-> LabelOf(table, arg), val |-> table.values[LabelOf(table, arg)],
     prevLevel |-> IF prev \in DOMAIN table.labels THEN table.labels[prev] ELSE Absent,
     prevVal |-> prev]

\* Mutants of AssignLevel: the methods are bound before the level is written
\* (for MethodsFollowLevel), the level is written to the root that all share (for
\* LevelStaysInSubtree), the old level is read after the new one was written (for
\* EventTellsTransition).
BindMethodsFirst(l, table, arg, prev) ==
    /\ levelVal' = [levelVal EXCEPT ![l] = table.values[LabelOf(table, arg)]]
    /\ methods' = [methods EXCEPT ![l] = Assign(methods[l],
                      MethodsAt(table, config.useOnly, config.comparison, prev))]
    /\ obs' = LevelChange(l, table, arg, prev)

AssignLevelAtRoot(l, table, arg, prev) ==
    LET val == table.values[LabelOf(table, arg)]
    IN  /\ levelVal' = [levelVal EXCEPT ![Root] = val]
        /\ methods' = [methods EXCEPT ![Root] = Assign(methods[Root],
                          MethodsAt(table, config.useOnly, config.comparison, val))]
        /\ obs' = LevelChange(l, table, arg, prev)

ReadPrevLate(l, table, arg, prev) ==
    LET val == table.values[LabelOf(table, arg)]
    IN  /\ levelVal' = [levelVal EXCEPT ![l] = val]
        /\ methods' = [methods EXCEPT ![l] = Assign(methods[l],
                          MethodsAt(table, config.useOnly, config.comparison, val))]
        /\ obs' = LevelChange(l, table, arg, val)

\* setLevel on logger l with the table its `levels` reads as: the own level
\* value and the own methods are written, then the event is emitted.
AssignLevel(l, table, arg, prev) ==
    LET val == table.values[LabelOf(table, arg)]
    IN  /\ levelVal' = [levelVal EXCEPT ![l] = val]
        /\ methods' = [methods EXCEPT ![l] = Assign(methods[l],
                          MethodsAt(table, config.useOnly, config.comparison, val))]
        /\ obs' = LevelChange(l, table, arg, prev)

\* Mutant for TypeOK: bindings are appended without serializers.
UnserializedSegment(l, b, fmt, ser, red) ==
    [by |-> l, bindings |-> b, formatter |-> fmt, serializers |-> << >>, redact |-> red]

\* asChindings: the bindings formatted, then serialized and redacted, are
\* appended to what the logger reads as its bindings.
Segment(l, b, fmt, ser, red) ==
    [by |-> l, bindings |-> b, formatter |-> fmt, serializers |-> ser, redact |-> red]

-----------------------------------------------------------------------------
\* pino(): the options checked, the instance built and setLevel called on it.
RootLevelArg(opt) == IF opt.enabled THEN opt.level ELSE Label(Silent)

RootCustom(opt) == IF opt.customLevels = Absent THEN << >> ELSE opt.customLevels

RootOptionsPass(opt) ==
    /\ opt.useOnly => opt.customLevels # Absent
    /\ DefaultLevelFound(RootCustom(opt), opt.useOnly, RootLevelArg(opt))
    /\ opt.comparison \in Comparison

\* The options the constants stand for; pino() fills in those of its own that
\* are not given, child() inherits or merges them.
ASSUME OptionsAssumption ==
    /\ \A opt \in RootOptions :
          /\ RootCustom(opt) \in CustomLevels /\ opt.useOnly \in BOOLEAN
          /\ {opt.formatLevel, opt.formatBindings} \subseteq Formatter
          /\ opt.serializers \in SerializerMap /\ opt.redact \in Redact
          /\ opt.base \in Bindings \cup {Absent}
    /\ \A opt \in ChildOptions :
          /\ opt.customLevels \in CustomLevels \cup {Absent}
          /\ {opt.formatLevel, opt.formatBindings} \subseteq Formatter \cup {Absent}
          /\ \A s \in SerializerMap : Assign(s, opt.serializers) \in SerializerMap
          /\ opt.redact \in Redact \cup {Absent}

\* undefined is none of the values a logger may own.
ASSUME AbsentAssumption ==
    /\ Absent \notin Table \cup FormatterPair \cup SerializerMap \cup Redact
    /\ Absent \notin Formatter
    /\ Absent \notin Seq(Segments)
    /\ \A t \in Table, f \in Formatter :
          /\ LsCache(t, f) # Absent
          /\ \A v \in DOMAIN LsCache(t, f) : LsCache(t, f)[v] # Absent

OwnAtRoot(value) == [l \in Logger |-> IF l = Root THEN value ELSE Absent]

Init ==
    \E opt \in RootOptions :
      LET table == Mappings(RootCustom(opt), opt.useOnly)
          arg == RootLevelArg(opt)
          val == table.values[LabelOf(table, arg)]
      IN  /\ RootOptionsPass(opt)
          /\ config = [comparison |-> opt.comparison, useOnly |-> opt.useOnly]
          /\ chain = [l \in Logger |-> IF l = Root THEN <<Root>> ELSE << >>]
          /\ levels = OwnAtRoot(table)
          /\ levelVal = OwnAtRoot(val)
          /\ methods = [l \in Logger |->
                IF l = Root
                THEN Assign([k \in {Silent} |-> Noop],
                            MethodsAt(table, opt.useOnly, opt.comparison, val))
                ELSE << >>]
          /\ lsCache = OwnAtRoot(LsCache(table, opt.formatLevel))
          /\ formatters = OwnAtRoot([level |-> opt.formatLevel,
                                     bindings |-> opt.formatBindings])
          /\ serializers = OwnAtRoot(opt.serializers)
          /\ redact = OwnAtRoot(opt.redact)
          /\ chindings = OwnAtRoot(
                IF opt.base = Absent THEN << >>
                ELSE <<Segment(Root, opt.base, opt.formatBindings,
                               opt.serializers, opt.redact)>>)
          /\ msgPrefix = OwnAtRoot(opt.msgPrefix)
          /\ obs = LevelChange(Root, table, arg, Absent)

\* logger.level = arg.  An unknown level throws before anything is written.
SetLevel(l, arg) ==
    /\ LevelKnown(Get(levels, l), arg)
    /\ AssignLevel(l, Get(levels, l), arg, LevelVal(l))
    /\ UNCHANGED <<config, chain, levels, lsCache, lineState, chindings>>

\* Mutants of SetBindings: rendered with the options of the root (for
\* RenderedUnderOwnOptions), written to the root (for BindingsAreIsolated).
SetBindingsUnderRoot(l, b) ==
    /\ Len(Get(chindings, l)) < MaxSegments
    /\ chindings' = [chindings EXCEPT ![l] =
          Append(Get(chindings, l),
                 Segment(l, b, Get(formatters, l).bindings, serializers[Root], redact[Root]))]
    /\ obs' = Quiet("bindings", l)
    /\ UNCHANGED <<config, chain, levelState, lineState>>

SetBindingsOfRoot(l, b) ==
    /\ Len(Get(chindings, l)) < MaxSegments
    /\ chindings' = [chindings EXCEPT ![Root] =
          Append(Get(chindings, l),
                 Segment(l, b, Get(formatters, l).bindings, Get(serializers, l), Get(redact, l)))]
    /\ obs' = Quiet("bindings", l)
    /\ UNCHANGED <<config, chain, levelState, lineState>>

\* logger.setBindings(b)
SetBindings(l, b) ==
    /\ Len(Get(chindings, l)) < MaxSegments
    /\ chindings' = [chindings EXCEPT ![l] =
          Append(Get(chindings, l),
                 Segment(l, b, Get(formatters, l).bindings, Get(serializers, l),
                         Get(redact, l)))]
    /\ obs' = Quiet("bindings", l)
    /\ UNCHANGED <<config, chain, levelState, lineState>>

\* parent.child(b) without options.
ChildFast(p, l, b) ==
    /\ l \notin Born
    /\ Len(Get(chindings, p)) < MaxSegments
    /\ chain' = [chain EXCEPT ![l] = <<l>> \o chain[p]]
    /\ formatters' = [formatters EXCEPT ![l] =
          IF Get(formatters, p).bindings # ResetFormatter
          THEN [level |-> Get(formatters, p).level, bindings |-> ResetFormatter]
          ELSE Absent]
    /\ chindings' = [chindings EXCEPT ![l] =
          Append(Get(chindings, p),
                 Segment(l, b, ResetFormatter, Get(serializers, p), Get(redact, p)))]
    /\ obs' = Quiet("child", l)
    /\ UNCHANGED <<config, levelState, serializers, redact, msgPrefix>>

\* The level child() passes to setLevel: `options.level || this.level`, where
\* the number 0 is as good as no level.
SpawnLevelArg(p, opt) ==
    IF opt.level = Absent \/ opt.level = Number(0) THEN Label(Level(p)) ELSE opt.level

\* Mutant for LevelReadsBack: custom levels alone do not make child() set a level.
SetsOwnLevelIfGiven(p, opt) ==
    opt.level # Absent /\ opt.level # Number(0) /\ opt.level # Label(Level(p))

SetsOwnLevel(p, opt) ==
    \/ opt.level # Absent /\ opt.level # Label(Level(p))
    \/ opt.customLevels # Absent

\* parent.child(b, opt).  A collision of custom levels or a level the new table
\* does not know throws, and the instance is dropped.
ChildWithOptions(p, l, b, opt) ==
    LET own == opt.customLevels # Absent
        table == IF own THEN Mappings(opt.customLevels, config.useOnly) ELSE Get(levels, p)
        fmt == [level |-> IF opt.formatLevel # Absent THEN opt.formatLevel
                          ELSE Get(formatters, p).level,
                bindings |-> IF opt.formatBindings # Absent THEN opt.formatBindings
                             ELSE ResetFormatter]
        ser == Assign(Get(serializers, p), opt.serializers)
        red == IF opt.redact # Absent THEN opt.redact ELSE Get(redact, p)
    IN  /\ l \notin Born
        /\ Len(Get(chindings, p)) < MaxSegments
        /\ own => NoLevelCollisions(Get(levels, p), opt.customLevels)
        /\ SetsOwnLevel(p, opt) => LevelKnown(table, SpawnLevelArg(p, opt))
        /\ chain' = [chain EXCEPT ![l] = <<l>> \o chain[p]]
        /\ serializers' = [serializers EXCEPT ![l] = ser]
        /\ formatters' = [formatters EXCEPT ![l] = fmt]
        /\ levels' = [levels EXCEPT ![l] = IF own THEN table ELSE Absent]
        /\ lsCache' = [lsCache EXCEPT ![l] = IF own THEN LsCache(table, fmt.level) ELSE Absent]
        /\ redact' = [redact EXCEPT ![l] = opt.redact]
        /\ msgPrefix' = [msgPrefix EXCEPT ![l] =
              IF opt.msgPrefix # Absent THEN Get(msgPrefix, p) \o opt.msgPrefix ELSE Absent]
        /\ chindings' = [chindings EXCEPT ![l] =
              Append(Get(chindings, p), Segment(l, b, fmt.bindings, ser, red))]
        /\ IF SetsOwnLevel(p, opt)
           THEN AssignLevel(l, table, SpawnLevelArg(p, opt), LevelVal(p))
           ELSE /\ obs' = Quiet("child", l)
                /\ UNCHANGED <<levelVal, methods>>
        /\ UNCHANGED config

\* logger[k](...): the bound method writes with the number it was bound to; the
\* opening of the line is looked up in the cache the logger reads.
Line(l, k) ==
    LET m == MethodOf(l, k)
        cache == Get(lsCache, l)
    IN  [kind |-> "line", of |-> l, label |-> k, num |-> m.num, flushed |-> m.flush,
         opening |-> IF m.num \in DOMAIN cache THEN cache[m.num] ELSE Absent,
         msgPrefix |-> Get(msgPrefix, l), chindings |-> Get(chindings, l)]

Log(l, k) ==
    /\ HasMethod(l, k)
    /\ obs' = IF MethodOf(l, k).writes THEN Line(l, k) ELSE Quiet("noop", l)
    /\ UNCHANGED <<config, chain, levelState, lineState, chindings>>

Next ==
    \E l \in Born :
      \/ \E arg \in LevelArgs : SetLevel(l, arg)
      \/ \E b \in NewBindings : SetBindings(l, b)
      \/ \E c \in Logger, b \in Bindings : ChildFast(l, c, b)
      \/ \E c \in Logger, b \in Bindings, opt \in ChildOptions : ChildWithOptions(l, c, b, opt)
      \/ \E k \in LogLabels : Log(l, k)

Spec == Init /\ [][Next]_vars

-----------------------------------------------------------------------------
(* Properties *)

\* Every variable has its type, and an unborn logger owns nothing.
TypeOK ==
    /\ config \in [comparison : Comparison, useOnly : BOOLEAN]
    /\ chain \in [Logger -> Seq(Logger)]
    /\ levels \in [Logger -> Table \cup {Absent}]
    /\ levelVal \in [Logger -> Nat \cup {Absent}]
    /\ chindings \in [Logger -> Seq(Segments) \cup {Absent}]
    /\ \A l \in Logger : /\ methods[l] \in [DOMAIN methods[l] -> Method]
                         /\ chain[l] = << >> => /\ levels[l] = Absent /\ levelVal[l] = Absent
                                                /\ methods[l] = << >>

\* The method cache never disagrees with the levels: at every logger a method
\* of its level table writes exactly if isLevelEnabled says so, whichever
\* ancestor the method, the level and the table are read from.  (setLevel binds
\* methods at one moment, levels.js:90-96; a child reads them through the
\* prototype at any later one.)
MethodsFollowLevel ==
    \A l \in Born : \A k \in MethodLabels(Get(levels, l)) :
        HasMethod(l, k) /\ (MethodOf(l, k).writes <=> IsLevelEnabled(l, k))

\* logger.level always names a level whose value is logger.levelVal, so that
\* assigning it back changes nothing: labels and values stay inverse on the
\* levels in force although custom levels may shadow standard ones
\* (levels.js:108-112, 152-173).
LevelReadsBack ==
    \A l \in Born :
        /\ LevelVal(l) \in DOMAIN Get(levels, l).labels
        /\ Level(l) \in DOMAIN Get(levels, l).values
        /\ Get(levels, l).values[Level(l)] = LevelVal(l)

\* A line written by a method of the logger's own level table opens with what
\* the level formatter made of that very number (tools.js:154 looks up in
\* lsCache a number bound by setLevel, perhaps of another logger).
KnownLevelOpensLine ==
    (obs.kind = "line" /\ obs.label \in MethodLabels(Get(levels, obs.of)))
        => /\ obs.opening # Absent
           /\ obs.opening.num = obs.num
           /\ obs.opening.label = Get(levels, obs.of).labels[obs.num]

\* Bindings are rendered once, with the serializers and the redaction the
\* logger has from its options on, and a bindings formatter given to a logger
\* renders its own bindings only, never those of its children (proto.js:84,
\* 98-104, 157).
RenderedUnderOwnOptions ==
    \A l \in Born : \A i \in 1 .. Len(chindings[l]) :
        LET s == chindings[l][i]
        IN  /\ s.by \in {chain[l][j] : j \in 1 .. Len(chain[l])}
            /\ s.serializers = Get(serializers, s.by)
            /\ s.redact = Get(redact, s.by)
            /\ s.formatter = Get(formatters, s.by).bindings

\* A step changes the level, or what a method writes, only of the logger whose
\* level was assigned and of the loggers below it that have no level of their
\* own in between: never of a parent, a sibling or a child with its own level.
LevelStaysInSubtree ==
    [][\A m \in Born :
          (LevelVal(m)' # LevelVal(m)
             \/ \E k \in MethodLabels(Get(levels, m)) : MethodOf(m, k)' # MethodOf(m, k))
          => /\ obs'.kind = "level-change"
             /\ \E i \in 1 .. Len(chain[m]) :
                   /\ chain[m][i] = obs'.of
                   /\ \A j \in 1 .. (i - 1) : levelVal[chain[m][j]] = Absent]_vars

\* A level-change event tells what happened: the level that logger was under
\* before (its parent's, for a logger just created) and the one it is under now.
EventTellsTransition ==
    [][\A l \in Logger : obs'.kind = "level-change" /\ obs'.of = l =>
          /\ obs'.val = LevelVal(l)'
          /\ IF l \in Born THEN obs'.prevVal = LevelVal(l)
             ELSE \E p \in Born : p = chain'[l][2] /\ obs'.prevVal = LevelVal(p)]_vars

\* setBindings and child() change the bindings of the logger they are about and
\* of no other, so a line never shows bindings given elsewhere after the spawn.
BindingsAreIsolated ==
    [][\A m \in Born : Get(chindings, m)' # Get(chindings, m)
          => obs' = Quiet("bindings", m)]_vars

-----------------------------------------------------------------------------
(* The inductive invariants: LevelInv behind the properties of levels, LineInv
   behind those of lines and bindings *)

\* c ends in the root, and the chain of each logger on it is the rest of it.
IsChain(c, chains) ==
    /\ c[Len(c)] = Root
    /\ \A i \in 1 .. Len(c) :
          LET rest == chains[c[i]]
          IN  /\ Len(rest) = Len(c) - i + 1
              /\ \A j \in 1 .. Len(rest) : rest[j] = c[i + j - 1]

ChainsOK ==
    /\ chain \in [Logger -> Seq(Logger)]
    /\ Root \in Born
    /\ \A l \in Born : chain[l][1] = l /\ IsChain(chain[l], chain)

\* A logger with a level of its own has it from the table it reads, and the
\* methods of that table for that level.
Bound(l) ==
    LET table == Get(levels, l)
    IN  /\ levelVal[l] \in ValuesOf(table.values)
        /\ \A k \in MethodLabels(table) :
              /\ k \in DOMAIN methods[l]
              /\ methods[l][k] = MethodsAt(table, config.useOnly, config.comparison, levelVal[l])[k]

\* A table of its own comes with a level of its own, and without one a logger
\* has no methods of its own: table, level and methods never come from three
\* places.
OwnLevelsOK ==
    /\ config.useOnly \in BOOLEAN
    /\ levels \in [Logger -> Table \cup {Absent}]
    /\ levelVal \in [Logger -> Nat \cup {Absent}]
    /\ methods = [l \in Logger |-> methods[l]]
    /\ levels[Root] # Absent
    /\ \A l \in Logger :
          /\ levelVal[l] = Absent => levels[l] = Absent /\ methods[l] = << >>
          /\ levelVal[l] # Absent => l \in Born /\ Bound(l)

LevelInv == ChainsOK /\ OwnLevelsOK

\* The tables of a tree are all made with one useOnlyCustomLevels, and a table
\* comes with the cache of its own openings: the two are read from one place.
CachesOK ==
    /\ config \in [comparison : Comparison, useOnly : BOOLEAN]
    /\ lsCache = [l \in Logger |-> lsCache[l]]
    /\ \A l \in Logger :
          IF levels[l] = Absent THEN lsCache[l] = Absent
          ELSE \E c \in CustomLevels, f \in Formatter :
                  /\ levels[l] = Mappings(c, config.useOnly)
                  /\ lsCache[l] = LsCache(levels[l], f)

\* The root owns all that renders a line, and every logger its own bindings:
\* they are never read from an ancestor, which may be given more of them later.
RenderingOK ==
    /\ formatters \in [Logger -> FormatterPair \cup {Absent}]
    /\ serializers \in [Logger -> SerializerMap \cup {Absent}]
    /\ redact \in [Logger -> Redact \cup {Absent}]
    /\ Absent \notin {formatters[Root], serializers[Root], redact[Root]}
    /\ chindings \in [Logger -> Seq(Segments) \cup {Absent}]
    /\ \A l \in Logger : IF l \in Born THEN chindings[l] # Absent
                       ELSE {formatters[l], serializers[l], redact[l]} = {Absent}

MethodsAreFunctions ==
    \A l \in Logger : methods[l] \in [DOMAIN methods[l] -> Method]

LineInv ==
    /\ CachesOK
    /\ RenderingOK
    /\ MethodsAreFunctions
    /\ RenderedUnderOwnOptions
    /\ KnownLevelOpensLine

-----------------------------------------------------------------------------
(* What the documentation says and the code does not do *)

\* tools.js:133: every line is a JSON object, so it has an opening.
EveryLineOpens == obs.kind = "line" => obs.opening # Absent
=============================================================================
