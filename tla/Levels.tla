------------------------------- MODULE Levels -------------------------------
(***************************************************************************)
(* The pure part of lib/levels.js: what a table of levels holds, how a     *)
(* level given by an application is resolved in it, and when one level is  *)
(* enabled by another.  Labels are strings and level values are naturals.  *)
(* The order in which JavaScript enumerates the keys of an object is       *)
(* abstracted: where two custom levels share a value the code keeps the    *)
(* label enumerated last, the module keeps one of them.                    *)
(***************************************************************************)
EXTENDS Integers

CONSTANTS
    Infinity,       \* the value of `silent`, above every other level value
    CustomLevels,   \* the `customLevels` objects applications pass
    UserEnabled,    \* pairs <<current, expected>> for which an application's
                    \* `levelComparison` function returns true
    Absent          \* an option or an own property that is not there

\* lib/constants.js, DEFAULT_LEVELS and SORTING_ORDER.
DEFAULT_LEVELS == [trace |-> 10, debug |-> 20, info |-> 30,
                   warn |-> 40, error |-> 50, fatal |-> 60]

SORTING_ORDER == {"ASC", "DESC"}

\* What `levelComparison` may be once assertLevelComparison let it pass.
Comparison == SORTING_ORDER \cup {"function"}

Silent == "silent"

ValuesOf(f) == {f[k] : k \in DOMAIN f}

\* Object.assign({}, f, g): the keys of both, g winning.
Assign(f, g) ==
    [k \in DOMAIN f \cup DOMAIN g |-> IF k \in DOMAIN g THEN g[k] ELSE f[k]]

\* A custom level may not be called `silent` nor have the value Infinity: both
\* are read-only properties of the objects mappings() assigns to.
ASSUME LevelsAssumption ==
    /\ Infinity \in Nat
    /\ \A k \in DOMAIN DEFAULT_LEVELS : DEFAULT_LEVELS[k] < Infinity
    /\ \A c \in CustomLevels :
          /\ c \in [DOMAIN c -> Nat]
          /\ DOMAIN c \subseteq STRING \ {Silent}
          /\ \A k \in DOMAIN c : c[k] < Infinity
    /\ Absent \notin Nat
    /\ Absent \notin CustomLevels

-----------------------------------------------------------------------------
\* The standard levels of a table, none with useOnlyCustomLevels.
StandardLabels(useOnly) == IF useOnly THEN {} ELSE DOMAIN DEFAULT_LEVELS

\* isStandardLevel
IsStandardLevel(label, useOnly) == label \in StandardLabels(useOnly)

\* The `values` of mappings(): label -> number.
ValuesMap(custom, useOnly) ==
    [k \in DOMAIN custom \cup StandardLabels(useOnly) \cup {Silent} |->
        IF k \in DOMAIN custom THEN custom[k]
        ELSE IF k = Silent THEN Infinity
        ELSE DEFAULT_LEVELS[k]]

\* The `labels` of mappings(): number -> label, the custom ones winning.
LabelsMap(custom, useOnly) ==
    [v \in ValuesOf(custom) \cup {Infinity}
             \cup {DEFAULT_LEVELS[k] : k \in StandardLabels(useOnly)} |->
        IF v \in ValuesOf(custom) THEN CHOOSE k \in DOMAIN custom : custom[k] = v
        ELSE IF v = Infinity THEN Silent
        ELSE CHOOSE k \in DOMAIN DEFAULT_LEVELS : DEFAULT_LEVELS[k] = v]

Mappings(custom, useOnly) ==
    [labels |-> LabelsMap(custom, useOnly), values |-> ValuesMap(custom, useOnly)]

\* Every table a logger can have.
Table == {Mappings(c, u) : c \in CustomLevels, u \in BOOLEAN}

\* What `for (const key in values)` enumerates: `silent` is not enumerable.
MethodLabels(table) == DOMAIN table.values \ {Silent}

\* assertNoLevelCollisions: neither a label nor a value of `table` is reused.
NoLevelCollisions(table, custom) ==
    \A k \in DOMAIN custom :
        k \notin DOMAIN table.values /\ custom[k] \notin DOMAIN table.labels

\* compareLevel, or the application's own function (genLevelComparison).
LevelEnabled(comparison, current, expected) ==
    CASE comparison = "DESC" -> current =< expected
      [] comparison = "ASC"  -> current >= expected
      [] OTHER               -> <<current, expected>> \in UserEnabled

-----------------------------------------------------------------------------
\* A level as an application writes it: a label or a number.
Label(k)  == [tag |-> "label",  is |-> k]
Number(v) == [tag |-> "number", is |-> v]

\* setLevel throws when the number has no label or the label has no value.
LabelOf(table, arg) ==
    IF arg.tag = "number" THEN table.labels[arg.is] ELSE arg.is

LevelKnown(table, arg) ==
    /\ arg.tag = "number" => arg.is \in DOMAIN table.labels
    /\ LabelOf(table, arg) \in DOMAIN table.values

\* assertDefaultLevelFound: the check pino() makes of its `level` option.
DefaultLevelFound(custom, useOnly, arg) ==
    IF arg.tag = "number"
    THEN \/ arg.is \in ValuesOf(custom)
         \/ ~useOnly /\ arg.is \in ValuesOf(DEFAULT_LEVELS)
         \/ arg.is = Infinity
    ELSE arg.is \in DOMAIN ValuesMap(custom, useOnly)

\* A log method that writes nothing (tools.js noop), or what it writes: the
\* number bound by genLog and, for the standard `fatal`, the flush after it.
Noop == [writes |-> FALSE]

Method == {Noop} \cup [writes : {TRUE}, num : Nat, flush : BOOLEAN]

LogMethod(label, useOnly, value) ==
    IF IsStandardLevel(label, useOnly)
    THEN [writes |-> TRUE, num |-> DEFAULT_LEVELS[label], flush |-> label = "fatal"]
    ELSE [writes |-> TRUE, num |-> value, flush |-> FALSE]

\* The methods the loop of setLevel puts on the logger.
MethodsAt(table, useOnly, comparison, levelVal) ==
    [k \in MethodLabels(table) |->
        IF LevelEnabled(comparison, table.values[k], levelVal)
        THEN LogMethod(k, useOnly, table.values[k])
        ELSE Noop]

\* Mutant for KnownLevelOpensLine: the cache is made for the standard levels only.
LsCacheOfStandardLevels(table, formatter) ==
    [v \in DOMAIN table.labels \cap ValuesOf(DEFAULT_LEVELS) |->
        [formatter |-> formatter, label |-> table.labels[v], num |-> v]]

\* genLsCache: the opening of a line for each value that has an enumerable
\* label, rendered by a formatter (Infinity's is not enumerable).
LsCache(table, formatter) ==
    [v \in DOMAIN table.labels \ {Infinity} |->
        [formatter |-> formatter, label |-> table.labels[v], num |-> v]]
=============================================================================
