---------------------------- MODULE MCLoggerTree ----------------------------
(* Instances of LoggerTree: a root and two more loggers, which become two   *)
(* children or a child and a grandchild.  Trees whose root has no base are  *)
(* about levels, those whose root has one about bindings and what renders   *)
(* them: each takes its own options and steps, as nothing in one depends on *)
(* the other.                                                               *)
EXTENDS LoggerTree, TLC

CONSTANTS root, c1, c2

Children == Permutations({c1, c2})
MCLogger == {root, c1, c2}
MCInfinity == 1000
MCUserEnabled == {<<30, 30>>, <<50, 50>>, <<35, 50>>, <<30, 1000>>}

\* A level between two standard ones, one that redefines a standard label, one
\* that takes the value of a standard label, and one with the value 0.
MCCustomLevels ==
    {<< >>, [foo |-> 35], [info |-> 45], [bar |-> 30], [zero |-> 0, far |-> 70]}

RootOption ==
    [level |-> Label("info"), customLevels |-> Absent, useOnly |-> FALSE,
     comparison |-> "ASC", enabled |-> TRUE, formatLevel |-> "number",
     formatBindings |-> "asIs", serializers |-> [err |-> "std"], redact |-> "none",
     base |-> "own", msgPrefix |-> << >>]

ChildOption ==
    [level |-> Absent, customLevels |-> Absent, formatLevel |-> Absent,
     formatBindings |-> Absent, serializers |-> << >>, redact |-> Absent,
     msgPrefix |-> Absent]

\* Levels.
LevelRootOptions ==
    LET NoBase == [RootOption EXCEPT !.base = Absent]
    IN  {NoBase,
         [NoBase EXCEPT !.customLevels = [info |-> 45]],
         [NoBase EXCEPT !.customLevels = [bar |-> 30], !.comparison = "DESC", !.level = Number(30)],
         [NoBase EXCEPT !.customLevels = [foo |-> 35], !.comparison = "function"],
         [NoBase EXCEPT !.customLevels = [foo |-> 35], !.useOnly = TRUE, !.level = Label("foo")],
         [NoBase EXCEPT !.customLevels = [foo |-> 35], !.enabled = FALSE],
         [NoBase EXCEPT !.useOnly = TRUE],
         [NoBase EXCEPT !.level = Number(99)]}

LevelChildOptions ==
    {ChildOption,
     [ChildOption EXCEPT !.formatLevel = "label", !.level = Label("info")],
     [ChildOption EXCEPT !.level = Label("foo")],
     [ChildOption EXCEPT !.level = Number(50)],
     [ChildOption EXCEPT !.customLevels = [foo |-> 35], !.formatLevel = "label"],
     [ChildOption EXCEPT !.customLevels = [zero |-> 0, far |-> 70], !.level = Number(0)]}

LevelArgsOfLevels ==
    {Label("info"), Label("silent"), Label("foo"), Number(35), Number(99)}

\* Bindings.
BindingsRootOptions ==
    {RootOption, [RootOption EXCEPT !.formatBindings = "root", !.redact = "secret"]}

BindingsChildOptions ==
    {ChildOption,
     [ChildOption EXCEPT !.formatBindings = "own"],
     [ChildOption EXCEPT !.serializers = [err |-> "own"], !.msgPrefix = <<"child">>],
     [ChildOption EXCEPT !.redact = "secret"]}

MCRootOptions == LevelRootOptions \cup BindingsRootOptions
MCChildOptions == LevelChildOptions \cup BindingsChildOptions

\* Steps of a tree about levels, and of one about bindings.
LevelStep ==
    \E l \in Born :
      \/ \E arg \in LevelArgs : SetLevel(l, arg)
      \/ \E c \in Logger, b \in Bindings : ChildFast(l, c, b)
      \/ \E c \in Logger, b \in Bindings, opt \in LevelChildOptions : ChildWithOptions(l, c, b, opt)
      \/ \E k \in LogLabels : Log(l, k)

BindingsStep ==
    \E l \in Born :
      \/ \E b \in NewBindings : SetBindings(l, b)
      \/ \E c \in Logger, b \in Bindings : ChildFast(l, c, b)
      \/ \E c \in Logger, b \in Bindings, opt \in BindingsChildOptions : ChildWithOptions(l, c, b, opt)
      \/ Log(l, "fatal")

MCSpec ==
    Init /\ [][IF chindings[Root] = << >> THEN LevelStep ELSE BindingsStep]_vars

MCFormatter == {"number", "label", "asIs", "root", "own", "reset"}
MCSerializerMap == [{"err"} -> {"std", "own"}]
MCRedact == {"none", "secret"}
=============================================================================
