------------------------------- MODULE Browser -------------------------------
(***************************************************************************)
(* The browser build: browser.js.                                          *)
(*                                                                         *)
(* A logger's log functions are made when its level is assigned (set), and *)
(* keep the chain of bindings objects of that moment; with `transmit` a    *)
(* logger also keeps a log event with an array of bindings of its own. The *)
(* two are built at different times from the same calls of child() and     *)
(* setBindings(), and transmit() tells them apart by identity of objects.  *)
(* The event handed to send() is the logger's own object, filled in by each*)
(* call and replaced when send() returns, but the event that replaces it   *)
(* refers to the same array of bindings; send() may log, change levels and *)
(* bindings, or throw.                                                     *)
(*                                                                         *)
(* The n-th bindings object an application gives is n; the object that     *)
(* setBindings() makes by merging is one that holds several.  Left out:    *)
(* serializers (applied to the objects in place), redaction, formatters,   *)
(* time, the reported caller, and which console method a level falls back  *)
(* to.  The console is taken not to call back into the logger.             *)
(***************************************************************************)
EXTENDS Integers, Sequences, SequencesExt

CONSTANTS
    Logger,         \* the loggers there may be
    Root,           \* the one pino() returns
    Options,        \* options pino() is called with
    LevelArgs,      \* levels assigned to `level` or given to child()
    LogLabels,      \* labels of the log functions that are called
    MaxGiven,       \* bound: bindings objects given
    MaxCalls,       \* bound: log calls that reach send()
    Absent,         \* a property that is not there
    Infinity        \* the value of silent

VARIABLES
    config,         \* customLevels, transmit, asObject: the same for all loggers
    path,           \* logger -> the root, ..., its parent, itself: hierarchySymbol
    level,          \* own _level
    bindings,       \* own bindings: an object or Absent
    open,           \* labels whose own log function is not noop
    chain,          \* the bindings objects the log functions prepend
    eventBindings,  \* the arrays that log events have as `bindings`, each named
                    \* by the logger it was made for
    current,        \* own _logEvent, as an index into events
    events,         \* every log event object made
    sending,        \* calls of send() under way: logger and event
    failed,         \* events whose send() threw
    calls,          \* history: log calls that reached send()
    givenTo,        \* history: n -> the logger it was given to
    obs             \* what the last operation showed

tree == <<config, path>>
eventState == <<current, events, sending, failed, calls>>
vars == <<tree, level, bindings, open, chain, eventBindings, eventState, givenTo, obs>>

Silent == "silent"

\* pino.levels.values
StandardValues ==
    [fatal |-> 60, error |-> 50, warn |-> 40, info |-> 30, debug |-> 20, trace |-> 10]

\* getLevels: custom levels are assigned over the standard ones.
ValuesOf(custom) ==
    [k \in DOMAIN StandardValues \cup DOMAIN custom |->
        IF k \in DOMAIN custom THEN custom[k] ELSE StandardValues[k]]

Values == ValuesOf(config.customLevels)

\* Bindings objects, by what they hold.
Object == [holds : SUBSET (1 .. MaxGiven), merged : BOOLEAN]

ASSUME BrowserAssumption ==
    /\ Root \in Logger
    /\ Infinity \in Nat /\ MaxGiven \in Nat /\ MaxCalls \in Nat
    /\ Absent \notin Object \cup {Silent}
    /\ \A opt \in Options :
          /\ Silent \notin DOMAIN opt.customLevels
          /\ Absent \notin DOMAIN ValuesOf(opt.customLevels)
          /\ \A k \in DOMAIN ValuesOf(opt.customLevels) :
                ValuesOf(opt.customLevels)[k] \in 0 .. Infinity - 1
          /\ opt.transmit # Absent =>
                opt.transmit.level \in DOMAIN ValuesOf(opt.customLevels) \cup {Absent}

Born == {l \in Logger : path[l] # << >>}

\* levelToValue
LevelToValue(values, k) == IF k = Silent THEN Infinity ELSE values[k]

\* setLevel refuses what has no value, or the value 0.
LevelKnown(k) == k = Silent \/ (k \in DOMAIN Values /\ Values[k] # 0)

IsLevelEnabled(l, k) ==
    /\ k \in DOMAIN Values /\ Values[k] # 0
    /\ level[l] # Silent
    /\ Values[k] >= Values[level[l]]

Transmits == config.transmit # Absent

\* opts.transmit.level || the logger's own
TransmitLevel(transmit, own) == IF transmit.level # Absent THEN transmit.level ELSE own

-----------------------------------------------------------------------------
\* The n-th object an application gives.
Given(n) == [holds |-> {n}, merged |-> FALSE]

\* Mutant for BindingsOfHierarchy: setBindings replaces the bindings.
ReplacedBy(object, n) == [holds |-> {n}, merged |-> TRUE]

\* Object.assign({}, this.bindings, newBindings)
MergedWith(object, n) ==
    [holds |-> {n} \cup (IF object = Absent THEN {} ELSE object.holds), merged |-> TRUE]

HeldIn(objects) == UNION {objects[i].holds : i \in DOMAIN objects}

\* getBindingChain: the objects of the loggers from the root down, as they are.
\* The root alone may have none: child() throws without (browser.js:207).
BindingChain(line, objects) ==
    LET owners == IF objects[Head(line)] = Absent THEN Tail(line) ELSE line
    IN  [i \in DOMAIN owners |-> objects[owners[i]]]

-----------------------------------------------------------------------------
\* Mutants of OpenAt: a logger is not open at its own level (for
\* ConsoleFollowsLevel), a function below the level is not made for transmit (for
\* SendFollowsLevel).
OpenAbove(values, transmit, own) ==
    {k \in DOMAIN values :
        \/ LevelToValue(values, own) < LevelToValue(values, k)
        \/ /\ transmit # Absent
           /\ LevelToValue(values, TransmitLevel(transmit, own)) <= LevelToValue(values, k)}

OpenWithoutTransmit(values, transmit, own) ==
    {k \in DOMAIN values : LevelToValue(values, own) <= LevelToValue(values, k)}

\* set(), for each label: the log function is noop below the level, but made
\* around the base function all the same if transmit wants the label.
OpenAt(values, transmit, own) ==
    {k \in DOMAIN values :
        \/ LevelToValue(values, own) <= LevelToValue(values, k)
        \/ /\ transmit # Absent
           /\ LevelToValue(values, TransmitLevel(transmit, own)) <= LevelToValue(values, k)}

\* The level setter on logger l: every log function is made anew, with the chain
\* of bindings of now.
AssignLevel(l, own, line, objects) ==
    /\ level' = [level EXCEPT ![l] = own]
    /\ open' = [open EXCEPT ![l] = OpenAt(Values, config.transmit, own)]
    /\ chain' = [chain EXCEPT ![l] = BindingChain(line, objects)]

Quiet == [kind |-> "quiet"]

\* createLogEventShape: a log event object of logger l that tells nothing yet and
\* refers to the given array.
NewEvent(l, array) ==
    [of |-> l, call |-> 0, label |-> Absent, slipped |-> {}, array |-> array]

\* logger._logEvent.bindings
ArrayOf(l) == events[current[l]].array

-----------------------------------------------------------------------------
\* pino(opts)
Init ==
    \E opt \in Options :
      LET values == ValuesOf(opt.customLevels)
          own == IF opt.enabled THEN opt.level ELSE Silent
      IN  /\ own = Silent \/ (own \in DOMAIN values /\ values[own] # 0)
          /\ config = [customLevels |-> opt.customLevels, transmit |-> opt.transmit,
                       asObject |-> opt.asObject]
          /\ path = [l \in Logger |-> IF l = Root THEN <<Root>> ELSE << >>]
          /\ level = [l \in Logger |-> IF l = Root THEN own ELSE Absent]
          /\ bindings = [l \in Logger |-> Absent]
          /\ open = [l \in Logger |->
                IF l = Root THEN OpenAt(values, opt.transmit, own) ELSE {}]
          /\ chain = [l \in Logger |-> << >>]
          /\ eventBindings = [l \in Logger |-> << >>]
          /\ events = IF opt.transmit # Absent THEN <<NewEvent(Root, Root)>> ELSE << >>
          /\ current = [l \in Logger |-> IF l = Root THEN Len(events) ELSE 0]
          /\ sending = << >>
          /\ failed = {}
          /\ calls = 0
          /\ givenTo = << >>
          /\ obs = Quiet

\* logger.level = k
SetLevel(l, k) ==
    /\ LevelKnown(k)
    /\ AssignLevel(l, k, path[l], bindings)
    /\ obs' = Quiet
    /\ UNCHANGED <<tree, bindings, eventBindings, eventState, givenTo>>

\* Mutant for MessagesAreArguments: the array of a child's event gets a copy of
\* its bindings.
ChildEventBindingsCopied(p, object) ==
    Append(eventBindings[ArrayOf(p)], [object EXCEPT !.merged = TRUE])

\* What concat puts together: parent._logEvent.bindings and the child's bindings.
ChildEventBindings(p, object) == Append(eventBindings[ArrayOf(p)], object)

\* Mutant for SentStays: the child's bindings are pushed to its parent's array.
ArrayShared(p, c) == ArrayOf(p)

\* [].concat makes an array of its own for the event of child c.
ArrayFor(p, c) == c

\* parent.child(bindings, {level}): Child is made with its bindings and event,
\* then its level is assigned, its parent's if it was given none.
Child(p, c, k) ==
    LET n == Len(givenTo) + 1
        object == Given(n)
        own == IF k = Absent THEN level[p] ELSE k
    IN  /\ c \notin Born
        /\ n <= MaxGiven
        /\ LevelKnown(own)
        /\ path' = [path EXCEPT ![c] = Append(path[p], c)]
        /\ bindings' = [bindings EXCEPT ![c] = object]
        /\ givenTo' = Append(givenTo, c)
        /\ IF Transmits
           THEN /\ eventBindings' = [eventBindings EXCEPT
                                         ![ArrayFor(p, c)] = ChildEventBindings(p, object)]
                /\ events' = Append(events, NewEvent(c, ArrayFor(p, c)))
                /\ current' = [current EXCEPT ![c] = Len(events) + 1]
           ELSE UNCHANGED <<eventBindings, events, current>>
        /\ AssignLevel(c, own, path'[c], bindings')
        /\ obs' = Quiet
        /\ UNCHANGED <<config, sending, failed, calls>>

\* Mutant for ConsoleAndEventAgree: the log functions are not made anew.
SetBindingsOnly(l) ==
    LET n == Len(givenTo) + 1
    IN  /\ n <= MaxGiven
        /\ bindings' = [bindings EXCEPT ![l] = MergedWith(bindings[l], n)]
        /\ eventBindings' = IF Transmits
                            THEN [eventBindings EXCEPT ![ArrayOf(l)] = Append(@, Given(n))]
                            ELSE eventBindings
        /\ givenTo' = Append(givenTo, l)
        /\ obs' = Quiet
        /\ UNCHANGED <<tree, level, open, chain, eventState>>

\* logger.setBindings(newBindings): merged into a new object for the console,
\* pushed as it is to the array of the event, which the events sent before refer
\* to as well, then the level is assigned again.
SetBindings(l) ==
    LET n == Len(givenTo) + 1
    IN  /\ n <= MaxGiven
        /\ bindings' = [bindings EXCEPT ![l] = MergedWith(bindings[l], n)]
        /\ eventBindings' = IF Transmits
                            THEN [eventBindings EXCEPT ![ArrayOf(l)] = Append(@, Given(n))]
                            ELSE eventBindings
        /\ givenTo' = Append(givenTo, l)
        /\ AssignLevel(l, level[l], path[l], bindings')
        /\ obs' = Quiet
        /\ UNCHANGED <<tree, eventState>>

-----------------------------------------------------------------------------
\* Mutant for ObjectIsMerged: the depth of the logger alone.
LeadingObjectsOfDepth(l) == Len(path[l]) - 1

\* asObject: as many leading objects are merged as the logger has ancestors, and
\* one more (_childLevel + 1).
LeadingObjects(l) == Len(path[l])

\* What becomes of an object the caller passes first.
ObjectFate(l) ==
    IF ~config.asObject THEN "passed"
    ELSE IF Len(chain[l]) < LeadingObjects(l) THEN "merged"
    ELSE "formatted"

\* transmit() keeps as messages the arguments that are not in the event's array
\* of bindings; the caller's own never are.
Slipped(l) == ToSet(chain[l]) \ ToSet(eventBindings[ArrayOf(l)])

\* The second look at the levels, when the call is made.
Sends(l, k) ==
    /\ Transmits
    /\ LevelToValue(Values, k) >=
          LevelToValue(Values, TransmitLevel(config.transmit, level[l]))

\* What transmit() tells the logger's event of the call.
Told(l, k) ==
    [of |-> l, call |-> calls + 1, label |-> k, slipped |-> Slipped(l), array |-> ArrayOf(l)]

\* logger[k]({...}): noop, or written to the console and then, if transmit wants
\* it, told to the logger's event, which is handed to send().
Log(l, k) ==
    LET writes == k \in open[l]
        sends == writes /\ Sends(l, k)
        call == [kind |-> "call", of |-> l, label |-> k, console |-> writes, sent |-> sends,
                 prepended |-> IF writes THEN chain[l] ELSE << >>,
                 object |-> IF writes THEN ObjectFate(l) ELSE "none"]
    IN  /\ k \in DOMAIN Values
        /\ sends => calls < MaxCalls
        /\ obs' = call
        /\ IF sends
           THEN /\ events' = [events EXCEPT ![current[l]] = Told(l, k)]
                /\ sending' = Append(sending, [of |-> l, event |-> current[l]])
                /\ calls' = calls + 1
           ELSE UNCHANGED <<events, sending, calls>>
        /\ UNCHANGED <<tree, level, bindings, open, chain, eventBindings, current, failed, givenTo>>

\* Mutant for TypeOK: the new event is the root's.
SendReturnsToRoot ==
    LET l == Last(sending).of
    IN  /\ sending # << >>
        /\ sending' = Front(sending)
        /\ events' = Append(events, NewEvent(l, events[Last(sending).event].array))
        /\ current' = [current EXCEPT ![Root] = Len(events) + 1]
        /\ obs' = Quiet
        /\ UNCHANGED <<tree, level, bindings, open, chain, eventBindings, failed, calls, givenTo>>

\* send() returns, and the logger gets a new event, with the array it had.
SendReturns ==
    LET l == Last(sending).of
    IN  /\ sending # << >>
        /\ sending' = Front(sending)
        /\ events' = Append(events, NewEvent(l, events[Last(sending).event].array))
        /\ current' = [current EXCEPT ![l] = Len(events) + 1]
        /\ obs' = Quiet
        /\ UNCHANGED <<tree, level, bindings, open, chain, eventBindings, failed, calls, givenTo>>

\* send() throws, out of the log call: the logger keeps its event.
SendThrows ==
    /\ sending # << >>
    /\ sending' = Front(sending)
    /\ failed' = failed \cup {Last(sending).event}
    /\ obs' = Quiet
    /\ UNCHANGED <<tree, level, bindings, open, chain, eventBindings, events, current,
                   calls, givenTo>>

Next ==
    \/ \E l \in Born :
          \/ \E k \in LevelArgs : SetLevel(l, k)
          \/ \E c \in Logger, k \in LevelArgs \cup {Absent} : Child(l, c, k)
          \/ SetBindings(l)
          \/ \E k \in LogLabels : Log(l, k)
    \/ SendReturns
    \/ SendThrows

Spec == Init /\ [][Next]_vars

-----------------------------------------------------------------------------
(* Properties *)

\* Every variable has its type, an unborn logger owns nothing, and with transmit
\* every logger has a log event that is its own.
TypeOK ==
    /\ path \in [Logger -> Seq(Logger)]
    /\ level \in [Logger -> DOMAIN Values \cup {Silent, Absent}]
    /\ bindings \in [Logger -> Object \cup {Absent}]
    /\ open \in [Logger -> SUBSET DOMAIN Values]
    /\ chain \in [Logger -> Seq(Object)]
    /\ eventBindings \in [Logger -> Seq(Object)]
    /\ \A e \in DOMAIN events :
          /\ events[e].of \in Born /\ events[e].call \in 0 .. calls
          /\ events[e].slipped \subseteq Object /\ events[e].array \in Born
    /\ \A l \in Logger :
          /\ path[l] = << >> <=> level[l] = Absent
          /\ current[l] # 0 <=> Transmits /\ l \in Born
          /\ current[l] # 0 => events[current[l]].of = l
    /\ \A i \in DOMAIN sending : events[sending[i].event].of = sending[i].of
    /\ givenTo \in Seq(Born)

\* A log call writes to the console exactly if isLevelEnabled says so, whatever
\* levels were assigned since the function was made, unless transmit has a level
\* that lets it through (browser.js:314-343).
ConsoleFollowsLevel ==
    (obs.kind = "call"
       /\ (Transmits /\ config.transmit.level # Absent
             => Values[obs.label] < LevelToValue(Values, config.transmit.level)))
    => (obs.console <=> IsLevelEnabled(obs.of, obs.label))

\* "Pino will not log messages with a lower level." (docs/api.md, option `level`)
\* Nothing below its level is written to the console.
NoConsoleBelowLevel ==
    obs.kind = "call" /\ obs.console => IsLevelEnabled(obs.of, obs.label)

\* send() is called exactly for the calls at or above transmit.level, or the
\* logger's level if transmit has none: the look at the levels when functions are
\* made (browser.js:325-332) and the one when they are called (384-388) agree.
SendFollowsLevel ==
    obs.kind = "call" =>
        (obs.sent <=>
            /\ Transmits
            /\ LevelToValue(Values, obs.label) >=
                  LevelToValue(Values, IF config.transmit.level = Absent THEN level[obs.of]
                                       ELSE config.transmit.level))

GivenIn(loggers) == {n \in DOMAIN givenTo : givenTo[n] \in loggers}

\* A console line, and the event of a logger, show all bindings the logger itself
\* was given and otherwise only bindings given to its ancestors: never those of
\* a child, a sibling or a logger made later (browser.js:169-177, 234-236, 296).
BindingsOfHierarchy ==
    /\ obs.kind = "call" /\ obs.console =>
          /\ GivenIn({obs.of}) \subseteq HeldIn(obs.prepended)
          /\ HeldIn(obs.prepended) \subseteq GivenIn(ToSet(path[obs.of]))
    /\ Transmits => \A l \in Born :
          /\ GivenIn({l}) \subseteq HeldIn(eventBindings[ArrayOf(l)])
          /\ HeldIn(eventBindings[ArrayOf(l)]) \subseteq GivenIn(ToSet(path[l]))

\* A logger on the way to l was given bindings after one below it was made.
AncestorChanged(l) ==
    \E n, m \in DOMAIN givenTo :
        /\ n < m /\ givenTo[n] \in ToSet(path[l])
        /\ givenTo[m] \in ToSet(path[givenTo[n]]) \ {givenTo[n]}

\* The console and send() show the same bindings in the same line, although one
\* gets them from the chain captured with the level and the other from the array
\* of the event; only what an ancestor was given after its descendants were made
\* reaches the one and never the other.
ConsoleAndEventAgree ==
    obs.kind = "call" /\ obs.sent /\ ~AncestorChanged(obs.of)
        => HeldIn(obs.prepended) = HeldIn(eventBindings[ArrayOf(obs.of)])

\* The messages of an event are the arguments of the call and no bindings
\* (browser.js:488-491), as long as setBindings has put no merged object in the
\* array's place.
MessagesAreArguments ==
    \A e \in DOMAIN events : \A object \in events[e].slipped : object.merged

\* "The `messages` array is all arguments passed to logger method"
\* (docs/browser.md:230): no bindings are among them, also after setBindings.
MessagesAreOnlyArguments == \A e \in DOMAIN events : events[e].slipped = {}

\* With asObject the object a caller passes is merged into the line, at any
\* depth of children (browser.js:412-443), unless the root has bindings: they
\* are one object more than the logger counts.
ObjectIsMerged ==
    obs.kind = "call" /\ obs.object = "formatted" =>
        \E i \in DOMAIN obs.prepended : obs.prepended[i].holds \cap GivenIn({Root}) # {}

\* What an event shows as bindings.
Shown(e) == eventBindings[events[e].array]

\* What becomes of an event that was handed to send(), and may be queued there or
\* still on its way: its messages and level change only under a call the same
\* logger makes while that send() runs, or if that send() threw (browser.js:
\* 496-498).  Its bindings change, as the array goes on to the logger's next
\* events (498), but only by what setBindings() gives that very logger (172),
\* added to the end: never by what a child, a parent or a sibling is given.
SentStays ==
    [][\A e \in DOMAIN events : events[e].call # 0 =>
          /\ events'[e] # events[e]
                => e \in failed \/ \E i \in DOMAIN sending : sending[i].event = e
          /\ Shown(e)' # Shown(e)
                => /\ givenTo' = Append(givenTo, events[e].of)
                   /\ Shown(e)' = Append(Shown(e), Given(Len(givenTo) + 1))]_vars
=============================================================================
