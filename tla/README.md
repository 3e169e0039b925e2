# A TLA+ verification of pino

pino is a JSON logger for Node.js (and, as `browser.js`, for browsers). These
modules model the parts of it where the order of operations matters, TLC checks
them on small instances, and TLAPS proves what matters most for every value of
the constants. Paths below are relative to the repository.

## 1. Inventory

| Part | State | Operations | Talks to |
|---|---|---|---|
| **Levels** `lib/levels.js`, `lib/constants.js` | a table per logger: label -> number, number -> label; the cache of line openings `lsCache` | `mappings`, `genLsCache`, `setLevel`, `getLevel`, `isLevelEnabled`, assertions | Logger tree |
| **Logger tree** `pino.js`, `lib/proto.js` | own properties of each logger: levels, levelVal, log methods, lsCache, formatters, serializers, redaction, chindings, msgPrefix; the prototype chain | `pino()`, `child()`, `setBindings()`, `level =`, log methods, `flush()`, `bindings()` | Levels, Line serialization, its destination |
| **Line serialization** `lib/tools.js`, `write` of `lib/proto.js` | none of its own | `write`, `asChindings`, `asJson`, `genLog`, `stringify` | reads the logger through its prototype chain; the redactors |
| **Multistream** `lib/multistream.js` | `streams` sorted by level, `minLevel`, `lastId`, `lastLevel`, `lastObj`, ...; the loops of running writes | `write`, `add`, `remove`, `clone`, `flushSync`, `end`, `emit` | written to by a logger or by the worker; calls streams, which may call back |
| **Destination** `lib/tools.js` (`buildSafeSonicBoom`, `autoEnd`), `file.js` | sonic-boom's buffer, its overwritten methods after EPIPE, exit registration | open, write, flush, error, end, process exit | the process' exit events |
| **Transport** `lib/transport.js`, `lib/worker.js` | thread-stream, exit listeners, targets in the worker, count of targets not closed | start, ready, write, exit, close | worker thread, Multistream inside it |
| **Redaction** `lib/redaction.js` | the shape: top-level key -> paths below it | `redaction(opts)` | Line serialization |
| **Browser logger** `browser.js` | per logger: `_level`, bindings, `_logEvent`, hierarchy, log functions closed over bindings | `child`, `level =`, `setBindings`, log functions, transmit | console, `transmit.send`, which may call back |
| Loading, callers, time, symbols, `bin.js`, types | none | | |

Everything but the transport runs in one thread. What makes it hard is not
preemption but caching, sharing and calling out:

- **Prototype chains and caches.** A child is `Object.create(parent)`. Its level,
  level table, log methods and line openings may each come from another
  ancestor, and each was computed at another time. *Correct* means: the four
  always agree, a level assignment is seen in its own subtree only, the level
  reads back as assigned.
- **Text rendered once.** Bindings are rendered when given and shown forever.
  *Correct* means: with the options of the logger they were given to, and only
  there and below.
- **Re-entrance.** A multistream calls streams in the middle of its loop, and
  they may log to it, change it, or throw. *Correct* means: every line reaches
  exactly the streams it is for; arrays stay sorted; ids stay unique.
- **Flushing.** A destination buffers and cannot be flushed before it is open.
  *Correct* means: `fatal` and `end` leave nothing behind that could be flushed.
- **Ending** (transport, destination). Exit may come before the worker is ready,
  a target may close before it is asked to, EPIPE may come at any time.
  *Correct* means: whatever was accepted is flushed, and the end is reached.
- **Order of options** (redaction). *Correct* means: the order of paths does not
  matter.
- **One text from many hands** (line). Level, bindings, mixin, object and message
  may all have the same key. *Correct* means: a reader gets the newest value, the
  level a worker routes by is the line's own, and the text is JSON.
- **Two books of the same thing** (browser). The console line and the event for
  `send` are built from two records of the bindings, at different times.
  *Correct* means: they show the same, and follow the same levels.

`PROJECT.json` lists each hazard at its line, with the properties that are about
it, or the reason why there is none.

## 2. Modules

| Module | What it is |
|---|---|
| `Levels` | the pure part of `lib/levels.js`: tables, comparison, resolution, checks, what a method writes, the cache of openings |
| `LoggerTree` | the logger tree, one action per operation; its properties and its inductive invariant |
| `LoggerTreeProofs` | theorems about `LoggerTree` |
| `MCLoggerTree` | its instance: trees about levels and trees about bindings |
| `MultiStream` | multistream and its clones, write as a loop with a call stack; properties and inductive invariant |
| `MultiStreamProofs` | theorems about `MultiStream` |
| `MCMultiStream` | its instance |
| `Delivery` | what a transport promises, for any number of destinations |
| `Transport` | transport.js and worker.js: main thread, exit listeners, worker, targets; shown to implement `Delivery` |
| `TransportProofs` | theorems about `Transport`, and that it implements `Delivery` |
| `MCTransport` | its instance |
| `Redaction` | the reduction of the listed paths to a shape, one path at a time, and what the shape hides in a line |
| `RedactionProofs` | theorems about `Redaction` |
| `MCRedaction` | its instance |
| `Line` | extends `Redaction`: the text of a line, from the arguments of a log call to what a reader of the JSON gets |
| `LineProofs` | theorems about `Line`, and that it implements `Redaction` |
| `MCLine` | its instance |
| `Destination` | `buildSafeSonicBoom`, the broken-pipe filter, `autoEnd` and the exit registry, `flush` and `fatal` |
| `DestinationProofs` | theorems about `Destination` |
| `MCDestination` | its instance |
| `SequenceLemmas` | lemmas on inserting, removing and taking out, for the modules with arrays |
| `Browser` | `browser.js`: levels, children, bindings, transmit, with `send` calling back |
| `BrowserProofs` | theorems about `Browser` |
| `MCBrowser` | its instance |

`Line` composes with `Redaction` by extending it; `LoggerTree` and `Line` share the
interface `asChindings` (the one says which bindings with which options, the other
what text), `MultiStream` and `Destination` the flush of `fatal`, `Transport` and
`MultiStream` the routing of a line.

No module has a RECURSIVE operator: reading through the prototype chain is a
choice of the first owner on the sequence `chain`.

### Levels and LoggerTree

Each variable is one own property of every logger (`Absent` where it has none);
`Get` reads it through the prototype chain. `config` is what all loggers share.
Actions: `Init` is `pino()` with one of `RootOptions`, `SetLevel` the `level`
setter, `SetBindings`, `ChildFast` (`child(b)`) and `ChildWithOptions`
(`child(b, options)`), `Log` a call of a log method. An operation that throws
changes nothing and is a disabled action. `obs` is what the last operation
showed: a line, a level-change event, or neither.

Abstractions: labels and bindings are names, a rendered binding is the record of
what it was rendered from and with (`Segment`), a line is the number it was bound
to, the opening looked up for it, the bindings and the prefix. The merging
object, mixins, hooks and serializers inside one log call are left out: they
change no state of a logger. A hook that calls back when an operation is over
(`onChild`, a level-change listener) is the next action. `levelComparison` as a
function is the set `UserEnabled` of pairs for which it returns true; a function
that returns something falsy other than `false` is outside the model (`setLevel`
tests `=== false`, `isLevelEnabled` returns the value). Where two custom levels share a value, JavaScript
keeps the one enumerated last and the model keeps one of them.

### MultiStream

`held`, `minLevel`, `lastLine` are the fields of each instance; `lastId` is
shared by all clones, as `res.lastId` is. A `write` pushes a frame with its loop
index; `Deliver` calls a stream, `StreamReturns` and `StreamThrows` end the call,
`Skip` and `Return` are the other turns and exits of the loop, `TypeError` the
read past the end of an array that shrank. While the innermost frame is inside a
stream (`CanCall`), or no write runs, every other operation may happen: this is
exactly where the single-threaded code can call out. `start`, `sent` and `calm`
in a frame are history that only properties read. A line at level `Fatal` comes
from `logger.fatal`, so its `Return` includes the flush that follows.

External, from how `src/` uses sonic-boom: a destination opens once (`Open`),
writes out what it buffers at any time afterwards (`Drain`), and `flushSync`
throws before it is open and empties the buffer after.

Protocol assumed of an application: a multistream is ended once and not from
inside a stream, and not written to afterwards; `add` is not called on a clone
whose level is no number (a sort with NaN has no defined result). Stream levels
are not negative.

### Transport and Delivery

The main thread is `process`, its list of `exit` listeners, the copy of that list
an exit works through (`pending`) and what it is blocked in (`waiting`). Events
of its loop (`Ready`, `Closed`) need it to run: none arrives while it is blocked
or exiting. `Hook` is `onExit` (before ready) or `autoEnd` (after it, through the
registry): `flushSync`, and when that returns `end()`, each of which blocks until
the worker is far enough (`FlushReturns`, `EndReturns`) or gives up
(`FlushThrows`, `EndGivesUp`). The registry of on-exit-leak-free is one listener
that `setupOnExit` installs and `close` removes; its `beforeExit` listener is
`BeforeExit`. Taking out a listener is `RemoveFirst`: Node takes the latest
of equal ones, and `OneHook` says that there is one at most. The main thread's `end()` is `End`, and `TellEnd` when the buffered
lines were carried over.

The worker takes its steps at any time, also while the main thread is blocked:
`LoadTarget` (all targets, then all pipelines), `Read` of the shared buffer,
`Route` to the targets (`Direct`, or as multistream does: `Receivers`), `Close`
of all targets, and `CloseCb` as each of them closes. Targets write out
(`Sync`) in their own time, and may fail, close unasked or be slow; `mishap`
remembers that one did. The worker is killed when the process is gone.

A line is its level, a target is the stream its module or pipeline returns. Left
out: the buffer's layout and the `sync` option (they change when lines are carried
over, not which), how paths, environment and preload flags are resolved, the
streams inside a pipeline, error events, and `sleep(100)`, which orders nothing.

`Delivery` is the promise alone: lines are accepted with the set of destinations
they are for, each destination writes them out once and in order, and the process
leaves when nothing is owed, or when it is excused. The refinement mapping takes
`WantedBy` for the destinations of a line: of several targets those the documentation
names (`Documented`, its rule for `targets`, levels and `dedupe`), and a single one, by
whichever option it is given, if it has no level or one that the line reaches, as the
comment in `lib/worker.js:117-127` has it. The documentation says otherwise of a single
entry of `targets` without a level (it defaults to `info`) and of a `pipeline` whose
target has one (it is not filtered). Lines logged before the transport is ready are
lost at exit according to the documentation, and delivered by the code and by
`Delivery`; the run `TransportReady` is about them. It is excused by a mishap, or by `autoEnd: false` once
ready, where the documentation leaves `end()` to the application.

### Redaction and Line

`Redaction` is `paths.reduce` as a machine: `Reduce` takes one path (`AddTop` for a
path of one segment, whose entry becomes null, `AddBelow` for a longer one, `Ignore`
below a null entry), and `Build` ends it. The shape is `keys`, `whole` (null entries)
and `below` (the arrays). `Hidden` is what a line does with it: it looks up a key, or
else the wildcard. A path is the sequence of its segments, a place the sequence of
keys that leads to a value; how a path is parsed is left out, and `@pinojs/redact`,
which applies a list of paths to a value, is external (`Matches`).

`Line` adds what text comes of a call: `Log` is `write` and `asJson`, `Bind` is
`asChindings`. The line is a sequence of pieces in the order they are appended: level,
bindings, object, message. A piece maps its keys to who gave the value and what is
left of it (`Text`: as it is, filtered below, the censor, or nothing). The key of errors
falls back to the serializer of `err` in the object and not in bindings (`Serialized`,
`SerializedBy`), and the message of a logged error may be missing. `Parsed` is what
`JSON.parse` gives: the last piece that has the key. Left out: values, time, formatters
and the interpolation of the message.

### Destination

Kinds: `async` and `asyncBuffered` are `sync: false` without and with a `minLength`;
`sync` writes at once; `buffered` is `sync: true` with a `minLength`; `multistream` is any
stream without a `flush` function. A flush callback waits for `WriteOut` only with a
`minLength`; it is called at once otherwise. Code of the application runs before and
behind the exit registry's listener and may log there (`ApplicationRuns`); `due` remembers
how many lines there were when that listener had its turn.

Actions: `BuildSafeSonicBoom` builds and registers, `Log`, `Fatal`, `Flush`, `End` are the logger's and the application's calls, `Error` is the event with
`filterBrokenPipe` and the application as its listeners, `Exit`, `CallRegistered`,
`AutoEnd`, `AutoEndThrows`, `Leave` are the end of the process. `broken` says that the
methods were overwritten. sonic-boom (`Opened`, `WriteOut`, `Close`) and on-exit-leak-free
(one listener that calls the registered functions in order) are external and kept to
what `src/` relies on. Only the main thread is modelled (a worker registers nothing),
and `autoEnd` only for `exit`: it is not registered for `beforeExit`, so its other branch
is never reached.

### Browser

A bindings object is the number of the call it was given in; `setBindings` makes a
new object that holds several. `chain` is the array a log function closed over when its
level was assigned, `eventBindings` the array in the logger's log event. `Log` decides
on the console by the log function (`open`, made by `AssignLevel`) and on `send` by
`transmit`; with `send` the event is filled in and `send` is under way (`sending`) until
`SendReturns` makes a new event or `SendThrows` leaves the old one. The new event gets the
very array of bindings the old one has (`array`, the logger whose array in
`eventBindings` it is), so what `setBindings` pushes is seen in events sent before. While it is under
way every other call may come. Left out: serializers, redaction, formatters, time and
caller; which console method a level falls back to; a console that calls back.

## 3. Runs

| Run | Result | Question |
|---|---|---|
| `LoggerTree` | holds (49 488 states) | Do methods, levels, tables and openings agree over all orders of spawns and assignments? Are bindings rendered once, under the right options, for the right loggers? |
| `MultiStream` | holds (about 1.8 million states) | Fan-out, order, ids, metadata, flushing under re-entrance |
| `Transport` | holds (650 518 states) | Delivery, exit hooks, close order, ends under fairness, with failures |
| `Line` | holds (159 360 states) | Does the order of redaction paths matter? Does every value of a line obey them? What does a reader of a line get? |
| `Browser` | holds (1 354 665 states) | Do levels, bindings, console and `send` agree over all orders of calls, with `send` calling back or throwing? |
| `Destination` | holds (2 431 248 states) | Is everything flushed that was logged before the exit registry's turn, every error heard, a broken pipe silent? |
| `LoggerLineOpens` | violated | `_asJson` generates a JSON string |
| `MultiStreamClone` | violated | docs: `clone(level)` with a label |
| `TransportReady` | violated | docs: lines before ready are lost at exit |
| `RedactionWildcard` | violated | docs: listed paths have their values redacted from any log output |
| `BrowserConsole` | violated | docs: no message below `level` is logged |
| `BrowserMessages` | violated | docs: `messages` is the arguments of the call |

Properties that hold:

- `MethodsFollowLevel`: a method writes exactly if `isLevelEnabled` says so.
- `LevelReadsBack`: the level of a logger names a level with the logger's value.
- `KnownLevelOpensLine`: a line at a level of the logger's own table opens with
  that level.
- `LevelStaysInSubtree`, `EventTellsTransition`: what a level assignment changes
  and what its event says.
- `RenderedUnderOwnOptions`, `BindingsAreIsolated`: bindings.
- `FanOutExact`: a write whose array stayed the same reaches exactly the streams
  the line is for; with `dedupe` those at the highest eligible level.
- `OrderedByLevel`, `IdsAreUnique`, `MetadataNotOlder`: the arrays, the ids over
  all clones, the metadata over nested writes.
- `EndedIsFlushed`, `FatalLeavesNothing`: flushing.
- `Implements`: `Transport` implements `Delivery`, so no order of exit, ready,
  end and worker steps loses, repeats, reorders or misroutes a line.
- `OneHook`: exactly one exit hook while the stream is in use, none afterwards.
- `ClosesLast`: the worker closes when every target has written out all it was
  given and closed.
- `ExitCompletes`, `EndCompletes`: an exit ends whatever the worker does, and
  `end()` closes a worker in which nothing went wrong.
- `PathsApply`, `OnlyPathsApply`: in whatever order paths are listed, each hides
  what it matches, and nothing else is hidden.
- `LineHides`: the same of each value a line has, whether bindings, object, mixin or
  message gave it.
- `NewestWins`, `LevelReadsAsLogged`, `LineParses`: what a reader takes from a line.
- `ConsoleFollowsLevel`, `SendFollowsLevel`: what is written to the console and sent,
  although both are decided when a level is assigned and again when a call is made.
- `BindingsOfHierarchy`, `ConsoleAndEventAgree`, `MessagesAreArguments`,
  `ObjectIsMerged`: bindings in the browser.
- `SentStays`: the messages and level of an event that `send` was given change only
  under `send` itself (or after it threw), and its bindings only by what its own logger
  is given with `setBindings`.
- `ExitFlushes`, `ErrorsAreHeard`, `BrokenIsSilent`: destinations.

The six violated ones are statements of the documentation or of a comment; each
has a finding in `PROJECT.json` with the quoted line and the course of events.
What else was met, and has no run of its own, is in section 5.

**Bounds.** Three loggers: a root with two children or a child and a grandchild,
which is enough for table, level and methods to have three different owners; the
two are symmetric. Root options include a redefined standard label, a custom
level on a standard value, both other comparisons, `useOnlyCustomLevels`,
`enabled: false` and two sets of options that `pino()` refuses; child options
include custom levels with the value 0 and collisions. `MaxSegments` is 3:
the root's base, the child's, and one more. Trees about levels have a root without
base, trees about bindings one with it: neither reads what the other varies. For
multistream: two symmetric destinations, two instances, stream levels 0 (the
value the code uses as "none recorded") and the level of fatal, lines between the
two, fatal, and at a label nobody knows, clones at a number and at a label; two
entries per array, two ids, two lines, two nested writes. A nested write is the
smallest in which metadata, array and dedupe state can be overtaken. Both
destinations of this instance have `flushSync`. For transport: a target of its
own, one or two targets of `targets` with and without a level, one of them a
pipeline, `pipeline` with and without a level, both values of `dedupe` and
`autoEnd`; lines at three levels, one of them below info, so that each target alone is
the highest for one; two lines, one of which may be logged by an exit listener or overtake the other's
way to a target; the application's listener before, between or after the hooks.
For redaction and line: the keys of level, error and message, `err` (the key of errors
is set to another) and one more, so that each path can meet its own key, another's, and the wildcard; paths of one, two and
three segments; up to four paths in each order (the wildcard alone, one of its
longer paths, and two of a literal are the most that meet in one entry), bindings
and lines over every shape of up to two paths; bindings given twice; five kinds of
loggers. For the browser: three loggers as above, three bindings objects, two calls
that reach `send`, one of which may be inside the other, five sets of options. For
destinations: two, so that one is registered behind the other, two lines, two
errors (EPIPE before and after another), one flush callback. A line can be logged before
the exit registry's listener and one behind it.
At least one target is assumed: with none, `close()` in the worker never calls
back and `end()` runs into its time limit.

Deadlock is not checked (`CHECK_DEADLOCK FALSE`): a bounded instance stops when
its bounds are used up, and an application may stop calling. Violation runs use
the instances of the passing ones.

**Fairness.** Only `Transport` has liveness properties. Weak fairness is assumed of
the worker's steps and of each target's writes and close, because they run on a
thread of their own whatever the main thread does; of the exit listeners and of
the return of a blocking call, because nothing else runs on the main thread then
and thread-stream looks again every second and gives up after ten; and of
carrying out an `end()` that was called. None is assumed of the application:
logging, `end()`, exit, nor of `ready`. The time limit of a blocking call is
`mishap` at least: ten seconds are taken to be enough for a worker in which
nothing is slow or broken.

## 4. Proofs

Checked by `tlapm` with no assumption but the named `ASSUME`s of the modules
(types of the constants; `silent` is above all levels; custom levels are below
it), which TLC evaluates for each instance. Besides types the assumptions say: that
`Absent`, for undefined, is none of the values a variable may have; of a transport,
that a target of its own (`transport({ target })`) has no level, which only entries of
`targets` have, and that targets are finitely many; of a line, that the key of the message is not
`level` (`KeysAssumption`: `pino()` does not refuse it, and the message is then what a
reader takes for the level).

`LoggerTreeProofs`, for any number of loggers and any options:

- `LevelInvariant`: `Spec => []LevelInv`. `MethodsFollowLevel` is not inductive:
  it speaks of what is read through the chain and not of who owns it. The
  invariant adds that chains are suffix-closed (`ChainsOK`: the chain of each
  logger on a chain is the rest of it), that a logger with its own table has its
  own level and one with no level of its own has no methods (`OwnLevelsOK`), and
  that a logger's own level is in the table it reads with all its methods bound
  to it (`Bound`). So table, level and methods are found at the same owner, or the
  table above it with methods for that table.
- `MethodsAlwaysFollowLevel` and `LevelAlwaysReadsBack` follow from it, the
  second with `TableRoundTrip`: in every table, labels and values are inverse on
  the values in force.
- `LevelsAlwaysStayInSubtree` is an action property: from the invariant before
  and after the step, the owner of the level is the same on every chain that does
  not meet the assigned logger first.
- `EventsAlwaysTellTransition`, an action property: the assigned logger's event tells
  the value it read before the step; after a spawn, the parent's.
- `LineInvariant`: `Spec => []LineInv`, for what a line shows. `CachesOK`: a logger has a
  cache of openings exactly if it has a table, made from that table, so both are found
  at one owner and `Log` never looks a level up in another table's cache.
  `RenderingOK`: every logger that is made owns its bindings, so what an ancestor is
  given later is not read, and the root owns all that renders. A method is a function of
  the label (`MethodsAreFunctions`). `LoggerTreeTypeOK`, `BindingsAlwaysUnderOwnOptions`,
  `KnownLevelAlwaysOpensLine` and `BindingsAlwaysIsolated` follow.
- "The nearest owner exists" needs a smallest index. `LeastNatural` gets it from
  the well-founded order of the naturals, without induction over an operator.

`MultiStreamProofs`, for any number of instances, streams, levels and nesting:

- `TypeCorrect`: `Spec => []TypeOK`.
- `OrderedAlways`: `add` inserts in a sorted place, `remove` and `clone` keep
  order, `minLevel` follows.
- `FanOutAlways`: `FanOutExact` needs to know how far each frame on the stack has
  come. `Reached` says it: without `dedupe` everything before the index was
  written to, with `dedupe` everything eligible after it, all at the recorded
  level; `FramesOK` says it of every frame, as long as the array is the one it
  started with. At `Return` this and the sorted array give the set of targets.
- `IdsAlwaysUnique`: the counter is ahead of every id in every array (`IdsBounded`).
  That holds over clones because they share the counter and not the array.
- `MetadataNeverOlder`: `LastLineOK` says that a line being written is not newer than
  the metadata of its instance; a nested write only makes it newer.
- `EndedAlwaysFlushed`: no stream of an array that is being written to is ended
  (`StacksOpen`), so nothing gets into a buffer after `end()`.
- `FatalAlwaysLeavesNothing`: at the return of a fatal write the flush passes all
  entries of the array, if none of them threw.

`RedactionProofs`, for any keys, paths and places:

- `ShapeInvariant`: `Spec => []ShapeInv`. A line sees one entry per key, so what is
  needed is that no array ever lacks a path that concerns its key, whatever came
  first. `EntriesAreListed` and `BelowIsListed` say where entries and the content of
  arrays come from, `ListedIsBelow` that each listed path is in its own array and,
  while the wildcard has one, in all others.
- `PathsAlwaysApply`, `OnlyPathsEverApply` follow with `MatchBelow`, that a path
  matches a place exactly if its first segment matches the first key and the rest
  what lies below. `EveryPathAppliesWithoutWildcardAlone` says how far the run
  `RedactionWildcard` refutes the documentation: the wildcard listed alone is the one
  exception. They are about `Redaction!Spec`; `LineProofs` has them for lines.

`LineProofs`, for any keys, paths, bindings, options and calls:

- `LineRedacts`: `LineSpec => Spec`, a line's steps are steps of `Redaction` or leave its
  state alone, so `PathsApply` and `OnlyPathsApply` hold of the entries.
- `LineAlwaysHides` takes them to the text: each value of the line, from whatever piece,
  is what the redactor of its key leaves of it (`TextIs`), so a line shows no place that a
  listed path applies to, and hides no other but a message its serializer took away.
- `LineInvariant`: `LineSpec => []LineInv`. A line is assembled from pieces made at
  different times, so one has to know that a piece of old bindings is what the
  redactors would make of it now (`RenderedOK`; it holds because they are made
  before anything is written, `BuiltFirst`), that the last line is what its call gives
  with the bindings there are (`LineIsOfCall`), and that of the bindings with a key some
  are the newest (`NewestBound`, which spares an induction).
- `ParsedIs` is the lemma behind the properties: what `JSON.parse` reads for a key is
  the message's, or else the object's, the newest bindings', the level's, in this order.
  `NewestAlwaysWins`, `LevelAlwaysReads` and `LineAlwaysParses` follow, with
  `LineAlwaysTypeOK`.

`BrowserProofs`, for any loggers, levels and options:

- `LevelsInvariant`: `Spec => []LevelsInv`. A log function is made at one time and
  called at another, so the two properties below are not inductive. The invariant says
  that the functions of a logger are `OpenAt` its level, that this level has a value
  (`OpenOK`), and that what the last call showed was decided by them (`CallOK`).
  `setBindings` and `child` keep it because both assign the level anew.
- `ConsoleAlwaysFollowsLevel`, `SendAlwaysFollowsLevel` follow from it.
- `BindingsInvariant`: `Spec => []BindingsInv`, for the two books of the bindings.
  `BindingsOK` says that a logger's own are all it was given, `ChainOK` and
  `EventBindingsOK` what a line's objects and an event's show: all that the logger
  was given, nothing that its ancestors were not, and all of theirs unless one of them
  was given more after a descendant had been (`Shows`, with `PathsOK` on who is above
  whom). `ChainOK` also counts the objects, for `ObjectAlwaysMerged`; `EventBindingsOK`
  says that what is prepended and not in the event is merged, for
  `MessagesAlwaysArguments`.
- `EventsInvariant`: `Spec => [](EventsOK /\ ShownOK)`. An event is one logger's, shows an
  array that only this logger's `setBindings` changes, and a logger's current one that is
  told of a call is under way in `send` or was left by one that threw. The two
  invariants need each other and are proved together (`BothStep`).
- `BrowserTypeOK`, `BindingsAlwaysOfHierarchy`, `ConsoleAndEventAlwaysAgree` and the
  action property `SentAlwaysStays` follow.

`DestinationProofs`, for any number of destinations, lines, errors and callbacks:

- `TypesAlwaysOK`: types, and that written and held lines together are those logged, in
  order; with `HoldsOK`, that a synchronous destination holds nothing. The registry is
  a sequence without repetition of exactly the asynchronous destinations in use.
- `ExitAlwaysFlushes`: once the registry's listener had its turn, a destination whose
  lines are not in the file that were `due` then is in `hooks` or was `skipped` (`ExitOK`);
  it starts with the whole registry, `AutoEnd` takes off one that owes nothing any more,
  and `skipped` stays empty as long as hooks are left. What listeners behind it log
  only adds to what is held and takes nothing out of the file.
- `ErrorsAreAlwaysHeard` and `BrokenIsAlwaysSilent`.

`TransportProofs`, for any number of targets, lines, levels and any options:

- `IInvariant`: `Spec => []IInv`. `WorkerOK` says what each stage of the worker has behind
  it, `CountOK` that the counter of `close()` is the number of targets still open (and at
  least that after a mishap), `LinesOK` and `GotOK` that a target was given exactly the
  lines that were routed and are for it, in order. `HookOK` says that the application's
  listeners are all there are but for the one hook of this stage, `ExitOK` that an exit
  does not get past its hook before the worker has closed.
- `TransportTypeOK`, `TransportOneHook`, `TransportClosesLast` follow; counting the targets
  that are open takes the library's theorems on finite sets.
- `TransportImplements`: `Spec => Implements`, with `ReceiversAreWanted` that the targets
  the worker routes a line to are those of `WantedBy`. Every step maps to a step of `Delivery` or a
  stutter: `Log` is acceptance, `Sync` a write of what is owed (`GotOK` says it
  is the next line for this destination), the end of the process its leaving, and
  `ExitOK` and `ClosesLast` give that nothing is owed then. It is about safety, as
  `Delivery` is.

`SequenceLemmas` has what inserting, removing at a place and taking out the first
occurrence make of a sequence, for the arrays of `MultiStreamProofs`, the registry of
`DestinationProofs` and the listeners of `TransportProofs`.

So every invariant and every action property that a passing run checks is proved.
Only model-checked: the liveness properties `ExitCompletes` and `EndCompletes`, as
liveness under fairness and `ENABLED` are out of the prover's reach. Nothing here
needs induction over data: where a newest or nearest one of a sequence is needed, it is
part of an invariant or comes from the order of the naturals.

## 5. What was met besides

Where the code does something else than a reader of its documentation expects, and
no run is about it, or a property names it as its exception:

- A child that was given no level goes on following its parent's assignments
  (docs/api.md:931-932 speaks of the time it is spawned); `LevelStaysInSubtree` has
  it so.
- With `levelComparison: 'DESC'` the level `silent` writes every line
  (docs/api.md:1115-1116 says it disables logging).
- A message that a redaction or a serializer takes away leaves `"msg":undefined` in
  the text, which is no JSON: `LineParses` has the exception. A worker that routes by
  level cannot read such a line.
- A key `level` of an object or a mixin replaces the level that a worker routes by:
  the exception of `LevelReadsAsLogged`.
- The message copied from a logged error is redacted as the message's key only, not
  by a path to the error's message.
- `flush(cb)` calls back at once, whatever is held, on a stream without a `flush`
  function, as a multistream, and on an asynchronous destination without a `minLength`
  (test/syncfalse.test.js:129-148); docs/api.md:1079-1091 makes no difference.
- A line that an `exit` listener behind the registry's logs stays in the buffer of an
  asynchronous destination, unless it is logged with `fatal` ("If we are sync: false, we
  must flush on exit", lib/tools.js:274): the exception of `ExitFlushes`.
- `flushSync` of a multistream stops at the first stream that throws, and the open ones
  behind it are not flushed (docs/api.md:1527: "Call `flushSync` on each stream"):
  `FatalLeavesNothing` is about flushes in which none threw.
- One entry of `targets` without a level is given lines below `info` (docs/api.md:1386,
  docs/transports.md:142), and a `pipeline` whose target has a level is filtered by it
  (docs/api.md:1392, docs/transports.md:140): `WantedBy` has both as the code.
- In the browser an event that `send` was given and keeps gets the bindings its logger is
  given later (docs/browser.md:212-214 calls it what a log call represents, browser.js:
  174-175 speaks of subsequent calls): an exception of `SentStays`.
- One `flushSync` that throws at exit keeps the destinations registered behind it
  from being flushed: the exception of `ExitFlushes`. A destination with
  `sync: true` and a `minLength` is not registered at all, and keeps its buffer.
- After another error the filter of a broken pipe is gone, and a later EPIPE is an
  error like any other.
- In the browser, once the root has bindings, `asObject` formats the caller's object
  into the message: the exception of `ObjectIsMerged`. Bindings an ancestor is given
  later reach a descendant's console lines when its level is next assigned, and its
  events never: the exception of `ConsoleAndEventAgree`.

## 6. Plan

Done: `Levels` and `LoggerTree`, `MultiStream`, `Transport` and `Delivery`,
`Redaction` and `Line`, `Destination`, `Browser`, and the proofs above.

Left: `ExitCompletes` and `EndCompletes` stay with TLC. What the proofs do not say yet is
how far the violated properties are violated: under which options `EveryLineOpens` or
`FatalReachesClone` would hold (as is proved of `EveryPathApplies`), each a theorem with a hypothesis about the options.

Not modelled and not planned: how one value becomes JSON text and how a message is
interpolated, time formats, the module loader of transports, call-stack inspection,
the command line, types, docs and benchmarks: they keep no state from one call to the
next, or are pure input and output.
