----------------------------- MODULE Destination -----------------------------
(***************************************************************************)
(* The destinations pino builds for itself, from lib/tools.js:             *)
(* buildSafeSonicBoom with its handling of errors, and autoEnd, which the  *)
(* process' exit calls for every destination that is registered; with      *)
(* logger.flush() (lib/proto.js) and the flush of logger.fatal()           *)
(* (lib/levels.js).                                                        *)
(*                                                                         *)
(* A destination is a sonic-boom: what it does with its buffer and its file*)
(* is external and kept to what src/ relies on.  It opens at some time, if *)
(* it does not open at once, writes out what it holds later or, with       *)
(* flushSync, at once, tells errors by an event, and closes after end().   *)
(* Errors without a listener end the process.  on-exit-leak-free, external *)
(* too, calls the registered functions one after another in one listener;  *)
(* autoEnd is registered for `exit` only, so its branch for `beforeExit`   *)
(* is not reached.  A destination without a flush function stands for a    *)
(* multistream, which holds what its own streams hold.                     *)
(***************************************************************************)
EXTENDS Integers, FiniteSets, SequencesExt

CONSTANTS
    Dest,           \* the destinations there may be
    Kinds,          \* the kinds they are built as
    MaxLines,       \* bound: lines logged
    MaxErrors,      \* bound: errors of a destination
    MaxFlushes      \* bound: calls of flush() with a callback

VARIABLES
    kind,           \* what a destination is built as, "none" before
    life,           \* "none", "opening", "open", "closed"
    buffer,         \* lines it holds
    written,        \* lines in the file
    broken,         \* write, end, flushSync and destroy are no-ops
    filtering,      \* filterBrokenPipe listens for errors
    listening,      \* the application listens for errors
    ending,         \* end() was called
    callbacks,      \* flush callbacks that wait for the stream to drain
    registered,     \* the exit registry, in order
    hooks,          \* destinations the exit listener has not come to yet
    process,        \* "running", "exiting", "flushing", "gone"
    skipped,        \* destinations left in hooks when autoEnd threw
    logged,         \* history: lines accepted by each destination
    errors,         \* history: errors so far
    flushes,        \* history: callbacks given so far
    due,            \* history: how many lines were logged when the exit
                    \* registry's listener had its turn
    obs             \* what the last step showed

streamState == <<kind, life, buffer, written, broken, ending>>
errorState == <<filtering, listening, errors>>
exitState == <<registered, hooks, process, skipped, due>>
flushState == <<callbacks, flushes>>
vars == <<streamState, errorState, exitState, flushState, logged, obs>>

\* `sync: false` and `sync: true`, without and with a minLength, and a stream
\* without a flush function that pino did not build.
ASSUME DestinationAssumption ==
    Kinds \subseteq {"async", "asyncBuffered", "sync", "buffered", "multistream"}

Async == {"async", "asyncBuffered"}
HasMinLength(d) == kind[d] \in {"asyncBuffered", "buffered"}

\* Mutant for BrokenIsSilent: flushSync is not overwritten.
FlushSyncKept(d) == FALSE

\* stream.flushSync is the no-op of a broken pipe.
FlushSyncIsNoop(d) == broken[d]

IsSonicBoom(d) == kind[d] # "multistream"
Usable(d) == life[d] \in {"opening", "open"}

Quiet == [kind |-> "quiet"]

Init ==
    /\ kind = [d \in Dest |-> "none"]
    /\ life = [d \in Dest |-> "none"]
    /\ buffer = [d \in Dest |-> << >>]
    /\ written = [d \in Dest |-> << >>]
    /\ broken = [d \in Dest |-> FALSE]
    /\ filtering = [d \in Dest |-> FALSE]
    /\ listening = [d \in Dest |-> FALSE]
    /\ ending = [d \in Dest |-> FALSE]
    /\ callbacks = [d \in Dest |-> 0]
    /\ registered = << >>
    /\ hooks = << >>
    /\ process = "running"
    /\ skipped = {}
    /\ logged = [d \in Dest |-> << >>]
    /\ errors = 0
    /\ flushes = 0
    /\ due = [d \in Dest |-> 0]
    /\ obs = Quiet

-----------------------------------------------------------------------------
(* Building and opening *)

\* Mutant for ExitFlushes: only a destination that is open is registered.
RegistersIfOpen(k, opens) == k \in Async /\ opens

\* "If we are sync: false, we must flush on exit".
Registers(k, opens) == k \in Async

\* buildSafeSonicBoom, or a multistream of the application's.  A synchronous
\* destination is open when it is built, another one may be (a descriptor).
BuildSafeSonicBoom(d, k, opens) ==
    /\ process = "running"
    /\ life[d] = "none"
    /\ k \notin Async => opens
    /\ kind' = [kind EXCEPT ![d] = k]
    /\ life' = [life EXCEPT ![d] = IF opens THEN "open" ELSE "opening"]
    /\ filtering' = [filtering EXCEPT ![d] = k # "multistream"]
    /\ registered' = IF Registers(k, opens) THEN Append(registered, d) ELSE registered
    /\ obs' = Quiet
    /\ UNCHANGED <<buffer, written, broken, ending, listening, errors, hooks, process,
                   skipped, due, flushState, logged>>

\* The file is open (event ready).
Opened(d) ==
    /\ process = "running"
    /\ life[d] = "opening"
    /\ life' = [life EXCEPT ![d] = "open"]
    /\ obs' = Quiet
    /\ UNCHANGED <<kind, buffer, written, broken, ending, errorState, exitState,
                   flushState, logged>>

\* stream.on('error', ...) of the application.
Listen(d) ==
    /\ process = "running" /\ Usable(d) /\ ~listening[d]
    /\ listening' = [listening EXCEPT ![d] = TRUE]
    /\ obs' = Quiet
    /\ UNCHANGED <<streamState, filtering, errors, exitState, flushState, logged>>

-----------------------------------------------------------------------------
(* Logging *)

\* The destination holds the lines of sonic-boom that are not in the file yet; a
\* synchronous one without minLength writes at once.
Put(d, line) ==
    IF kind[d] = "sync"
    THEN written' = [written EXCEPT ![d] = Append(@, line)] /\ UNCHANGED buffer
    ELSE buffer' = [buffer EXCEPT ![d] = Append(@, line)] /\ UNCHANGED written

LinesLogged == Cardinality(UNION {Range(logged[d]) : d \in Dest})

\* Code of the application runs, listeners of `exit` before and behind the
\* registry's included, and what runs when that one threw.
ApplicationRuns ==
    \/ process \in {"running", "exiting"}
    \/ process = "flushing" /\ hooks = << >>

\* logger[level](...): stream.write, a no-op once the pipe is broken; a closed
\* stream throws and takes nothing.
Log(d) ==
    LET line == LinesLogged + 1
    IN  /\ ApplicationRuns
        /\ Usable(d)
        /\ line \in 1 .. MaxLines
        /\ IF broken[d] THEN UNCHANGED <<buffer, written, logged>>
           ELSE Put(d, line) /\ logged' = [logged EXCEPT ![d] = Append(@, line)]
        /\ obs' = Quiet
        /\ UNCHANGED <<kind, life, broken, ending, errorState, exitState, flushState>>

\* flushSync can fail at a write: the file is open and there is a buffer.
MayFail(d) ==
    /\ life[d] = "open" /\ ~FlushSyncIsNoop(d) /\ kind[d] # "sync"
    /\ errors < MaxErrors

\* logger.fatal(...): flushSync as well.  It throws when the file is not open or a
\* write fails, which is dropped and leaves the lines held, is a no-op once
\* broken, and empties the buffer otherwise.
Fatal(d, fails) ==
    LET line == LinesLogged + 1
    IN  /\ ApplicationRuns
        /\ Usable(d)
        /\ line \in 1 .. MaxLines
        /\ fails => MayFail(d)
        /\ errors' = IF fails THEN errors + 1 ELSE errors
        /\ logged' = IF broken[d] THEN logged ELSE [logged EXCEPT ![d] = Append(@, line)]
        /\ IF life[d] = "open" /\ ~FlushSyncIsNoop(d) /\ ~fails
           THEN /\ written' = [written EXCEPT ![d] =
                      @ \o buffer[d] \o (IF broken[d] THEN << >> ELSE <<line>>)]
                /\ buffer' = [buffer EXCEPT ![d] = << >>]
           ELSE IF broken[d] THEN UNCHANGED <<buffer, written>> ELSE Put(d, line)
        /\ obs' = Quiet
        /\ UNCHANGED <<kind, life, broken, ending, filtering, listening, exitState, flushState>>

\* logger.flush(cb): the stream's flush is given the callback, which waits for the
\* stream to drain only if the stream has a minLength.  It is called at once
\* otherwise, whatever the stream holds, by a stream that is closed as well, and by
\* flush itself where the stream has no flush function.
Flush(d) ==
    /\ process = "running" /\ life[d] # "none" /\ flushes < MaxFlushes
    /\ flushes' = flushes + 1
    /\ IF HasMinLength(d) /\ life[d] # "closed"
       THEN callbacks' = [callbacks EXCEPT ![d] = @ + 1]
       ELSE UNCHANGED callbacks
    /\ obs' = Quiet
    /\ UNCHANGED <<streamState, errorState, exitState, logged>>

-----------------------------------------------------------------------------
(* The file *)

\* The destination writes out what it holds and has drained: the flush callbacks
\* are called that wait for it, which those of a minLength do.
WriteOut(d) ==
    /\ process = "running"
    /\ life[d] = "open" /\ ~broken[d]
    /\ buffer[d] # << >> \/ callbacks[d] > 0
    /\ written' = [written EXCEPT ![d] = @ \o buffer[d]]
    /\ buffer' = [buffer EXCEPT ![d] = << >>]
    /\ callbacks' = [callbacks EXCEPT ![d] = 0]
    /\ obs' = Quiet
    /\ UNCHANGED <<kind, life, broken, ending, errorState, exitState, flushes, logged>>

Exits == process' = "exiting"

\* Mutant for ErrorsAreHeard: every error is kept from the application.
FiltersAll(d, code) == filtering[d]

\* filterBrokenPipe is called first: it makes a broken pipe's stream a no-op, and
\* removes itself and repeats any other error.
FiltersEPIPE(d, code) == filtering[d] /\ code = "EPIPE"

\* stream.write, end, flushSync and destroy are overwritten.
BreakPipe(d) == broken' = [broken EXCEPT ![d] = TRUE]

\* The stream emits an error.  filterBrokenPipe hears it first, if it still
\* listens, then the application, and a waiting flush callback, which is called
\* with it.  filterBrokenPipe repeats what is no broken pipe, so the application
\* hears that error twice; an error nobody hears ends the process.
Error(d, code) ==
    LET repeats == filtering[d] /\ ~FiltersEPIPE(d, code)
        heard == (IF listening[d] THEN (IF repeats THEN 2 ELSE 1) ELSE 0)
                    + callbacks[d]
    IN  /\ process = "running"
        /\ Usable(d) /\ IsSonicBoom(d)
        /\ errors < MaxErrors
        /\ errors' = errors + 1
        /\ IF FiltersEPIPE(d, code)
           THEN BreakPipe(d) /\ UNCHANGED <<filtering, process>>
           ELSE /\ filtering' = [filtering EXCEPT ![d] = FALSE]
                /\ IF heard > 0 THEN UNCHANGED process ELSE Exits
                /\ UNCHANGED broken
        /\ callbacks' = [callbacks EXCEPT ![d] = 0]
        /\ obs' = [kind |-> "error", of |-> d, code |-> code, heard |-> heard]
        /\ UNCHANGED <<kind, life, buffer, written, ending, listening, registered, hooks,
                       skipped, due, flushes, logged>>

\* stream.end(): closes when everything is written.
End(d) ==
    /\ process = "running" /\ Usable(d) /\ ~ending[d]
    /\ ending' = [ending EXCEPT ![d] = ~broken[d]]
    /\ obs' = Quiet
    /\ UNCHANGED <<kind, life, buffer, written, broken, errorState, exitState, flushState, logged>>

\* Mutant for TypeOK: a closed destination stays registered.
CloseRegistered(d) ==
    /\ process = "running"
    /\ ending[d] /\ life[d] = "open" /\ ~broken[d]
    /\ buffer[d] = << >> /\ callbacks[d] = 0
    /\ life' = [life EXCEPT ![d] = "closed"]
    /\ obs' = Quiet
    /\ UNCHANGED <<kind, buffer, written, broken, ending, errorState, exitState,
                   flushState, logged>>

\* onExit.unregister: the destination is taken out of the registry.
Unregister(d) ==
    registered' = IF \E i \in DOMAIN registered : registered[i] = d
                  THEN RemoveAt(registered, CHOOSE i \in DOMAIN registered : registered[i] = d)
                  ELSE registered

\* The stream has ended and closes, which takes it out of the exit registry.
Close(d) ==
    /\ process = "running"
    /\ ending[d] /\ life[d] = "open" /\ ~broken[d]
    /\ buffer[d] = << >> /\ callbacks[d] = 0
    /\ life' = [life EXCEPT ![d] = "closed"]
    /\ Unregister(d)
    /\ obs' = Quiet
    /\ UNCHANGED <<kind, buffer, written, broken, ending, errorState, hooks, process,
                   skipped, due, flushState, logged>>

-----------------------------------------------------------------------------
(* The end of the process *)

\* process.exit(), or nothing left to do.
Exit ==
    /\ process = "running"
    /\ Exits
    /\ obs' = Quiet
    /\ UNCHANGED <<streamState, errorState, registered, hooks, skipped, due, flushState, logged>>

\* The registry's listener has its turn.
CallRegistered ==
    /\ process = "exiting"
    /\ process' = "flushing"
    /\ hooks' = registered
    /\ due' = [d \in Dest |-> Len(logged[d])]
    /\ obs' = Quiet
    /\ UNCHANGED <<streamState, errorState, registered, skipped, flushState, logged>>

\* autoEnd(stream, 'exit') writes the buffer out.
AutoEnd ==
    LET d == Head(hooks)
    IN  /\ process = "flushing" /\ hooks # << >>
        /\ FlushSyncIsNoop(d) \/ life[d] # "opening"
        /\ IF FlushSyncIsNoop(d) \/ life[d] = "closed"
           THEN UNCHANGED <<buffer, written>>
           ELSE /\ written' = [written EXCEPT ![d] = @ \o buffer[d]]
                /\ buffer' = [buffer EXCEPT ![d] = << >>]
        /\ hooks' = Tail(hooks)
        /\ obs' = Quiet
        /\ UNCHANGED <<kind, life, broken, ending, errorState, registered, process, skipped,
                       due, flushState, logged>>

\* flushSync throws, because the file is not open or a write fails, out of the
\* listener: the destinations behind this one are not called.
AutoEndThrows ==
    LET d == Head(hooks)
    IN  /\ process = "flushing" /\ hooks # << >>
        /\ ~FlushSyncIsNoop(d)
        /\ life[d] = "opening" \/ (life[d] = "open" /\ buffer[d] # << >> /\ errors < MaxErrors)
        /\ errors' = errors + 1
        /\ skipped' = Range(hooks)
        /\ hooks' = << >>
        /\ obs' = [kind |-> "thrown", of |-> d]
        /\ UNCHANGED <<streamState, filtering, listening, registered, process, due, flushState,
                       logged>>

Leave ==
    /\ process = "flushing" /\ hooks = << >>
    /\ process' = "gone"
    /\ obs' = Quiet
    /\ UNCHANGED <<streamState, errorState, registered, hooks, skipped, due, flushState, logged>>

Next ==
    \/ \E d \in Dest :
          \/ \E k \in Kinds, opens \in BOOLEAN : BuildSafeSonicBoom(d, k, opens)
          \/ Opened(d)
          \/ Listen(d)
          \/ Log(d)
          \/ \E fails \in BOOLEAN : Fatal(d, fails)
          \/ Flush(d)
          \/ WriteOut(d)
          \/ \E code \in {"EPIPE", "other"} : Error(d, code)
          \/ End(d)
          \/ Close(d)
    \/ Exit
    \/ CallRegistered
    \/ AutoEnd
    \/ AutoEndThrows
    \/ Leave

Spec == Init /\ [][Next]_vars

-----------------------------------------------------------------------------
(* Properties *)

\* Types; a destination's lines are in the file or held, in the order they were
\* logged; the registry holds every asynchronous destination that is not closed,
\* once.
TypeOK ==
    /\ kind \in [Dest -> Kinds \cup {"none"}]
    /\ life \in [Dest -> {"none", "opening", "open", "closed"}]
    /\ process \in {"running", "exiting", "flushing", "gone"}
    /\ buffer \in [Dest -> Seq(1 .. MaxLines)]
    /\ written \in [Dest -> Seq(1 .. MaxLines)]
    /\ DOMAIN logged = Dest /\ \A d \in Dest : logged[d] = written[d] \o buffer[d]
    /\ callbacks \in [Dest -> Nat]
    /\ {broken, filtering, listening, ending} \subseteq [Dest -> BOOLEAN]
    /\ due \in [Dest -> Nat]
    /\ registered \in Seq(Dest) /\ hooks \in Seq(Dest) /\ skipped \subseteq Dest
    /\ Range(registered) = {d \in Dest : kind[d] \in Async /\ Usable(d)}
    /\ \A i, j \in DOMAIN registered : registered[i] = registered[j] => i = j

\* The exit can flush a destination: it is asynchronous and open, its pipe is not
\* broken, and autoEnd of it or of one registered before it did not throw.
Flushable(d) == kind[d] \in Async /\ life[d] = "open" /\ ~broken[d] /\ d \notin skipped

\* When the process is gone, the lines that were logged before the exit registry's
\* listener had its turn are in the file, whatever the process ended of, an error
\* nobody listened for included (tools.js:274-276); except where autoEnd threw,
\* which it does for a file that is not open yet or does not take the lines, and
\* but for what listeners behind the registry's log.
ExitFlushes ==
    process = "gone" => \A d \in Dest : Flushable(d) => Len(written[d]) >= due[d]

\* After a broken pipe the destination takes no line, writes none, and the exit
\* neither throws for it nor stops at it: its methods are no-ops (tools.js:287-295).
BrokenIsSilent ==
    [][\A d \in Dest : broken[d] =>
          /\ broken'[d] /\ logged'[d] = logged[d] /\ written'[d] = written[d]
          /\ obs' # [kind |-> "thrown", of |-> d]]_vars

\* No error event gets lost but a broken pipe's, and then logging stops: any other is
\* heard by the application or ends the process, also while filterBrokenPipe
\* takes itself out of the listeners in the middle of the event.
ErrorsAreHeard ==
    obs.kind = "error" /\ obs.heard = 0 =>
        \/ process = "exiting"
        \/ obs.code = "EPIPE" /\ broken[obs.of]

-----------------------------------------------------------------------------
(* The inductive invariant behind these properties. *)

\* A destination that is not built holds nothing, and one that writes at once
\* never does.
HoldsOK ==
    \A d \in Dest :
        /\ life[d] = "none" => kind[d] = "none" /\ buffer[d] = << >> /\ written[d] = << >>
        /\ kind[d] = "sync" => buffer[d] = << >>

\* While the process ends, a destination whose lines are not in the file that are
\* due is in hooks.
ExitOK ==
    /\ process \in {"running", "exiting"} => hooks = << >> /\ skipped = {}
    /\ hooks # << >> => skipped = {}
    /\ process = "gone" => hooks = << >>
    /\ \A d \in Dest : due[d] <= Len(logged[d])
    /\ process \in {"flushing", "gone"} =>
          \A d \in Dest : Flushable(d) => d \in Range(hooks) \/ Len(written[d]) >= due[d]
=============================================================================
