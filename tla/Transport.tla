------------------------------ MODULE Transport ------------------------------
(***************************************************************************)
(* lib/transport.js and lib/worker.js: a stream whose lines are carried to *)
(* a worker thread, which hands them to one or more targets; and the exit  *)
(* listeners that see to it that the worker is done before the process is. *)
(*                                                                         *)
(* Two threads take turns in any order.  The main one runs the application *)
(* and the listeners; its event loop, and with it the events 'ready' and   *)
(* 'close', stands still while it is blocked and once it is exiting.  The  *)
(* worker loads its targets, reads lines, routes them and, when it is told *)
(* to end, ends its targets and waits for all of them to close.            *)
(*                                                                         *)
(* thread-stream, pino-abstract-transport, on-exit-leak-free and the       *)
(* targets are not under src/: their part is marked external.              *)
(***************************************************************************)
EXTENDS Integers, FiniteSets, SequencesExt

CONSTANTS
    Target,     \* streams a worker may write to: targets and pipelines
    Options,    \* what transport() may be called with
    LineLevels, \* levels of lines
    Info,       \* the level of info
    Absent,     \* no level
    MaxLine     \* bound: lines accepted

VARIABLES
    options,    \* those of this transport
    process,    \* "running", "exiting" (its 'exit' listeners run) or "gone"
    listeners,  \* the 'exit' listeners of the process, in order
    pending,    \* those that are still to run
    waiting,    \* what blocks the main thread: "no", "flush" or "end"
    ready,      \* 'ready' was emitted
    closed,     \* 'close' was emitted
    ending,     \* end() was called: further lines are refused
    told,       \* the worker was told to end
    accepted,   \* the levels of the lines written to the stream
    read,       \* lines the worker has read
    routed,     \* lines the worker has routed
    got,        \* target -> the lines it was given
    synced,     \* target -> how many of them it wrote out
    worker,     \* "loading", "serving", "closing", "closed" or "failed"
    loaded,     \* targets built
    expected,   \* the counter of close()
    shut,       \* targets that emitted 'close'
    mishap      \* history: a target failed, closed unasked or was slow

main == <<process, listeners, pending, waiting, ready, closed>>
stream == <<ending, told, accepted>>
work == <<read, routed, got, synced, worker, loaded, expected, shut>>
vars == <<options, main, stream, work, mishap>>

ASSUME TransportAssumption ==
    /\ IsFiniteSet(Target)
    /\ LineLevels \subseteq Nat /\ Info \in Nat /\ Absent \notin Nat
    /\ \A o \in Options :
          /\ o.form \in {"target", "targets", "pipeline"}
          /\ DOMAIN o.level \subseteq Target /\ DOMAIN o.level # {}
          /\ \A d \in DOMAIN o.level : o.level[d] \in Nat \cup {Absent}
          /\ o.pipelines \subseteq DOMAIN o.level
          /\ o.form # "targets" => Cardinality(DOMAIN o.level) = 1
          /\ o.form = "target" => \A d \in DOMAIN o.level : o.level[d] = Absent
          /\ o.dedupe \in BOOLEAN /\ o.autoEnd \in BOOLEAN

Targets == DOMAIN options.level

Hooks == {"onExit", "registry"}

MainRuns == process = "running" /\ waiting = "no"

WorkerRuns(states) == process # "gone" /\ worker \in states

-----------------------------------------------------------------------------
\* The main thread.

Init ==
    /\ options \in Options
    /\ process = "running" /\ pending = << >> /\ waiting = "no"
    /\ listeners \in {<<"onExit">>, <<"app", "onExit">>}
    /\ ready = FALSE /\ closed = FALSE
    /\ ending = FALSE /\ told = FALSE
    /\ accepted = << >> /\ read = 0 /\ routed = 0
    /\ got = [d \in Target |-> << >>] /\ synced = [d \in Target |-> 0]
    /\ worker = "loading" /\ loaded = {} /\ expected = 0 /\ shut = {}
    /\ mishap = FALSE

\* External: a line is refused once end() was called or the stream is closed.
Accept(level) ==
    /\ ~ending /\ ~closed
    /\ Len(accepted) < MaxLine
    /\ accepted' = Append(accepted, level)
    /\ UNCHANGED <<ending, told>>

Log(level) ==
    /\ MainRuns
    /\ Accept(level)
    /\ UNCHANGED <<options, main, work, mishap>>

\* The application listens to 'exit' itself.
AddListener ==
    /\ MainRuns
    /\ ~Contains(listeners, "app")
    /\ listeners' = Append(listeners, "app")
    /\ UNCHANGED <<options, process, pending, waiting, ready, closed, stream, work, mishap>>

\* Mutant for OneHook: the first listener stays.
ReadyKeepsOnExit ==
    /\ MainRuns
    /\ loaded = Targets /\ ~ready /\ ~closed
    /\ ready' = TRUE
    /\ listeners' = listeners \o (IF options.autoEnd THEN <<"registry">> ELSE << >>)
    /\ UNCHANGED <<options, process, pending, waiting, closed, stream, work, mishap>>

\* onReady: from here on the registry of exit listeners flushes and ends the
\* stream, or nobody does.
Ready ==
    /\ MainRuns
    /\ loaded = Targets /\ ~ready /\ ~closed
    /\ ready' = TRUE
    /\ listeners' = RemoveFirst(listeners, "onExit") \o (IF options.autoEnd THEN <<"registry">> ELSE << >>)
    /\ UNCHANGED <<options, process, pending, waiting, closed, stream, work, mishap>>

\* The worker has exited, and both 'close' listeners run.
Closed ==
    /\ MainRuns
    /\ worker \in {"closed", "failed"} /\ ~closed
    /\ closed' = TRUE
    /\ listeners' = RemoveFirst(RemoveFirst(listeners, "onExit"), "registry")
    /\ UNCHANGED <<options, process, pending, waiting, ready, stream, work, mishap>>

\* The application calls end().  External: lines that are still buffered may be
\* carried over first, while the application goes on; then the main thread
\* waits for the worker to close.
End ==
    /\ MainRuns
    /\ ~ending /\ ~closed
    /\ ending' = TRUE
    /\ UNCHANGED <<options, main, told, accepted, work, mishap>>

TellEnd ==
    /\ MainRuns
    /\ ending /\ ~told /\ ~closed
    /\ told' = TRUE
    /\ waiting' = "end"
    /\ UNCHANGED <<options, process, listeners, pending, ready, closed, ending,
                   accepted, work, mishap>>

\* 'beforeExit' is emitted once the event loop is empty, which it is not as long
\* as the worker is loading (only onReady calls unref) or an end() is under way.
BeforeExit ==
    /\ MainRuns
    /\ ending = told
    /\ Contains(listeners, "registry")
    /\ waiting' = "flush"
    /\ UNCHANGED <<options, process, listeners, pending, ready, closed, stream, work, mishap>>

\* process.exit(), or nothing is left to do.
Exit ==
    /\ MainRuns
    /\ process' = "exiting"
    /\ pending' = listeners
    /\ UNCHANGED <<options, listeners, waiting, ready, closed, stream, work, mishap>>

-----------------------------------------------------------------------------
\* The exit listeners.

Listening(names) ==
    /\ process = "exiting" /\ waiting = "no"
    /\ pending # << >> /\ Head(pending) \in names

AppListener ==
    /\ Listening({"app"})
    /\ pending' = Tail(pending)
    /\ UNCHANGED stream \/ \E level \in LineLevels : Accept(level)
    /\ UNCHANGED <<options, process, listeners, waiting, ready, closed, work, mishap>>

\* Mutant for ExitCompletes: wait for the transport to be ready, as the event
\* loop no longer tells.
HookWaitsForReady ==
    /\ Listening(Hooks)
    /\ ready \/ closed
    /\ IF closed
       THEN pending' = Tail(pending) /\ UNCHANGED waiting
       ELSE waiting' = "flush" /\ UNCHANGED pending
    /\ UNCHANGED <<options, process, listeners, ready, closed, stream, work, mishap>>

\* onExit before ready, autoEnd after it: flushSync, then end.
Hook ==
    /\ Listening(Hooks)
    /\ IF closed
       THEN pending' = Tail(pending) /\ UNCHANGED waiting
       ELSE waiting' = "flush" /\ UNCHANGED pending
    /\ UNCHANGED <<options, process, listeners, ready, closed, stream, work, mishap>>

\* Mutant for Implements: the listener flushes and does not end.
FlushReturnsForGood ==
    /\ process # "gone" /\ waiting = "flush"
    /\ read = Len(accepted) \/ worker = "closed"
    /\ waiting' = "no"
    /\ pending' = IF process = "exiting" THEN Tail(pending) ELSE pending
    /\ UNCHANGED <<options, process, listeners, ready, closed, stream, work, mishap>>

\* External: flushSync blocks until the worker has read every line.  An exit
\* listener goes on to end(), the one of 'beforeExit' is done.
FlushReturns ==
    /\ process # "gone" /\ waiting = "flush"
    /\ read = Len(accepted) \/ worker = "closed"
    /\ IF process = "exiting"
       THEN waiting' = "end" /\ ending' = TRUE /\ told' = TRUE
       ELSE waiting' = "no" /\ UNCHANGED <<ending, told>>
    /\ UNCHANGED <<options, process, listeners, pending, ready, closed, accepted,
                   work, mishap>>

\* External: end() blocks until the worker has closed.
EndReturns ==
    /\ process # "gone" /\ waiting = "end"
    /\ worker = "closed"
    /\ waiting' = "no"
    /\ pending' = IF process = "exiting" THEN Tail(pending) ELSE pending
    /\ UNCHANGED <<options, process, listeners, ready, closed, stream, work, mishap>>

\* External: both give up after ten seconds, or at once when the worker failed.
\* flushSync throws, which ends the process: by way of its exit listeners, or
\* on the spot if one of them runs.  end() terminates the worker.
FlushThrows ==
    /\ process # "gone" /\ waiting = "flush"
    /\ mishap
    /\ waiting' = "no"
    /\ IF process = "exiting"
       THEN process' = "gone" /\ UNCHANGED pending
       ELSE process' = "exiting" /\ pending' = listeners
    /\ UNCHANGED <<options, listeners, ready, closed, stream, work, mishap>>

EndGivesUp ==
    /\ process # "gone" /\ waiting = "end"
    /\ mishap
    /\ waiting' = "no"
    /\ pending' = IF process = "exiting" THEN Tail(pending) ELSE pending
    /\ worker' = IF worker = "closed" THEN worker ELSE "failed"
    /\ UNCHANGED <<options, process, listeners, ready, closed, stream, read, routed,
                   got, synced, loaded, expected, shut, mishap>>

Leave ==
    /\ process = "exiting" /\ waiting = "no"
    /\ pending = << >>
    /\ process' = "gone"
    /\ UNCHANGED <<options, listeners, pending, waiting, ready, closed, stream, work, mishap>>

-----------------------------------------------------------------------------
\* The worker.

\* Targets are built side by side, pipelines when all targets are.
Loads(d) ==
    /\ WorkerRuns({"loading"})
    /\ d \in Targets \ loaded
    /\ d \in options.pipelines => Targets \ options.pipelines \subseteq loaded

LoadTarget(d) ==
    /\ Loads(d)
    /\ loaded' = loaded \cup {d}
    /\ worker' = IF loaded' = Targets THEN "serving" ELSE worker
    /\ UNCHANGED <<options, main, stream, read, routed, got, synced, expected, shut, mishap>>

\* A target that cannot be imported, required or built takes the worker and all
\* other targets with it.
LoadFails(d) ==
    /\ Loads(d)
    /\ worker' = "failed"
    /\ mishap' = TRUE
    /\ UNCHANGED <<options, main, stream, read, routed, got, synced, loaded, expected, shut>>

\* The worker's stream is the only target itself.
Direct ==
    \/ options.form = "target"
    \/ \A d, e \in Targets : d = e /\ options.level[d] = Absent

StreamLevel(d) == IF options.level[d] = Absent THEN Info ELSE options.level[d]

\* The targets of a line: all, or those multistream writes it to.
Receivers(level) ==
    LET eligible == {d \in Targets : StreamLevel(d) =< level}
    IN  IF Direct THEN Targets
        ELSE IF options.dedupe
        THEN {d \in eligible : \A e \in eligible : StreamLevel(e) =< StreamLevel(d)}
        ELSE eligible

\* External: the worker reads a line off the shared buffer.
Read ==
    /\ WorkerRuns({"serving"})
    /\ read < Len(accepted)
    /\ read' = read + 1
    /\ UNCHANGED <<options, main, stream, routed, got, synced, worker, loaded, expected,
                   shut, mishap>>

Route ==
    /\ WorkerRuns({"serving"})
    /\ routed < read
    /\ routed' = routed + 1
    /\ got' = [d \in Target |->
          IF d \in Receivers(accepted[routed + 1]) THEN Append(got[d], routed + 1) ELSE got[d]]
    /\ UNCHANGED <<options, main, stream, read, synced, worker, loaded, expected, shut, mishap>>

\* Mutant for TypeOK: the counter is not set.
CloseUncounted ==
    /\ WorkerRuns({"serving"})
    /\ told /\ routed = Len(accepted)
    /\ worker' = "closing"
    /\ UNCHANGED <<options, main, stream, read, routed, got, synced, loaded, expected,
                   shut, mishap>>

\* Mutant for EndCompletes: one close too many is expected.
CloseExpectsItself ==
    /\ WorkerRuns({"serving"})
    /\ told /\ routed = Len(accepted)
    /\ worker' = "closing"
    /\ expected' = Cardinality(Targets) + 1
    /\ UNCHANGED <<options, main, stream, read, routed, got, synced, loaded, shut, mishap>>

\* close(): every line was routed, and every target is ended.
Close ==
    /\ WorkerRuns({"serving"})
    /\ told /\ routed = Len(accepted)
    /\ worker' = "closing"
    /\ expected' = Cardinality(Targets)
    /\ UNCHANGED <<options, main, stream, read, routed, got, synced, loaded, shut, mishap>>

\* External: a target writes out the next line it was given.
Sync(d) ==
    /\ WorkerRuns({"serving", "closing"})
    /\ d \in Targets \ shut
    /\ synced[d] < Len(got[d])
    /\ synced' = [synced EXCEPT ![d] = @ + 1]
    /\ UNCHANGED <<options, main, stream, read, routed, got, worker, loaded, expected,
                   shut, mishap>>

\* Mutant for ClosesLast: the callback runs at the first close.
CloseCbAtOnce(d) ==
    /\ WorkerRuns({"closing"})
    /\ d \in Targets \ shut
    /\ synced[d] = Len(got[d])
    /\ shut' = shut \cup {d}
    /\ expected' = expected - 1
    /\ worker' = "closed"
    /\ UNCHANGED <<options, main, stream, read, routed, got, synced, loaded, mishap>>

\* A target that was ended has written out everything and emits 'close';
\* closeCb: the last one closes the worker.
CloseCb(d) ==
    /\ WorkerRuns({"closing"})
    /\ d \in Targets \ shut
    /\ synced[d] = Len(got[d])
    /\ shut' = shut \cup {d}
    /\ expected' = expected - 1
    /\ worker' = IF expected' = 0 THEN "closed" ELSE worker
    /\ UNCHANGED <<options, main, stream, read, routed, got, synced, loaded, mishap>>

-----------------------------------------------------------------------------
\* External: what may go wrong with a target.  One that emits 'error' takes the
\* worker with it; one that closes unasked does so only if it is the worker's
\* stream; one may be slow.
TargetFails ==
    /\ WorkerRuns({"loading", "serving", "closing"})
    /\ loaded # {}
    /\ worker' = "failed"
    /\ mishap' = TRUE
    /\ UNCHANGED <<options, main, stream, read, routed, got, synced, loaded, expected, shut>>

ClosesUnasked(d) ==
    /\ WorkerRuns({"loading", "serving"})
    /\ d \in loaded \ shut
    /\ shut' = shut \cup {d}
    /\ worker' = IF Direct THEN "closed" ELSE worker
    /\ mishap' = TRUE
    /\ UNCHANGED <<options, main, stream, read, routed, got, synced, loaded, expected>>

Slow ==
    /\ WorkerRuns({"loading", "serving", "closing"})
    /\ ~mishap
    /\ mishap' = TRUE
    /\ UNCHANGED <<options, main, stream, work>>

-----------------------------------------------------------------------------
Listener == AppListener \/ Hook \/ FlushReturns \/ EndReturns \/ FlushThrows \/ EndGivesUp \/ Leave

Worker == Read \/ Route \/ Close \/ \E d \in Target : LoadTarget(d)

Next ==
    \/ \E level \in LineLevels : Log(level)
    \/ AddListener \/ Ready \/ Closed \/ End \/ TellEnd \/ BeforeExit \/ Exit
    \/ Listener
    \/ Worker
    \/ \E d \in Target : Sync(d) \/ CloseCb(d) \/ LoadFails(d) \/ ClosesUnasked(d)
    \/ TargetFails \/ Slow

Spec == Init /\ [][Next]_vars

\* The worker and each target make progress whatever the main thread does, a
\* blocked main thread looks again every second and gives up in the end, and
\* nothing but its listeners runs in a process that is exiting.  The application
\* need not do anything.
Fairness ==
    /\ WF_vars(Listener) /\ WF_vars(TellEnd) /\ WF_vars(Worker)
    /\ \A d \in Target : WF_vars(Sync(d)) /\ WF_vars(CloseCb(d))

FairSpec == Spec /\ Fairness

-----------------------------------------------------------------------------
(* Properties *)

TypeOK ==
    /\ options \in Options
    /\ process \in {"running", "exiting", "gone"}
    /\ listeners \in Seq(Hooks \cup {"app"}) /\ pending \in Seq(Hooks \cup {"app"})
    /\ waiting \in {"no", "flush", "end"}
    /\ ready \in BOOLEAN /\ closed \in BOOLEAN
    /\ ending \in BOOLEAN /\ told \in BOOLEAN
    /\ accepted \in Seq(LineLevels)
    /\ read \in Nat /\ routed \in Nat
    /\ got \in [Target -> Seq(Nat)] /\ synced \in [Target -> Nat]
    /\ worker \in {"loading", "serving", "closing", "closed", "failed"}
    /\ loaded \subseteq Targets /\ shut \subseteq Targets
    /\ expected \in Nat
    /\ mishap \in BOOLEAN

\* While the stream is in use exactly one of the two exit listeners is in place,
\* through the change at 'ready', which may come before or after end(); none is
\* left once it closed, nor after ready with autoEnd false.
OneHook ==
    process = "running" =>
        Cardinality({i \in DOMAIN listeners : listeners[i] \in Hooks}) =
            IF closed \/ (ready /\ ~options.autoEnd) THEN 0 ELSE 1

\* The worker closes last: every target has closed, having written out all of
\* what was accepted and is for it, however their closes interleave.
ClosesLast ==
    worker = "closed" /\ ~mishap =>
        /\ shut = Targets
        /\ \A d \in Targets :
              synced[d] = Cardinality({i \in 1 .. Len(accepted) : d \in Receivers(accepted[i])})

\* The documentation's rule (docs/api.md:1386-1393, docs/transports.md:129-142):
\* nothing filters a single target or pipeline; with `targets` a line is for those
\* whose level it reaches, info if none is given, and with dedupe only for the
\* highest of them.
Documented(level) ==
    {d \in Targets : options.form = "targets" =>
        /\ level >= StreamLevel(d)
        /\ options.dedupe =>
              ~\E e \in Targets : level >= StreamLevel(e) /\ StreamLevel(e) > StreamLevel(d)}

\* What a line is for: of several targets those of the documentation, and a single
\* one, whichever option names it, if it has no level or one the line reaches, as
\* the comment in the worker has it (lib/worker.js:117-127).  The documentation says
\* otherwise of a single one: that a target of `targets` without a level has the
\* level info (docs/api.md:1386, docs/transports.md:142), and that nothing filters a
\* single pipeline (docs/api.md:1391-1392, docs/transports.md:140).
WantedBy(level) ==
    IF Cardinality(Targets) = 1
    THEN {d \in Targets : options.level[d] = Absent \/ level >= options.level[d]}
    ELSE Documented(level)

\* Nothing is owed if something went wrong, or if the application took the end
\* in its own hands and the first listener is gone.
D == INSTANCE Delivery WITH
        Dest <- Target,
        lines <- [i \in 1 .. Len(accepted) |-> WantedBy(accepted[i])],
        out <- [d \in Target |-> SubSeq(got[d], 1, synced[d])],
        over <- process = "gone",
        excused <- mishap \/ (ready /\ ~options.autoEnd)

\* The transport delivers what it accepted: to the targets a line is for, once, in
\* order, and all of it before the process is gone, wherever between the start of
\* the worker and its end the exit comes and whichever listener it meets.
Implements == D!Spec

DeliveredTo(d) == {got[d][n] : n \in 1 .. synced[d]}

\* "If logs are printed before the transport is ready when process.exit(0) is
\* called, they will be lost." (docs/transports.md:523-524); here with nothing that
\* goes wrong.
LostBeforeReady ==
    process = "gone" /\ ~ready /\ ~mishap => \A d \in Targets : DeliveredTo(d) = {}

\* A process that is exiting gets there, whatever happens in the worker.
ExitCompletes == process = "exiting" ~> process = "gone"

\* end() closes the worker, unless something goes wrong in it or the process is
\* gone first.
EndCompletes == ending ~> (worker = "closed" \/ mishap \/ process = "gone")
=============================================================================
