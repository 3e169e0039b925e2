--------------------------- MODULE TransportProofs ---------------------------
(***************************************************************************)
(* Proofs about Transport, for any targets, options, levels and number of  *)
(* lines: its type invariant, that exactly one exit listener is in place,  *)
(* that the worker closes last, and that it implements Delivery.           *)
(***************************************************************************)
EXTENDS Transport, SequenceLemmas, FiniteSetTheorems

-----------------------------------------------------------------------------
\* The inductive invariant.

For(d, i) == d \in Receivers(accepted[i])

\* How far the worker is, and what its targets and its counter then are.
WorkerOK ==
    /\ shut \subseteq loaded
    /\ worker \in {"serving", "closing"} => loaded = Targets
    /\ worker = "failed" => mishap
    /\ worker \in {"loading", "serving"} /\ ~mishap => shut = {}
    /\ worker = "closing" => told /\ routed = Len(accepted)
    /\ worker = "closed" /\ ~mishap => told /\ routed = Len(accepted) /\ shut = Targets

\* Every target that is still open is counted, and without a mishap no other.
CountOK ==
    worker = "closing" =>
        /\ expected >= Cardinality(Targets \ shut)
        /\ ~mishap => expected = Cardinality(Targets \ shut)

\* How far the lines are.
LinesOK ==
    /\ told => ending
    /\ routed =< read /\ read =< Len(accepted)
    /\ \A d \in Target : synced[d] =< Len(got[d])
    /\ ~mishap => \A d \in shut : synced[d] = Len(got[d])

\* A target was given exactly the lines that were routed and are for it, in
\* their order.
GotOK ==
    \A d \in Target :
        /\ \A k \in 1 .. Len(got[d]) : got[d][k] \in 1 .. routed /\ For(d, got[d][k])
        /\ \A k, m \in 1 .. Len(got[d]) : k < m => got[d][k] < got[d][m]
        /\ \A i \in 1 .. routed : For(d, i) => Contains(got[d], i)
        /\ Len(got[d]) = Cardinality({i \in 1 .. routed : For(d, i)})

NoHook == closed \/ (ready /\ ~options.autoEnd)

\* The one hook there is, if any, is the one of this stage.
HookOK ==
    IF NoHook
    THEN \A i \in 1 .. Len(listeners) : listeners[i] = "app"
    ELSE \E i \in 1 .. Len(listeners) :
            /\ listeners[i] = IF ready THEN "registry" ELSE "onExit"
            /\ \A j \in 1 .. Len(listeners) : j # i => listeners[j] = "app"

Excused == mishap \/ (ready /\ ~options.autoEnd)

\* The process does not get past its hook before the worker has closed.
ExitOK ==
    /\ closed => worker \in {"closed", "failed"}
    /\ process = "exiting" /\ waiting # "no" => pending # << >>
    /\ process = "exiting" /\ ~Excused =>
          worker = "closed" \/ \E k \in 1 .. Len(pending) : pending[k] \in Hooks

IInv == TypeOK /\ WorkerOK /\ CountOK /\ LinesOK /\ GotOK /\ HookOK /\ ExitOK

-----------------------------------------------------------------------------
\* Facts about the operators.

LEMMA TargetsFinite == TypeOK => Targets \subseteq Target /\ IsFiniteSet(Targets)
  <1> SUFFICES ASSUME TypeOK PROVE Targets \subseteq Target /\ IsFiniteSet(Targets)
    OBVIOUS
  <1>1. Targets \subseteq Target
    BY TransportAssumption DEF TypeOK, Targets
  <1> QED BY <1>1, TransportAssumption, FS_Subset

\* What is counted of the targets that are open, and how one close changes it.
LEMMA OpenTargets ==
    ASSUME TypeOK
    PROVE  /\ Cardinality(Targets) \in Nat
           /\ Cardinality(Targets \ shut) \in Nat
           /\ Cardinality(Targets \ shut) =< Cardinality(Targets)
           /\ Cardinality(Targets \ shut) = 0 => shut = Targets
           /\ \A d \in Targets \ shut :
                 Cardinality(Targets \ (shut \cup {d})) = Cardinality(Targets \ shut) - 1
  <1>1. IsFiniteSet(Targets) /\ IsFiniteSet(Targets \ shut)
    BY TargetsFinite, FS_Subset
  <1>2. /\ Cardinality(Targets) \in Nat /\ Cardinality(Targets \ shut) \in Nat
        /\ Cardinality(Targets \ shut) =< Cardinality(Targets)
    BY <1>1, FS_CardinalityType, FS_Subset
  <1>3. Cardinality(Targets \ shut) = 0 => shut = Targets
    BY <1>1, FS_EmptySet DEF TypeOK
  <1>4. ASSUME NEW d \in Targets \ shut
        PROVE  Cardinality(Targets \ (shut \cup {d})) = Cardinality(Targets \ shut) - 1
    <2>1. Targets \ (shut \cup {d}) = (Targets \ shut) \ {d}
      OBVIOUS
    <2> QED BY <1>1, <2>1, FS_RemoveElement
  <1> QED BY <1>2, <1>3, <1>4

\* A listener that is the only hook is taken out, and what stays is the
\* application's.
LEMMA OnlyHookRemoved ==
    ASSUME TypeOK, NEW e, NEW i \in 1 .. Len(listeners), listeners[i] = e, e # "app",
           \A j \in 1 .. Len(listeners) : j # i => listeners[j] = "app"
    PROVE  RemoveFirst(listeners, e) \in Seq({"app"})
  <1> DEFINE left == RemoveAt(listeners, i)
  <1>1. listeners \in Seq(Hooks \cup {"app"})
    BY DEF TypeOK
  <1>2. RemoveFirst(listeners, e) = left
    BY <1>1, RemoveFirstProperties
  <1>3. /\ left \in Seq(Hooks \cup {"app"})
        /\ Len(left) = Len(listeners) - 1
        /\ \A j \in 1 .. (Len(listeners) - 1) :
              left[j] = IF j < i THEN listeners[j] ELSE listeners[j + 1]
    BY <1>1, RemoveAtProperties
  <1> HIDE DEF left
  <1>4. \A j \in 1 .. Len(left) : left[j] = "app"
    BY <1>1, <1>3
  <1> QED BY <1>2, <1>3, <1>4

\* onReady and the 'close' listeners leave no other listener than the application's.
LEMMA HooksRemoved ==
    ASSUME TypeOK, HookOK, ~closed
    PROVE  /\ ~ready => RemoveFirst(listeners, "onExit") \in Seq({"app"})
           /\ RemoveFirst(RemoveFirst(listeners, "onExit"), "registry") \in Seq({"app"})
  <1>1. listeners \in Seq(Hooks \cup {"app"})
    BY DEF TypeOK
  <1>2. ASSUME NEW es \in Seq({"app"}), NEW e, e # "app" PROVE RemoveFirst(es, e) = es
    BY <1>2, RemoveFirstProperties
  <1>3. CASE NoHook
    <2>1. listeners \in Seq({"app"}) /\ ready
      BY <1>1, <1>3 DEF HookOK, NoHook
    <2> QED BY <1>2, <2>1
  <1>4. CASE ~NoHook
    <2>1. PICK i \in 1 .. Len(listeners) :
            /\ listeners[i] = IF ready THEN "registry" ELSE "onExit"
            /\ \A j \in 1 .. Len(listeners) : j # i => listeners[j] = "app"
      BY <1>4 DEF HookOK
    <2>2. CASE ready
      <3>1. RemoveFirst(listeners, "onExit") = listeners
        BY <1>1, <2>1, <2>2, RemoveFirstProperties
      <3>2. RemoveFirst(listeners, "registry") \in Seq({"app"})
        BY <2>1, <2>2, OnlyHookRemoved
      <3> QED BY <2>2, <3>1, <3>2
    <2>3. CASE ~ready
      <3>1. RemoveFirst(listeners, "onExit") \in Seq({"app"})
        BY <2>1, <2>3, OnlyHookRemoved
      <3> QED BY <1>2, <3>1
    <2> QED BY <2>2, <2>3
  <1> QED BY <1>3, <1>4

\* As long as a hook is needed one is in place.
LEMMA HookHolds ==
    ASSUME HookOK, ~NoHook
    PROVE  \E i \in 1 .. Len(listeners) : listeners[i] \in Hooks
  BY DEF HookOK, Hooks

-----------------------------------------------------------------------------
\* Every step preserves the parts of the invariant.

LEMMA TypeStep == IInv /\ [Next]_vars => TypeOK'
  <1> SUFFICES ASSUME IInv, [Next]_vars PROVE TypeOK'
    OBVIOUS
  <1>1. ASSUME NEW level \in LineLevels, Log(level) PROVE TypeOK'
    BY <1>1 DEF IInv, TypeOK, main, stream, work, Hooks, Targets, Log, Accept, MainRuns
  <1>2. ASSUME AddListener PROVE TypeOK'
    BY <1>2 DEF IInv, TypeOK, main, stream, work, Hooks, Targets, AddListener, MainRuns
  <1>3. ASSUME Ready PROVE TypeOK'
    <2>1. RemoveFirst(listeners, "onExit") \in Seq({"app"})
      BY <1>3, HooksRemoved DEF IInv, Ready
    <2>2. RemoveFirst(listeners, "onExit") \in Seq(Hooks \cup {"app"})
      BY <2>1
    <2> DEFINE left == RemoveFirst(listeners, "onExit")
               more == IF options.autoEnd THEN <<"registry">> ELSE << >>
    <2>3. more \in Seq(Hooks \cup {"app"})
      <3>1. <<"registry">> \in Seq(Hooks \cup {"app"}) /\ << >> \in Seq(Hooks \cup {"app"})
        BY DEF Hooks
      <3> QED BY <3>1, Zenon
    <2> HIDE DEF left, more
    <2>4. left \o more \in Seq(Hooks \cup {"app"})
      BY <2>2, <2>3, ConcatProperties, Zenon DEF left
    <2>5. listeners' \in Seq(Hooks \cup {"app"})
      BY <1>3, <2>4 DEF Ready, left, more
    <2> QED BY <1>3, <2>5 DEF IInv, TypeOK, main, stream, work, Hooks, Targets, Ready, MainRuns
  <1>4. ASSUME Closed PROVE TypeOK'
    <2>1. listeners' \in Seq(Hooks \cup {"app"})
      BY <1>4, HooksRemoved DEF IInv, Closed
    <2> QED BY <1>4, <2>1 DEF IInv, TypeOK, main, stream, work, Hooks, Targets, Closed, MainRuns
  <1>5. ASSUME End PROVE TypeOK'
    BY <1>5 DEF IInv, TypeOK, main, stream, work, Hooks, Targets, End, MainRuns
  <1>6. ASSUME TellEnd PROVE TypeOK'
    BY <1>6 DEF IInv, TypeOK, main, stream, work, Hooks, Targets, TellEnd, MainRuns
  <1>7. ASSUME BeforeExit PROVE TypeOK'
    BY <1>7 DEF IInv, TypeOK, main, stream, work, Hooks, Targets, BeforeExit, MainRuns
  <1>8. ASSUME Exit PROVE TypeOK'
    BY <1>8 DEF IInv, TypeOK, main, stream, work, Hooks, Targets, Exit, MainRuns
  <1>9. ASSUME AppListener PROVE TypeOK'
    <2>1. pending' = pending \/ (pending # << >> /\ pending' = Tail(pending))
      BY <1>9 DEF IInv, TypeOK, ExitOK, Listening, AppListener
    <2>2. pending' \in Seq(Hooks \cup {"app"})
      BY <2>1, HeadTailProperties DEF IInv, TypeOK
    <2>3. ending' = ending /\ told' = told /\ accepted' \in Seq(LineLevels)
      <3>1. CASE UNCHANGED stream
        BY <3>1 DEF IInv, TypeOK, stream
      <3>2. ASSUME NEW level \in LineLevels, Accept(level)
            PROVE  ending' = ending /\ told' = told /\ accepted' \in Seq(LineLevels)
        BY <3>2 DEF IInv, TypeOK, Accept
      <3> QED BY <1>9, <3>1, <3>2 DEF AppListener
    <2> QED BY <1>9, <2>2, <2>3
            DEF IInv, TypeOK, main, stream, work, Hooks, Targets, AppListener, Accept, Listening
  <1>10. ASSUME Hook PROVE TypeOK'
    <2>1. pending' = pending \/ (pending # << >> /\ pending' = Tail(pending))
      <3>1. pending' = pending \/ pending' = Tail(pending)
        BY <1>10, Zenon DEF Hook
      <3>2. pending # << >>
        BY <1>10 DEF Listening, Hook
      <3> QED BY <3>1, <3>2, Zenon
    <2>2. pending' \in Seq(Hooks \cup {"app"})
      BY <2>1, HeadTailProperties DEF IInv, TypeOK
    <2> QED BY <1>10, <2>2 DEF IInv, TypeOK, main, stream, work, Hooks, Targets, Hook, Listening
  <1>11. ASSUME FlushReturns PROVE TypeOK'
    BY <1>11 DEF IInv, TypeOK, main, stream, work, Hooks, Targets, FlushReturns
  <1>12. ASSUME EndReturns PROVE TypeOK'
    <2>1. pending' = pending \/ (pending # << >> /\ pending' = Tail(pending))
      <3>1. pending' = IF process = "exiting" THEN Tail(pending) ELSE pending
        BY <1>12 DEF EndReturns
      <3>2. process = "exiting" => pending # << >>
        BY <1>12 DEF IInv, ExitOK, EndReturns
      <3>3. CASE process = "exiting"
        BY <3>1, <3>2, <3>3, Zenon
      <3>4. CASE process # "exiting"
        BY <3>1, <3>4, Zenon
      <3> QED BY <3>3, <3>4
    <2>2. pending' \in Seq(Hooks \cup {"app"})
      BY <2>1, HeadTailProperties DEF IInv, TypeOK
    <2> QED BY <1>12, <2>2 DEF IInv, TypeOK, main, stream, work, Hooks, Targets, EndReturns
  <1>13. ASSUME FlushThrows PROVE TypeOK'
    BY <1>13 DEF IInv, TypeOK, main, stream, work, Hooks, Targets, FlushThrows
  <1>14. ASSUME EndGivesUp PROVE TypeOK'
    <2>1. pending' = pending \/ (pending # << >> /\ pending' = Tail(pending))
      <3>1. pending' = IF process = "exiting" THEN Tail(pending) ELSE pending
        BY <1>14 DEF EndGivesUp
      <3>2. process = "exiting" => pending # << >>
        BY <1>14 DEF IInv, ExitOK, EndGivesUp
      <3>3. CASE process = "exiting"
        BY <3>1, <3>2, <3>3, Zenon
      <3>4. CASE process # "exiting"
        BY <3>1, <3>4, Zenon
      <3> QED BY <3>3, <3>4
    <2>2. pending' \in Seq(Hooks \cup {"app"})
      BY <2>1, HeadTailProperties DEF IInv, TypeOK
    <2> QED BY <1>14, <2>2 DEF IInv, TypeOK, main, stream, work, Hooks, Targets, EndGivesUp
  <1>15. ASSUME Leave PROVE TypeOK'
    BY <1>15 DEF IInv, TypeOK, main, stream, work, Hooks, Targets, Leave
  <1>16. ASSUME Read PROVE TypeOK'
    BY <1>16 DEF IInv, TypeOK, main, stream, work, Hooks, Targets, Read, WorkerRuns
  <1>17. ASSUME Route PROVE TypeOK'
    BY <1>17 DEF IInv, TypeOK, main, stream, work, Hooks, Targets, Route, WorkerRuns
  <1>18. ASSUME Close PROVE TypeOK'
    BY <1>18, OpenTargets
       DEF IInv, TypeOK, main, stream, work, Hooks, Targets, Close, WorkerRuns
  <1>19. ASSUME NEW d \in Target, LoadTarget(d) PROVE TypeOK'
    BY <1>19 DEF IInv, TypeOK, main, stream, work, Hooks, Targets, LoadTarget, Loads, WorkerRuns
  <1>20. ASSUME NEW d \in Target, Sync(d) PROVE TypeOK'
    BY <1>20 DEF IInv, TypeOK, main, stream, work, Hooks, Targets, Sync, WorkerRuns
  <1>21. ASSUME NEW d \in Target, CloseCb(d) PROVE TypeOK'
    <2>1. worker = "closing" /\ d \in Targets \ shut
      BY <1>21 DEF CloseCb, WorkerRuns
    <2>2. Cardinality(Targets \ shut) \in Nat /\ Cardinality(Targets \ (shut \cup {d})) \in Nat
      BY <2>1, TargetsFinite, FS_Subset, FS_CardinalityType DEF IInv
    <2>3. expected' \in Nat
      BY <1>21, <2>1, <2>2, OpenTargets DEF IInv, TypeOK, CountOK, CloseCb
    <2> QED BY <1>21, <2>3 DEF IInv, TypeOK, main, stream, work, Hooks, Targets, CloseCb, WorkerRuns
  <1>22. ASSUME NEW d \in Target, LoadFails(d) PROVE TypeOK'
    BY <1>22 DEF IInv, TypeOK, main, stream, work, Hooks, Targets, LoadFails, Loads, WorkerRuns
  <1>23. ASSUME NEW d \in Target, ClosesUnasked(d) PROVE TypeOK'
    BY <1>23 DEF IInv, TypeOK, main, stream, work, Hooks, Targets, ClosesUnasked, WorkerRuns
  <1>24. ASSUME TargetFails PROVE TypeOK'
    BY <1>24 DEF IInv, TypeOK, main, stream, work, Hooks, Targets, TargetFails, WorkerRuns
  <1>25. ASSUME Slow PROVE TypeOK'
    BY <1>25 DEF IInv, TypeOK, main, stream, work, Hooks, Targets, Slow, WorkerRuns
  <1>26. CASE UNCHANGED vars
    BY <1>26 DEF IInv, TypeOK, vars, main, stream, work, Targets
  <1> QED BY <1>1, <1>2, <1>3, <1>4, <1>5, <1>6, <1>7, <1>8, <1>9, <1>10, <1>11, <1>12, <1>13,
            <1>14, <1>15, <1>16, <1>17, <1>18, <1>19, <1>20, <1>21, <1>22, <1>23, <1>24, <1>25, <1>26
            DEF Next, Listener, Worker

\* How far the worker is.
LEMMA WorkerStep == IInv /\ [Next]_vars => WorkerOK'
  <1> SUFFICES ASSUME IInv, [Next]_vars PROVE WorkerOK'
    OBVIOUS
  <1>1. ASSUME UNCHANGED <<options, told, accepted, routed, worker, loaded, shut, mishap>>
         PROVE  WorkerOK'
    BY <1>1 DEF IInv, TypeOK, WorkerOK, LinesOK, Targets
  <1>2. ASSUME NEW level \in LineLevels, Log(level) PROVE WorkerOK'
    BY <1>2
       DEF IInv, TypeOK, WorkerOK, LinesOK, Targets, main, stream, work, Log, Accept,
           MainRuns
  <1>3. ASSUME TellEnd PROVE WorkerOK'
    BY <1>3 DEF IInv, TypeOK, WorkerOK, LinesOK, Targets, main, stream, work, TellEnd, MainRuns
  <1>4. ASSUME AppListener PROVE WorkerOK'
    BY <1>4
       DEF IInv, TypeOK, WorkerOK, LinesOK, Targets, main, stream, work, AppListener,
           Accept, Listening
  <1>5. ASSUME FlushReturns PROVE WorkerOK'
    BY <1>5 DEF IInv, TypeOK, WorkerOK, LinesOK, Targets, main, stream, work, FlushReturns
  <1>6. ASSUME EndGivesUp PROVE WorkerOK'
    BY <1>6 DEF IInv, TypeOK, WorkerOK, LinesOK, Targets, main, stream, work, EndGivesUp
  <1>7. ASSUME Route PROVE WorkerOK'
    BY <1>7 DEF IInv, TypeOK, WorkerOK, LinesOK, Targets, main, stream, work, Route, WorkerRuns
  <1>8. ASSUME Close PROVE WorkerOK'
    BY <1>8 DEF IInv, TypeOK, WorkerOK, LinesOK, Targets, main, stream, work, Close, WorkerRuns
  <1>9. ASSUME NEW d \in Target, LoadTarget(d) PROVE WorkerOK'
    BY <1>9
       DEF IInv, TypeOK, WorkerOK, LinesOK, Targets, main, stream, work, LoadTarget, Loads,
           WorkerRuns
  <1>10. ASSUME NEW d \in Target, CloseCb(d) PROVE WorkerOK'
    <2>1. /\ worker = "closing" /\ loaded = Targets /\ d \in Targets \ shut
          /\ ~mishap => expected = Cardinality(Targets \ shut)
      BY <1>10 DEF IInv, WorkerOK, CountOK, CloseCb, WorkerRuns
    <2>2. /\ shut' = shut \cup {d} /\ expected' = expected - 1
          /\ worker' = IF expected' = 0 THEN "closed" ELSE worker
      BY <1>10 DEF CloseCb
    <2>3. ~mishap /\ worker' = "closed" => shut' = Targets
      <3> SUFFICES ASSUME ~mishap, worker' = "closed" PROVE Cardinality(Targets \ shut') = 0
        <4>1. IsFiniteSet(Targets \ shut') /\ shut' \subseteq Targets
          BY <2>1, <2>2, TargetsFinite, FS_Subset DEF IInv, TypeOK
        <4> QED BY <4>1, FS_EmptySet
      <3> QED BY <2>1, <2>2, OpenTargets DEF IInv
    <2> QED BY <1>10, <2>1, <2>2, <2>3
            DEF IInv, TypeOK, WorkerOK, LinesOK, Targets, main, stream, work, CloseCb, WorkerRuns
  <1>11. ASSUME NEW d \in Target, LoadFails(d) PROVE WorkerOK'
    BY <1>11
       DEF IInv, TypeOK, WorkerOK, LinesOK, Targets, main, stream, work, LoadFails, Loads,
           WorkerRuns
  <1>12. ASSUME NEW d \in Target, ClosesUnasked(d) PROVE WorkerOK'
    BY <1>12
       DEF IInv, TypeOK, WorkerOK, LinesOK, Targets, main, stream, work, ClosesUnasked,
           WorkerRuns
  <1>13. ASSUME TargetFails PROVE WorkerOK'
    BY <1>13
       DEF IInv, TypeOK, WorkerOK, LinesOK, Targets, main, stream, work, TargetFails,
           WorkerRuns
  <1>14. ASSUME Slow PROVE WorkerOK'
    BY <1>14 DEF IInv, TypeOK, WorkerOK, LinesOK, Targets, main, stream, work, Slow, WorkerRuns
  <1>15. ASSUME AddListener \/ Ready \/ Closed \/ End \/ BeforeExit \/ Exit \/ Hook \/
                EndReturns \/ FlushThrows \/ Leave \/ Read \/
                (\E d \in Target : Sync(d))
         PROVE  WorkerOK'
    BY <1>15, <1>1 DEF AddListener, Ready, Closed, End, BeforeExit, Exit, Hook, EndReturns,
           FlushThrows, Leave, Read, Sync, main, stream, work
  <1>16. CASE UNCHANGED vars
    BY <1>16, <1>1 DEF vars, main, stream, work
  <1> QED BY <1>2, <1>3, <1>4, <1>5, <1>6, <1>7, <1>8, <1>9, <1>10, <1>11, <1>12, <1>13, <1>14,
            <1>15, <1>16 DEF Next, Listener, Worker

\* How far the lines are.
LEMMA LinesStep == IInv /\ [Next]_vars => LinesOK'
  <1> SUFFICES ASSUME IInv, [Next]_vars PROVE LinesOK'
    OBVIOUS
  <1>1. ASSUME UNCHANGED <<options, ending, told, accepted, read, routed, got, synced, shut, mishap>>
         PROVE  LinesOK'
    BY <1>1 DEF IInv, TypeOK, WorkerOK, LinesOK, Targets
  <1>2. ASSUME NEW level \in LineLevels, Log(level) PROVE LinesOK'
    BY <1>2
       DEF IInv, TypeOK, WorkerOK, LinesOK, Targets, main, stream, work, Log, Accept,
           MainRuns
  <1>3. ASSUME End PROVE LinesOK'
    BY <1>3 DEF IInv, TypeOK, WorkerOK, LinesOK, Targets, main, stream, work, End, MainRuns
  <1>4. ASSUME TellEnd PROVE LinesOK'
    BY <1>4 DEF IInv, TypeOK, WorkerOK, LinesOK, Targets, main, stream, work, TellEnd, MainRuns
  <1>5. ASSUME AppListener PROVE LinesOK'
    BY <1>5
       DEF IInv, TypeOK, WorkerOK, LinesOK, Targets, main, stream, work, AppListener,
           Accept, Listening
  <1>6. ASSUME FlushReturns PROVE LinesOK'
    BY <1>6 DEF IInv, TypeOK, WorkerOK, LinesOK, Targets, main, stream, work, FlushReturns
  <1>7. ASSUME Read PROVE LinesOK'
    BY <1>7 DEF IInv, TypeOK, WorkerOK, LinesOK, Targets, main, stream, work, Read, WorkerRuns
  <1>8. ASSUME Route PROVE LinesOK'
    BY <1>8 DEF IInv, TypeOK, WorkerOK, LinesOK, Targets, main, stream, work, Route, WorkerRuns
  <1>9. ASSUME NEW d \in Target, Sync(d) PROVE LinesOK'
    BY <1>9 DEF IInv, TypeOK, WorkerOK, LinesOK, Targets, main, stream, work, Sync, WorkerRuns
  <1>10. ASSUME NEW d \in Target, CloseCb(d) PROVE LinesOK'
    BY <1>10
       DEF IInv, TypeOK, WorkerOK, LinesOK, Targets, main, stream, work, CloseCb, WorkerRuns
  <1>11. ASSUME NEW d \in Target, LoadFails(d) PROVE LinesOK'
    BY <1>11
       DEF IInv, TypeOK, WorkerOK, LinesOK, Targets, main, stream, work, LoadFails, Loads,
           WorkerRuns
  <1>12. ASSUME NEW d \in Target, ClosesUnasked(d) PROVE LinesOK'
    BY <1>12
       DEF IInv, TypeOK, WorkerOK, LinesOK, Targets, main, stream, work, ClosesUnasked,
           WorkerRuns
  <1>13. ASSUME TargetFails PROVE LinesOK'
    BY <1>13
       DEF IInv, TypeOK, WorkerOK, LinesOK, Targets, main, stream, work, TargetFails,
           WorkerRuns
  <1>14. ASSUME Slow PROVE LinesOK'
    BY <1>14 DEF IInv, TypeOK, WorkerOK, LinesOK, Targets, main, stream, work, Slow, WorkerRuns
  <1>15. ASSUME AddListener \/ Ready \/ Closed \/ BeforeExit \/ Exit \/ Hook \/
                EndReturns \/ FlushThrows \/ EndGivesUp \/ Leave \/ Close \/
                (\E d \in Target : LoadTarget(d))
         PROVE  LinesOK'
    BY <1>15, <1>1 DEF AddListener, Ready, Closed, BeforeExit, Exit, Hook, EndReturns,
           FlushThrows, EndGivesUp, Leave, Close, LoadTarget, main, stream, work
  <1>16. CASE UNCHANGED vars
    BY <1>16, <1>1 DEF vars, main, stream, work
  <1> QED BY <1>2, <1>3, <1>4, <1>5, <1>6, <1>7, <1>8, <1>9, <1>10, <1>11, <1>12, <1>13, <1>14,
            <1>15, <1>16 DEF Next, Listener, Worker

\* No step gets past the hook.
LEMMA ExitStep == IInv /\ [Next]_vars => ExitOK'
  <1> SUFFICES ASSUME IInv, [Next]_vars PROVE ExitOK'
    OBVIOUS
  <1>1. ASSUME UNCHANGED <<options, process, pending, waiting, ready, closed, worker, mishap>>
         PROVE  ExitOK'
    BY <1>1 DEF IInv, TypeOK, WorkerOK, ExitOK, Excused
  <1>2. ASSUME Ready PROVE ExitOK'
    BY <1>2 DEF IInv, TypeOK, WorkerOK, ExitOK, Excused, main, stream, work, Ready, MainRuns
  <1>3. ASSUME Closed PROVE ExitOK'
    BY <1>3 DEF IInv, TypeOK, WorkerOK, ExitOK, Excused, main, stream, work, Closed, MainRuns
  <1>4. ASSUME TellEnd PROVE ExitOK'
    BY <1>4 DEF IInv, TypeOK, WorkerOK, ExitOK, Excused, main, stream, work, TellEnd, MainRuns
  <1>5. ASSUME BeforeExit PROVE ExitOK'
    BY <1>5
       DEF IInv, TypeOK, WorkerOK, ExitOK, Excused, main, stream, work, BeforeExit, MainRuns
  <1>6. ASSUME Exit PROVE ExitOK'
    <2>1. /\ pending' = listeners /\ waiting' = "no"
          /\ UNCHANGED <<ready, closed, worker, mishap, options>>
      BY <1>6 DEF Exit, MainRuns, main, work
    <2>2. ~Excused /\ ~closed => \E k \in 1 .. Len(listeners) : listeners[k] \in Hooks
      BY HookHolds DEF IInv, Excused, NoHook
    <2> QED BY <2>1, <2>2 DEF IInv, WorkerOK, ExitOK, Excused
  <1>7. ASSUME AppListener PROVE ExitOK'
    <2>1. /\ pending \in Seq(Hooks \cup {"app"}) /\ pending # << >> /\ pending[1] = "app"
          /\ pending' = Tail(pending)
      BY <1>7 DEF IInv, TypeOK, AppListener, Listening
    <2>2. ASSUME NEW k \in 1 .. Len(pending), pending[k] \in Hooks
          PROVE  \E m \in 1 .. Len(pending') : pending'[m] \in Hooks
      <3>1. k # 1
        BY <2>1, <2>2 DEF Hooks
      <3>2. k - 1 \in 1 .. Len(pending') /\ pending'[k - 1] = pending[k]
        BY <2>1, <3>1
      <3> QED BY <2>2, <3>2
    <2> QED BY <1>7, <2>2
            DEF IInv, TypeOK, WorkerOK, ExitOK, Excused, main, stream, work, AppListener, Accept, Listening
  <1>8. ASSUME Hook PROVE ExitOK'
    BY <1>8 DEF IInv, TypeOK, WorkerOK, ExitOK, Excused, main, stream, work, Hook, Listening
  <1>9. ASSUME FlushReturns PROVE ExitOK'
    BY <1>9 DEF IInv, TypeOK, WorkerOK, ExitOK, Excused, main, stream, work, FlushReturns
  <1>10. ASSUME EndReturns PROVE ExitOK'
    BY <1>10 DEF IInv, TypeOK, WorkerOK, ExitOK, Excused, main, stream, work, EndReturns
  <1>11. ASSUME FlushThrows PROVE ExitOK'
    BY <1>11 DEF IInv, TypeOK, WorkerOK, ExitOK, Excused, main, stream, work, FlushThrows
  <1>12. ASSUME EndGivesUp PROVE ExitOK'
    BY <1>12 DEF IInv, TypeOK, WorkerOK, ExitOK, Excused, main, stream, work, EndGivesUp
  <1>13. ASSUME Leave PROVE ExitOK'
    BY <1>13 DEF IInv, TypeOK, WorkerOK, ExitOK, Excused, main, stream, work, Leave
  <1>14. ASSUME Close PROVE ExitOK'
    BY <1>14 DEF IInv, TypeOK, WorkerOK, ExitOK, Excused, main, stream, work, Close, WorkerRuns
  <1>15. ASSUME NEW d \in Target, LoadTarget(d) PROVE ExitOK'
    BY <1>15
       DEF IInv, TypeOK, WorkerOK, ExitOK, Excused, main, stream, work, LoadTarget, Loads,
           WorkerRuns
  <1>16. ASSUME NEW d \in Target, CloseCb(d) PROVE ExitOK'
    BY <1>16
       DEF IInv, TypeOK, WorkerOK, ExitOK, Excused, main, stream, work, CloseCb, WorkerRuns
  <1>17. ASSUME NEW d \in Target, LoadFails(d) PROVE ExitOK'
    BY <1>17
       DEF IInv, TypeOK, WorkerOK, ExitOK, Excused, main, stream, work, LoadFails, Loads,
           WorkerRuns
  <1>18. ASSUME NEW d \in Target, ClosesUnasked(d) PROVE ExitOK'
    BY <1>18
       DEF IInv, TypeOK, WorkerOK, ExitOK, Excused, main, stream, work, ClosesUnasked,
           WorkerRuns
  <1>19. ASSUME TargetFails PROVE ExitOK'
    BY <1>19
       DEF IInv, TypeOK, WorkerOK, ExitOK, Excused, main, stream, work, TargetFails,
           WorkerRuns
  <1>20. ASSUME Slow PROVE ExitOK'
    BY <1>20 DEF IInv, TypeOK, WorkerOK, ExitOK, Excused, main, stream, work, Slow, WorkerRuns
  <1>21. ASSUME (\E level \in LineLevels : Log(level)) \/ AddListener \/ End \/
                Read \/ Route \/ (\E d \in Target : Sync(d))
         PROVE  ExitOK'
    BY <1>21, <1>1 DEF Log, AddListener, End, Read, Route, Sync, main, stream, work
  <1>22. CASE UNCHANGED vars
    BY <1>22, <1>1 DEF vars, main, stream, work
  <1> QED BY <1>2, <1>3, <1>4, <1>5, <1>6, <1>7, <1>8, <1>9, <1>10, <1>11, <1>12, <1>13, <1>14,
            <1>15, <1>16, <1>17, <1>18, <1>19, <1>20, <1>21, <1>22 DEF Next, Listener, Worker

\* What close() still waits for.
LEMMA CountStep == IInv /\ [Next]_vars => CountOK'
  <1> SUFFICES ASSUME IInv, [Next]_vars PROVE CountOK'
    OBVIOUS
  <1>1. ASSUME UNCHANGED <<options, worker, expected, shut, mishap>>
         PROVE CountOK'
    BY <1>1 DEF IInv, TypeOK, CountOK, Targets
  <1>2. ASSUME EndGivesUp PROVE CountOK'
    BY <1>2 DEF IInv, TypeOK, CountOK, Targets, main, stream, work, EndGivesUp
  <1>3. ASSUME Close PROVE CountOK'
    <2>1. expected' = Cardinality(Targets) /\ UNCHANGED <<options, shut, mishap>>
      BY <1>3 DEF Close, work
    <2>2. ~mishap => shut = {}
      BY <1>3 DEF IInv, WorkerOK, Close, WorkerRuns
    <2>3. Targets' = Targets /\ (shut = {} => Targets \ shut = Targets)
      BY <2>1 DEF Targets
    <2> QED BY <2>1, <2>2, <2>3, OpenTargets DEF IInv, CountOK
  <1>4. ASSUME NEW d \in Target, LoadTarget(d) PROVE CountOK'
    BY <1>4
       DEF IInv, TypeOK, CountOK, Targets, main, stream, work, LoadTarget, Loads, WorkerRuns
  <1>5. ASSUME NEW d \in Target, CloseCb(d) PROVE CountOK'
    <2>1. /\ worker = "closing" /\ d \in Targets \ shut
          /\ shut' = shut \cup {d} /\ expected' = expected - 1
          /\ UNCHANGED <<options, mishap>>
      BY <1>5 DEF CloseCb, WorkerRuns
    <2>2. Targets' = Targets
      BY <2>1 DEF Targets
    <2>3. Targets' \ shut' = Targets \ (shut \cup {d})
      BY <2>1, <2>2
    <2>4. /\ Cardinality(Targets \ (shut \cup {d})) = Cardinality(Targets \ shut) - 1
          /\ Cardinality(Targets \ shut) \in Nat
      BY <2>1, OpenTargets DEF IInv
    <2>5. expected \in Nat /\ expected >= Cardinality(Targets \ shut)
          /\ (~mishap => expected = Cardinality(Targets \ shut))
      BY <2>1 DEF IInv, TypeOK, CountOK
    <2> QED BY <2>1, <2>3, <2>4, <2>5 DEF CountOK
  <1>6. ASSUME NEW d \in Target, LoadFails(d) PROVE CountOK'
    BY <1>6 DEF IInv, TypeOK, CountOK, Targets, main, stream, work, LoadFails, Loads, WorkerRuns
  <1>7. ASSUME NEW d \in Target, ClosesUnasked(d) PROVE CountOK'
    BY <1>7 DEF IInv, TypeOK, CountOK, Targets, main, stream, work, ClosesUnasked, WorkerRuns
  <1>8. ASSUME TargetFails PROVE CountOK'
    BY <1>8 DEF IInv, TypeOK, CountOK, Targets, main, stream, work, TargetFails, WorkerRuns
  <1>9. ASSUME Slow PROVE CountOK'
    BY <1>9 DEF IInv, TypeOK, CountOK, Targets, main, stream, work, Slow, WorkerRuns
  <1>10. ASSUME (\E level \in LineLevels : Log(level)) \/ AddListener \/ Ready \/
                Closed \/ End \/ TellEnd \/ BeforeExit \/ Exit \/ AppListener \/ Hook
                \/ FlushReturns \/ EndReturns \/ FlushThrows \/ Leave \/ Read \/ Route
                \/ (\E d \in Target : Sync(d))
         PROVE  CountOK'
    BY <1>10, <1>1 DEF Log, AddListener, Ready, Closed, End, TellEnd, BeforeExit, Exit,
           AppListener, Hook, FlushReturns, EndReturns, FlushThrows, Leave, Read,
           Route, Sync, main, stream, work
  <1>11. CASE UNCHANGED vars
    BY <1>11, <1>1 DEF vars, main, stream, work
  <1> QED BY <1>2, <1>3, <1>4, <1>5, <1>6, <1>7, <1>8, <1>9, <1>10, <1>11
            DEF Next, Listener, Worker

\* One hook, or none.
LEMMA HookStep == IInv /\ [Next]_vars => HookOK'
  <1> SUFFICES ASSUME IInv, [Next]_vars PROVE HookOK'
    OBVIOUS
  <1>1. ASSUME UNCHANGED <<options, listeners, ready, closed>>
         PROVE HookOK'
    BY <1>1 DEF IInv, TypeOK, HookOK, NoHook
  <1>2. ASSUME AddListener PROVE HookOK'
    <2>1. listeners' = Append(listeners, "app") /\ NoHook' = NoHook /\ ready' = ready
      BY <1>2 DEF AddListener, NoHook
    <2>2. /\ Len(listeners') = Len(listeners) + 1 /\ listeners'[Len(listeners) + 1] = "app"
          /\ \A j \in 1 .. Len(listeners) : listeners'[j] = listeners[j]
          /\ Len(listeners) \in Nat
      BY <2>1, AppendProperties DEF IInv, TypeOK
    <2>3. CASE NoHook
      BY <2>1, <2>2, <2>3 DEF IInv, HookOK
    <2>4. CASE ~NoHook
      <3>1. PICK i \in 1 .. Len(listeners) :
              /\ listeners[i] = IF ready THEN "registry" ELSE "onExit"
              /\ \A j \in 1 .. Len(listeners) : j # i => listeners[j] = "app"
        BY <2>4 DEF IInv, HookOK
      <3>2. /\ i \in 1 .. Len(listeners')
            /\ listeners'[i] = IF ready' THEN "registry" ELSE "onExit"
            /\ \A j \in 1 .. Len(listeners') : j # i => listeners'[j] = "app"
        BY <2>1, <2>2, <3>1
      <3> QED BY <2>1, <2>4, <3>2 DEF HookOK
    <2> QED BY <2>3, <2>4
  <1>3. ASSUME Ready PROVE HookOK'
    <2> DEFINE left == RemoveFirst(listeners, "onExit")
               more == IF options.autoEnd THEN <<"registry">> ELSE << >>
    <2>1. left \in Seq({"app"})
      BY <1>3, HooksRemoved DEF IInv, Ready
    <2>2. /\ ready' /\ ~closed' /\ options' = options
          /\ listeners' = left \o more
      BY <1>3 DEF Ready
    <2> HIDE DEF left
    <2>3. CASE options.autoEnd
      <3>1. listeners' = Append(left, "registry")
        BY <2>1, <2>2, <2>3
      <3>2. /\ Len(listeners') = Len(left) + 1 /\ listeners'[Len(left) + 1] = "registry"
            /\ \A j \in 1 .. Len(left) : listeners'[j] = "app"
            /\ Len(left) \in Nat
        BY <2>1, <3>1
      <3>3. ~NoHook'
        BY <2>2, <2>3 DEF NoHook
      <3> QED BY <2>2, <3>2, <3>3 DEF HookOK
    <2>4. CASE ~options.autoEnd
      <3>1. listeners' = left
        BY <2>1, <2>2, <2>4
      <3>2. NoHook'
        BY <2>2, <2>4 DEF NoHook
      <3> QED BY <2>1, <3>1, <3>2 DEF HookOK
    <2> QED BY <2>3, <2>4
  <1>4. ASSUME Closed PROVE HookOK'
    <2>1. listeners' \in Seq({"app"}) /\ closed'
      BY <1>4, HooksRemoved DEF IInv, Closed
    <2> QED BY <2>1 DEF HookOK, NoHook
  <1>5. ASSUME (\E level \in LineLevels : Log(level)) \/ End \/ TellEnd \/
                BeforeExit \/ Exit \/ AppListener \/ Hook \/ FlushReturns \/
                EndReturns \/ FlushThrows \/ EndGivesUp \/ Leave \/ Read \/ Route \/
                Close \/ (\E d \in Target : LoadTarget(d)) \/
                (\E d \in Target : Sync(d)) \/
                (\E d \in Target : CloseCb(d)) \/
                (\E d \in Target : LoadFails(d)) \/
                (\E d \in Target : ClosesUnasked(d)) \/ TargetFails \/ Slow
         PROVE  HookOK'
    BY <1>5, <1>1 DEF Log, End, TellEnd, BeforeExit, Exit, AppListener, Hook, FlushReturns,
           EndReturns, FlushThrows, EndGivesUp, Leave, Read, Route, Close,
           LoadTarget, Sync, CloseCb, LoadFails, ClosesUnasked, TargetFails,
           Slow, main, stream, work
  <1>6. CASE UNCHANGED vars
    BY <1>6, <1>1 DEF vars, main, stream, work
  <1> QED BY <1>2, <1>3, <1>4, <1>5, <1>6 DEF Next, Listener, Worker

\* Which lines are for a target does not change once they are accepted.
LEMMA ForStays ==
    ASSUME UNCHANGED options, NEW d, NEW i, accepted'[i] = accepted[i]
    PROVE  For(d, i)' <=> For(d, i)
  BY DEF For, Receivers, Direct, StreamLevel, Targets

LEMMA GotStays ==
    ASSUME GotOK, UNCHANGED <<options, routed, got>>,
           \A i \in 1 .. routed : accepted'[i] = accepted[i]
    PROVE  GotOK'
  <1>1. \A d \in Target : \A i \in 1 .. routed : For(d, i)' <=> For(d, i)
    BY ForStays
  <1> QED BY <1>1 DEF GotOK

\* A line that is routed goes to the end of what each of its targets was given.
LEMMA RouteGives ==
    ASSUME TypeOK, LinesOK, GotOK, Route
    PROVE  GotOK'
  <1> DEFINE r == routed + 1
  <1>1. /\ routed' = r /\ routed \in Nat
        /\ UNCHANGED <<options, accepted>>
        /\ got' = [d \in Target |->
              IF d \in Receivers(accepted[r]) THEN Append(got[d], r) ELSE got[d]]
    BY DEF TypeOK, Route, stream
  <1> HIDE DEF r
  <1>2. SUFFICES ASSUME NEW d \in Target
                 PROVE  /\ \A k \in 1 .. Len(got'[d]) : got'[d][k] \in 1 .. r /\ For(d, got'[d][k])
                        /\ \A k, m \in 1 .. Len(got'[d]) : k < m => got'[d][k] < got'[d][m]
                        /\ \A i \in 1 .. r : For(d, i) => Contains(got'[d], i)
                        /\ Len(got'[d]) = Cardinality({i \in 1 .. r : For(d, i)})
    <2>1. \A d \in Target : \A i : For(d, i)' <=> For(d, i)
      BY <1>1, ForStays
    <2> QED BY <1>1, <2>1, <1>2 DEF GotOK
  <1> DEFINE old == {i \in 1 .. routed : For(d, i)}
             new == {i \in 1 .. r : For(d, i)}
  <1>3. /\ got[d] \in Seq(Nat)
        /\ \A k \in 1 .. Len(got[d]) : got[d][k] \in 1 .. routed /\ For(d, got[d][k])
        /\ \A k, m \in 1 .. Len(got[d]) : k < m => got[d][k] < got[d][m]
        /\ \A i \in 1 .. routed : For(d, i) => Contains(got[d], i)
        /\ Len(got[d]) = Cardinality(old)
    BY DEF TypeOK, GotOK
  <1>4. IsFiniteSet(old)
    <2>1. IsFiniteSet(1 .. routed)
      BY <1>1, FS_Interval
    <2> QED BY <2>1, FS_Subset
  <1>5. CASE For(d, r)
    <2>1. got'[d] = Append(got[d], r)
      BY <1>1, <1>5 DEF For
    <2>2. /\ Len(got'[d]) = Len(got[d]) + 1 /\ Len(got[d]) \in Nat
          /\ got'[d][Len(got[d]) + 1] = r
          /\ \A k \in 1 .. Len(got[d]) : got'[d][k] = got[d][k]
      <3>1. r \in Nat
        BY <1>1 DEF r
      <3>2. got[d] \in Seq(Nat) /\ Len(got[d]) \in Nat
        BY <1>3
      <3>3. /\ Len(Append(got[d], r)) = Len(got[d]) + 1
            /\ Append(got[d], r)[Len(got[d]) + 1] = r
            /\ \A k \in 1 .. Len(got[d]) : Append(got[d], r)[k] = got[d][k]
        BY <3>1, <3>2, AppendProperties
      <3> QED BY <2>1, <3>2, <3>3, Zenon
    <2>3. new = old \cup {r} /\ r \notin old
      BY <1>1, <1>5 DEF r
    <2>4. Cardinality(new) = Cardinality(old) + 1
      BY <1>4, <2>3, FS_AddElement
    <2>5. \A k \in 1 .. Len(got'[d]) : got'[d][k] \in 1 .. r /\ For(d, got'[d][k])
      <3> SUFFICES ASSUME NEW k \in 1 .. Len(got'[d])
                   PROVE  got'[d][k] \in 1 .. r /\ For(d, got'[d][k])
        OBVIOUS
      <3>1. CASE k \in 1 .. Len(got[d])
        <4>1. got[d][k] \in 1 .. routed /\ For(d, got[d][k])
          BY <1>3, <3>1
        <4> QED BY <1>1, <2>2, <3>1, <4>1 DEF r
      <3>2. CASE k = Len(got[d]) + 1
        BY <1>1, <1>5, <2>2, <3>2 DEF r
      <3> QED BY <2>2, <3>1, <3>2
    <2>6. \A k, m \in 1 .. Len(got'[d]) : k < m => got'[d][k] < got'[d][m]
      <3> SUFFICES ASSUME NEW k \in 1 .. Len(got'[d]), NEW m \in 1 .. Len(got'[d]), k < m
                   PROVE  got'[d][k] < got'[d][m]
        OBVIOUS
      <3>1. k \in 1 .. Len(got[d])
        BY <2>2
      <3>2. CASE m \in 1 .. Len(got[d])
        <4>1. got[d][k] < got[d][m]
          BY <1>3, <3>1, <3>2
        <4> QED BY <2>2, <3>1, <3>2, <4>1
      <3>3. CASE m = Len(got[d]) + 1
        <4>1. got[d][k] \in 1 .. routed
          BY <1>3, <3>1
        <4> QED BY <1>1, <2>2, <3>1, <3>3, <4>1 DEF r
      <3> QED BY <2>2, <3>2, <3>3
    <2>7. \A i \in 1 .. r : For(d, i) => Contains(got'[d], i)
      <3> SUFFICES ASSUME NEW i \in 1 .. r, For(d, i)
                   PROVE  \E k \in 1 .. Len(got'[d]) : got'[d][k] = i
        BY DEF Contains
      <3>1. CASE i \in 1 .. routed
        <4>1. PICK k \in 1 .. Len(got[d]) : got[d][k] = i
          BY <1>3, <3>1 DEF Contains
        <4> QED BY <2>2, <4>1
      <3>2. CASE i = r
        BY <2>2, <3>2
      <3> QED BY <1>1, <3>1, <3>2 DEF r
    <2> QED BY <1>3, <2>2, <2>4, <2>5, <2>6, <2>7
  <1>6. CASE ~For(d, r)
    <2>1. got'[d] = got[d]
      BY <1>1, <1>6 DEF For
    <2>2. new = old
      BY <1>1, <1>6 DEF r
    <2> QED BY <1>1, <1>3, <1>6, <2>1, <2>2 DEF r
  <1> QED BY <1>5, <1>6

\* What the targets were given.
LEMMA GotStep == IInv /\ [Next]_vars => GotOK'
  <1> SUFFICES ASSUME IInv, [Next]_vars PROVE GotOK'
    OBVIOUS
  <1>1. ASSUME UNCHANGED <<options, accepted, routed, got>>
         PROVE GotOK'
    BY <1>1, GotStays DEF IInv
  <1>2. ASSUME NEW level \in LineLevels, Log(level) PROVE GotOK'
    BY <1>2, GotStays DEF IInv, TypeOK, LinesOK, work, Log, Accept
  <1>3. ASSUME AppListener PROVE GotOK'
    <2>1. CASE UNCHANGED stream
      BY <1>3, <2>1, GotStays DEF IInv, stream, work, AppListener
    <2>2. ASSUME NEW level \in LineLevels, Accept(level) PROVE GotOK'
      BY <1>3, <2>2, GotStays DEF IInv, TypeOK, LinesOK, work, AppListener, Accept
    <2> QED BY <1>3, <2>1, <2>2 DEF AppListener
  <1>4. ASSUME Route PROVE GotOK'
    BY <1>4, RouteGives DEF IInv
  <1>5. ASSUME AddListener \/ Ready \/ Closed \/ End \/ TellEnd \/ BeforeExit \/ Exit
                \/ Hook \/ FlushReturns \/ EndReturns \/ FlushThrows \/ EndGivesUp \/
                Leave \/ Read \/ Close \/ (\E d \in Target : LoadTarget(d)) \/
                (\E d \in Target : Sync(d)) \/
                (\E d \in Target : CloseCb(d)) \/
                (\E d \in Target : LoadFails(d)) \/
                (\E d \in Target : ClosesUnasked(d)) \/ TargetFails \/ Slow
         PROVE  GotOK'
    BY <1>5, <1>1 DEF AddListener, Ready, Closed, End, TellEnd, BeforeExit, Exit, Hook,
           FlushReturns, EndReturns, FlushThrows, EndGivesUp, Leave, Read, Close,
           LoadTarget, Sync, CloseCb, LoadFails, ClosesUnasked, TargetFails,
           Slow, main, stream, work
  <1>6. CASE UNCHANGED vars
    BY <1>6, <1>1 DEF vars, main, stream, work
  <1> QED BY <1>2, <1>3, <1>4, <1>5, <1>6 DEF Next, Listener, Worker

LEMMA InitEstablishes == Init => IInv
  <1> SUFFICES ASSUME Init PROVE IInv
    OBVIOUS
  <1>1. TypeOK
    <2>1. << >> \in Seq(Hooks \cup {"app"})
      OBVIOUS
    <2>2. listeners \in Seq(Hooks \cup {"app"})
      <3> DEFINE H == Hooks \cup {"app"}
      <3>1. "onExit" \in H /\ "app" \in H
        BY DEF Hooks
      <3> HIDE DEF H
      <3>2. <<"onExit">> \in Seq(H) /\ <<"app", "onExit">> \in Seq(H)
        BY <3>1
      <3> QED BY <3>2, Zenon DEF Init, H
    <2>3. got \in [Target -> Seq(Nat)] /\ synced \in [Target -> Nat] /\ accepted \in Seq(LineLevels)
      BY DEF Init
    <2> QED BY <2>1, <2>2, <2>3 DEF Init, TypeOK
  <1>2. WorkerOK /\ CountOK /\ LinesOK /\ ExitOK
    BY DEF Init, WorkerOK, CountOK, LinesOK, ExitOK, Targets
  <1>3. HookOK
    <2>1. CASE listeners = <<"onExit">>
      BY <2>1 DEF Init, HookOK, NoHook
    <2>2. CASE listeners = <<"app", "onExit">>
      <3>1. Len(listeners) = 2 /\ listeners[1] = "app" /\ listeners[2] = "onExit"
        BY <2>2
      <3> QED BY <3>1 DEF Init, HookOK, NoHook
    <2> QED BY <2>1, <2>2 DEF Init
  <1>4. GotOK
    <2> SUFFICES ASSUME NEW d \in Target
                 PROVE  Len(got[d]) = Cardinality({i \in 1 .. routed : For(d, i)})
      BY DEF Init, GotOK
    <2>1. {i \in 1 .. routed : For(d, i)} = {} /\ got[d] = << >>
      BY DEF Init
    <2> QED BY <2>1, FS_EmptySet
  <1> QED BY <1>1, <1>2, <1>3, <1>4 DEF IInv

LEMMA IInvariant == Spec => []IInv
  <1>1. IInv /\ [Next]_vars => IInv'
    BY TypeStep, WorkerStep, CountStep, LinesStep, GotStep, HookStep, ExitStep DEF IInv
  <1> QED BY InitEstablishes, <1>1, PTL DEF Spec

-----------------------------------------------------------------------------
\* Every variable keeps its type: close() counts down to zero and never below
\* (worker.js:119-139), and what has closed or loaded is one of the targets.
THEOREM TransportTypeOK == Spec => []TypeOK
  <1>1. IInv => TypeOK
    BY DEF IInv
  <1> QED BY <1>1, IInvariant, PTL

\* While the process runs exactly one exit listener of the transport is in
\* place until it closed, or is ready with autoEnd false, and none from then on
\* (transport.js:146-160).
THEOREM TransportOneHook == Spec => []OneHook
  <1>1. ASSUME IInv PROVE OneHook
    <2> DEFINE at == {i \in DOMAIN listeners : listeners[i] \in Hooks}
    <2>1. DOMAIN listeners = 1 .. Len(listeners)
      BY <1>1 DEF IInv, TypeOK
    <2>2. CASE NoHook
      <3>1. at = {}
        BY <1>1, <2>1, <2>2 DEF IInv, HookOK, Hooks
      <3> QED BY <2>2, <3>1, FS_EmptySet DEF OneHook, NoHook
    <2>3. CASE ~NoHook
      <3>1. PICK i \in 1 .. Len(listeners) :
              /\ listeners[i] = IF ready THEN "registry" ELSE "onExit"
              /\ \A j \in 1 .. Len(listeners) : j # i => listeners[j] = "app"
        BY <1>1, <2>3 DEF IInv, HookOK
      <3>2. at = {i}
        BY <2>1, <3>1 DEF Hooks
      <3> QED BY <2>3, <3>2, FS_Singleton DEF OneHook, NoHook
    <2> QED BY <2>2, <2>3
  <1> QED BY <1>1, IInvariant, PTL

\* The worker closes when all targets have, each having written out every line
\* that was accepted and is for it (worker.js:119-139).
THEOREM TransportClosesLast == Spec => []ClosesLast
  <1>1. ASSUME IInv, worker = "closed", ~mishap, NEW d \in Targets
        PROVE  synced[d] = Cardinality({i \in 1 .. Len(accepted) : d \in Receivers(accepted[i])})
    <2>1. d \in Target /\ d \in shut /\ routed = Len(accepted)
      BY <1>1, TargetsFinite DEF IInv, WorkerOK
    <2>2. synced[d] = Cardinality({i \in 1 .. routed : For(d, i)})
      BY <1>1, <2>1 DEF IInv, LinesOK, GotOK
    <2> QED BY <2>1, <2>2 DEF For
  <1>2. IInv => ClosesLast
    BY <1>1 DEF IInv, WorkerOK, ClosesLast
  <1> QED BY <1>2, IInvariant, PTL

-----------------------------------------------------------------------------
\* Delivery.

\* What worker.js and multistream make of levels and dedupe is what a line is for:
\* by the documentation if there are several targets, by the comment in the worker
\* if there is one.
LEMMA ReceiversAreWanted ==
    ASSUME TypeOK, NEW level \in Nat
    PROVE  WantedBy(level) = Receivers(level)
  <1>1. /\ options.form # "targets" => Cardinality(Targets) = 1
        /\ options.form = "target" => \A d \in Targets : options.level[d] = Absent
        /\ \A d \in Targets : options.level[d] \in Nat \cup {Absent}
        /\ options.dedupe \in BOOLEAN
        /\ Targets # {}
    <2>1. options \in Options
      BY DEF TypeOK
    <2>2. /\ DOMAIN options.level # {}
          /\ options.dedupe \in BOOLEAN
          /\ \A d \in DOMAIN options.level : options.level[d] \in Nat \cup {Absent}
      BY <2>1, TransportAssumption
    <2>3. /\ options.form # "targets" => Cardinality(DOMAIN options.level) = 1
          /\ options.form = "target" => \A d \in DOMAIN options.level : options.level[d] = Absent
      BY <2>1, TransportAssumption
    <2>4. Targets = DOMAIN options.level
      BY DEF Targets
    <2> QED BY <2>2, <2>3, <2>4
  <1>2. \A d \in Targets : StreamLevel(d) \in Nat
    BY <1>1, TransportAssumption DEF StreamLevel
  <1>3. Cardinality(Targets) = 1 <=> \A d, e \in Targets : d = e
    <2>1. ASSUME Cardinality(Targets) = 1 PROVE \A d, e \in Targets : d = e
      BY <2>1, TargetsFinite, FS_Singleton
    <2>2. ASSUME \A d, e \in Targets : d = e PROVE Cardinality(Targets) = 1
      <3>1. PICK d \in Targets : Targets = {d}
        BY <1>1, <2>2
      <3> QED BY <3>1, FS_Singleton
    <2> QED BY <2>1, <2>2
  <1>4. CASE Cardinality(Targets) = 1
    <2>1. PICK d \in Targets : Targets = {d}
      BY <1>1, <1>3, <1>4
    <2>2. CASE options.level[d] = Absent
      <3>1. Direct
        BY <2>1, <2>2 DEF Direct
      <3> QED BY <1>4, <2>1, <2>2, <3>1 DEF WantedBy, Receivers
    <2>3. CASE options.level[d] # Absent
      <3>1. ~Direct
        BY <1>1, <2>3 DEF Direct
      <3>2. StreamLevel(d) = options.level[d] /\ options.level[d] \in Nat
        BY <1>1, <2>3 DEF StreamLevel
      <3>3. Receivers(level) = {x \in Targets : StreamLevel(d) =< level}
        <4>1. StreamLevel(d) =< StreamLevel(d)
          BY <3>2
        <4> QED BY <2>1, <3>1, <4>1 DEF Receivers
      <3>4. WantedBy(level) = {x \in Targets : level >= StreamLevel(d)}
        BY <1>4, <2>1, <2>3, <3>2 DEF WantedBy
      <3>5. StreamLevel(d) =< level <=> level >= StreamLevel(d)
        BY <3>2
      <3> QED BY <3>3, <3>4, <3>5
    <2> QED BY <2>2, <2>3
  <1>5. CASE Cardinality(Targets) # 1
    <2>1. options.form = "targets" /\ ~Direct
      BY <1>1, <1>3, <1>5 DEF Direct
    <2>2. ASSUME NEW d \in Targets, NEW e \in Targets
          PROVE  /\ StreamLevel(d) =< level <=> level >= StreamLevel(d)
                 /\ StreamLevel(e) =< StreamLevel(d) <=> ~(StreamLevel(e) > StreamLevel(d))
      BY <1>2
    <2> QED BY <1>1, <1>5, <2>1, <2>2 DEF WantedBy, Documented, Receivers
  <1> QED BY <1>4, <1>5

Lines == [i \in 1 .. Len(accepted) |-> WantedBy(accepted[i])]

Out == [d \in Target |-> SubSeq(got[d], 1, synced[d])]

LEMMA LevelsAreNat ==
    ASSUME TypeOK
    PROVE  \A i \in 1 .. Len(accepted) : accepted[i] \in Nat
  <1>1. LineLevels \subseteq Nat
    BY TransportAssumption
  <1>2. \A i \in 1 .. Len(accepted) : accepted[i] \in LineLevels
    BY DEF TypeOK
  <1> QED BY <1>1, <1>2

LEMMA LinesStay ==
    ASSUME UNCHANGED <<options, accepted>>
    PROVE  Lines' = Lines
  BY DEF Lines, WantedBy, Documented, StreamLevel, Targets

LEMMA InitRefines == Init => D!Init
  BY DEF Init, D!Init

\* What a target wrote out is a beginning of what it was given.
LEMMA OutIs ==
    ASSUME TypeOK, LinesOK, NEW d \in Target
    PROVE  /\ Out[d] \in Seq(Nat) /\ Len(Out[d]) = synced[d]
           /\ \A k \in 1 .. synced[d] : Out[d][k] = got[d][k]
  <1>1. /\ got[d] \in Seq(Nat) /\ Len(got[d]) \in Nat
        /\ synced[d] \in Nat /\ synced[d] =< Len(got[d])
    BY DEF TypeOK, LinesOK
  <1>2. 1 \in 1 .. (Len(got[d]) + 1) /\ synced[d] \in 0 .. Len(got[d])
    BY <1>1
  <1> QED BY <1>1, <1>2, SubSeqProperties DEF Out

\* Routing leaves what was written out alone.
LEMMA OutStays ==
    ASSUME IInv, UNCHANGED synced, got' = got \/ Route
    PROVE  Out' = Out
  <1>1. CASE got' = got
    BY <1>1 DEF Out
  <1>2. CASE Route
    <2> SUFFICES ASSUME NEW d \in Target
                 PROVE  SubSeq(got'[d], 1, synced[d]) = SubSeq(got[d], 1, synced[d])
      BY DEF Out
    <2>1. /\ got[d] \in Seq(Nat) /\ Len(got[d]) \in Nat /\ routed \in Nat
          /\ synced[d] \in Nat /\ synced[d] =< Len(got[d])
      BY DEF IInv, TypeOK, LinesOK
    <2>2. CASE got'[d] = Append(got[d], routed + 1)
      BY <2>1, <2>2
    <2>3. CASE got'[d] = got[d]
      BY <2>3
    <2> QED BY <1>2, <2>2, <2>3 DEF Route
  <1> QED BY <1>1, <1>2

\* A line that is accepted is promised to the targets it is for.
LEMMA AcceptRefines ==
    ASSUME IInv, NEW level \in LineLevels, Accept(level), process # "gone",
           UNCHANGED <<options, ready, mishap, got, synced>>, process' = process
    PROVE  [D!Next]_(D!vars)
  <1>1. /\ accepted \in Seq(LineLevels) /\ accepted' = Append(accepted, level)
        /\ Len(accepted) \in Nat
    BY DEF IInv, TypeOK, Accept
  <1>2. \A l : WantedBy(l)' = WantedBy(l)
    BY DEF WantedBy, Documented, StreamLevel, Targets
  <1>3. WantedBy(level) \in SUBSET Target
    BY TargetsFinite DEF IInv, WantedBy, Documented
  <1>4. Lines' = Append(Lines, WantedBy(level))
    BY <1>1, <1>2 DEF Lines
  <1>5. D!Accept(WantedBy(level))
    BY <1>4 DEF D!Accept, Lines
  <1> QED BY <1>3, <1>5 DEF D!Next

\* The line a target writes out next is the first that is for it and not written out yet.
LEMMA SyncRefines ==
    ASSUME IInv, NEW d \in Target, Sync(d)
    PROVE  [D!Next]_(D!vars)
  <1> DEFINE n == synced[d]
             i == got[d][n + 1]
  <1>1. /\ n \in Nat /\ n + 1 \in 1 .. Len(got[d]) /\ got[d] \in Seq(Nat) /\ Len(got[d]) \in Nat
        /\ routed \in Nat /\ routed =< Len(accepted) /\ Len(accepted) \in Nat /\ read \in Nat
    BY DEF IInv, TypeOK, LinesOK, Sync
  <1>2. /\ \A k \in 1 .. Len(got[d]) : got[d][k] \in 1 .. routed /\ For(d, got[d][k])
        /\ \A k, m \in 1 .. Len(got[d]) : k < m => got[d][k] < got[d][m]
        /\ \A j \in 1 .. routed : For(d, j) => Contains(got[d], j)
    BY DEF IInv, GotOK
  <1>3. /\ Out[d] \in Seq(Nat) /\ Len(Out[d]) = n
        /\ \A k \in 1 .. n : Out[d][k] = got[d][k]
    BY OutIs DEF IInv
  <1> HIDE DEF n, i
  <1>4. i \in 1 .. routed /\ For(d, i)
    BY <1>1, <1>2 DEF i
  <1>5. \A j \in 1 .. Len(accepted) : d \in WantedBy(accepted[j]) <=> For(d, j)
    <2> SUFFICES ASSUME NEW j \in 1 .. Len(accepted)
                 PROVE  WantedBy(accepted[j]) = Receivers(accepted[j])
      BY DEF For
    <2>1. accepted[j] \in Nat
      BY LevelsAreNat DEF IInv
    <2> QED BY <2>1, ReceiversAreWanted DEF IInv
  <1>6. /\ i \in 1 .. Len(Lines) /\ d \in Lines[i] /\ Len(Lines) = Len(accepted)
        /\ \A j \in 1 .. Len(Lines) : d \in Lines[j] <=> For(d, j)
    <2>1. Len(Lines) = Len(accepted) /\ \A j \in 1 .. Len(accepted) : Lines[j] = WantedBy(accepted[j])
      BY <1>1 DEF Lines
    <2>2. i \in 1 .. Len(accepted)
      BY <1>1, <1>4
    <2> QED BY <1>4, <1>5, <2>1, <2>2
  <1>7. ASSUME NEW j \in 1 .. (i - 1), d \in Lines[j]
        PROVE  \E k \in 1 .. n : Out[d][k] = j
    <2>1. j \in 1 .. routed /\ For(d, j)
      BY <1>1, <1>4, <1>6, <1>7
    <2>2. PICK k \in 1 .. Len(got[d]) : got[d][k] = j
      BY <1>2, <2>1 DEF Contains
    <2>3. ~(n + 1 =< k)
      <3>1. k # n + 1
        BY <1>4, <2>2 DEF i
      <3>2. ~(n + 1 < k)
        <4> SUFFICES ASSUME n + 1 < k PROVE FALSE
          OBVIOUS
        <4>1. got[d][n + 1] < got[d][k]
          BY <1>1, <1>2
        <4> QED BY <1>4, <2>2, <4>1 DEF i
      <3> QED BY <1>1, <2>2, <3>1, <3>2
    <2>4. k \in 1 .. n
      BY <1>1, <2>3
    <2> QED BY <1>3, <2>2, <2>4
  <1>8. \A k \in 1 .. n : Out[d][k] # i
    <2> SUFFICES ASSUME NEW k \in 1 .. n PROVE got[d][k] # i
      BY <1>3
    <2>1. k \in 1 .. Len(got[d]) /\ k < n + 1
      BY <1>1
    <2>2. got[d][k] < got[d][n + 1] /\ got[d][k] \in 1 .. routed
      BY <1>1, <1>2, <2>1
    <2> QED BY <1>4, <2>2 DEF i
  <1>9. D!IsNext(d, i)
    BY <1>3, <1>6, <1>7, <1>8 DEF D!IsNext, D!Contains, Lines, Out
  <1>10. Out' = [Out EXCEPT ![d] = Append(@, i)]
    <2>1. SubSeq(got[d], 1, n + 1) = Append(SubSeq(got[d], 1, n), got[d][n + 1])
      BY <1>1
    <2>2. synced' = [synced EXCEPT ![d] = @ + 1] /\ got' = got /\ synced \in [Target -> Nat]
      BY DEF Sync, IInv, TypeOK
    <2> QED BY <2>1, <2>2 DEF Out, n, i
  <1>11. D!WriteOut(d)
    <2>1. process # "gone" /\ UNCHANGED <<options, accepted, process, mishap, ready>>
      BY DEF Sync, WorkerRuns, main, stream
    <2>2. Lines' = Lines
      BY <2>1, LinesStay
    <2> QED BY <1>6, <1>9, <1>10, <2>1, <2>2 DEF D!WriteOut, Lines, Out
  <1> QED BY <1>11 DEF D!Next

\* When the process is gone, and nothing excuses it, no line is owed.
LEMMA LeaveRefines ==
    ASSUME IInv, Leave
    PROVE  [D!Next]_(D!vars)
  <1>1. ASSUME ~Excused, NEW d \in Target, NEW i \in 1 .. Len(Lines), D!IsNext(d, i)
        PROVE  FALSE
    <2>1. worker = "closed" /\ ~mishap
      BY <1>1 DEF IInv, ExitOK, Leave, Excused
    <2>2. /\ Len(Lines) = Len(accepted) /\ d \in WantedBy(accepted[i])
          /\ \A k \in 1 .. Len(Out[d]) : Out[d][k] # i
      BY <1>1 DEF IInv, TypeOK, D!IsNext, D!Contains, Lines, Out
    <2>3. i \in 1 .. routed /\ d \in shut /\ synced[d] = Len(got[d])
      BY <2>1, <2>2 DEF IInv, WorkerOK, LinesOK, WantedBy, Documented
    <2>4. For(d, i)
      <3>1. i \in 1 .. Len(accepted)
        BY <1>1, <2>2
      <3>2. accepted[i] \in Nat
        BY <3>1, LevelsAreNat DEF IInv
      <3> QED BY <2>2, <3>2, ReceiversAreWanted DEF IInv, For
    <2>5. PICK k \in 1 .. Len(got[d]) : got[d][k] = i
      BY <2>3, <2>4 DEF IInv, GotOK, Contains
    <2>6. Len(Out[d]) = Len(got[d]) /\ Out[d][k] = i
      BY <2>3, <2>5, OutIs DEF IInv
    <2> QED BY <2>2, <2>5, <2>6
  <1>2. D!Leave
    <2>1. /\ process' = "gone"
          /\ UNCHANGED <<options, accepted, got, synced, mishap, ready>>
      BY DEF Leave, stream, work
    <2>2. Lines' = Lines /\ Out' = Out
      BY <2>1, LinesStay DEF Out
    <2> QED BY <1>1, <2>1, <2>2 DEF D!Leave, Excused, Lines, Out
  <1> QED BY <1>2 DEF D!Next

\* A step that leaves the lines and what was written out alone is an excuse, or
\* no step of Delivery at all.
LEMMA QuietRefines ==
    ASSUME IInv, UNCHANGED <<options, accepted, synced>>, got' = got \/ Route,
           process' = "gone" <=> process = "gone",
           mishap' \/ UNCHANGED mishap,
           mishap' \/ UNCHANGED ready \/ (ready' /\ UNCHANGED mishap)
    PROVE  [D!Next]_(D!vars)
  <1>1. Lines' = Lines /\ Out' = Out
    BY LinesStay, OutStays
  <1>2. (process' = "gone") = (process = "gone")
    OBVIOUS
  <1>3. mishap \in BOOLEAN /\ ready \in BOOLEAN
    BY DEF IInv, TypeOK
  <1>4. CASE Excused'
    <2>1. D!Excuse
      BY <1>1, <1>2, <1>4 DEF D!Excuse, Lines, Out, Excused
    <2> QED BY <2>1 DEF D!Next
  <1>5. CASE ~Excused'
    <2>1. ~Excused
      BY <1>5 DEF Excused
    <2>2. (mishap \/ (ready /\ ~options.autoEnd))' = (mishap \/ (ready /\ ~options.autoEnd))
      BY <1>5, <2>1 DEF Excused
    <2> QED BY <1>1, <1>2, <2>2 DEF D!vars, Lines, Out
  <1> QED BY <1>4, <1>5

\* A flush that throws out of an exit listener ends the process, and something
\* went wrong.
LEMMA ThrowRefines ==
    ASSUME IInv, FlushThrows
    PROVE  [D!Next]_(D!vars)
  <1>1. UNCHANGED <<options, accepted, got, synced, mishap, ready>> /\ mishap /\ process # "gone"
    BY DEF FlushThrows, stream, work
  <1>2. CASE process' = "gone"
    <2>1. Lines' = Lines /\ Out' = Out
      BY <1>1, LinesStay DEF Out
    <2>2. D!Leave
      BY <1>1, <1>2, <2>1 DEF D!Leave, Lines, Out
    <2> QED BY <2>2 DEF D!Next
  <1>3. CASE process' # "gone"
    BY <1>1, <1>3, QuietRefines
  <1> QED BY <1>2, <1>3

LEMMA StepRefines == IInv /\ [Next]_vars => [D!Next]_(D!vars)
  <1> SUFFICES ASSUME IInv, [Next]_vars PROVE [D!Next]_(D!vars)
    OBVIOUS
  <1>1. ASSUME NEW level \in LineLevels, Log(level) PROVE [D!Next]_(D!vars)
    BY <1>1, AcceptRefines DEF Log, MainRuns, main, work
  <1>2. ASSUME AppListener PROVE [D!Next]_(D!vars)
    <2>1. CASE UNCHANGED stream
      BY <1>2, <2>1, QuietRefines DEF AppListener, stream, work
    <2>2. ASSUME NEW level \in LineLevels, Accept(level) PROVE [D!Next]_(D!vars)
      BY <1>2, <2>2, AcceptRefines DEF AppListener, Listening, work
    <2> QED BY <1>2, <2>1, <2>2 DEF AppListener
  <1>3. ASSUME NEW d \in Target, Sync(d) PROVE [D!Next]_(D!vars)
    BY <1>3, SyncRefines
  <1>4. ASSUME Leave PROVE [D!Next]_(D!vars)
    BY <1>4, LeaveRefines
  <1>5. ASSUME FlushThrows PROVE [D!Next]_(D!vars)
    BY <1>5, ThrowRefines
  <1>6. ASSUME Ready PROVE [D!Next]_(D!vars)
    BY <1>6, QuietRefines DEF Ready, stream, work
  <1>7. ASSUME Exit PROVE [D!Next]_(D!vars)
    BY <1>7, QuietRefines DEF Exit, MainRuns, stream, work
  <1>8. ASSUME \/ AddListener \/ Closed \/ End \/ TellEnd \/ BeforeExit
               \/ Hook \/ FlushReturns \/ EndReturns \/ EndGivesUp
        PROVE  [D!Next]_(D!vars)
    <2>1. UNCHANGED <<options, accepted, process, ready, mishap, got, synced>>
      BY <1>8 DEF AddListener, Closed, End, TellEnd, BeforeExit, Hook, FlushReturns, EndReturns,
                  EndGivesUp, main, stream, work
    <2> QED BY <2>1, QuietRefines
  <1>9. ASSUME Read \/ Route \/ Close \/ (\E d \in Target : LoadTarget(d) \/ CloseCb(d))
        PROVE  [D!Next]_(D!vars)
    <2>1. UNCHANGED <<options, accepted, process, ready, mishap, synced>> /\ (got' = got \/ Route)
      BY <1>9 DEF Read, Route, Close, LoadTarget, CloseCb, main, stream
    <2> QED BY <2>1, QuietRefines
  <1>10. ASSUME TargetFails \/ Slow \/ (\E d \in Target : LoadFails(d) \/ ClosesUnasked(d))
         PROVE  [D!Next]_(D!vars)
    <2>1. UNCHANGED <<options, accepted, process, ready, got, synced>> /\ mishap'
      BY <1>10 DEF TargetFails, Slow, LoadFails, ClosesUnasked, main, stream, work
    <2> QED BY <2>1, QuietRefines
  <1>11. CASE UNCHANGED vars
    BY <1>11, QuietRefines DEF vars, main, stream, work
  <1> QED BY <1>1, <1>2, <1>3, <1>4, <1>5, <1>6, <1>7, <1>8, <1>9, <1>10, <1>11
          DEF Next, Listener, Worker

\* The transport delivers what it accepted, to the right targets, once, in order,
\* and all of it before the process is gone (transport.js:145-186,
\* worker.js:119-139): every step maps to a step of Delivery or to none.
THEOREM TransportImplements == Spec => Implements
  <1> QED BY InitRefines, StepRefines, IInvariant, PTL DEF Spec, Implements, D!Spec
=============================================================================
