------------------------- MODULE ServeGroup_proofs -------------------------
(***************************************************************************)
(* Safety of a serving process, with a health check or without and for any *)
(* number of signals: the watchdog stands down for complete shutdowns      *)
(* only, and no signal is absorbed while it counts.                        *)
(***************************************************************************)
EXTENDS ServeGroup, FiniteSetTheorems, TLAPS

-----------------------------------------------------------------------------
(* The inductive invariant *)

\* The goroutines still to be launched do not run.
LaunchInOrder ==
    /\ \A w \in Workers : main = "dns" => worker[w] = "none"
    /\ main = "ipc" => worker["ipc"] = "none" /\ worker["proxy"] = "none"
    /\ main = "proxy" => worker["proxy"] = "none"
    /\ "health" \in Workers /\ main \in {"ipc", "proxy", "health"} => worker["health"] = "none"

ReturnedWorkers == {w \in Workers : Returned(w)}

\* A worker that has returned is counted, or its token is on its way.
TokensAreWorkers == tokens + collected = Cardinality(ReturnedWorkers)

\* The handler's own channel is out of the way before the watchdog counts.
HandlerDisarmed == handler \in {"stopped", "watch"} => "sigCh" \notin armed

IndInv ==
    /\ TypeOK
    /\ LaunchInOrder
    /\ TokensAreWorkers
    /\ CompleteMeansReturned
    /\ HandlerDisarmed
    /\ WatchIsDisarmed

-----------------------------------------------------------------------------
(* Counting *)

LEMMA WorkersAreFinite ==
    /\ IsFiniteSet(Workers) /\ Cardinality(Workers) \in Nat
    /\ \A S \in SUBSET Workers :
           /\ IsFiniteSet(S) /\ Cardinality(S) \in 0..Cardinality(Workers)
           /\ Cardinality(S) = Cardinality(Workers) => S = Workers
  <1>1. IsFiniteSet({"dns"} \cup {"ipc"} \cup {"proxy"} \cup {"health"})
    <2>1. IsFiniteSet({"dns"})
      BY FS_Singleton
    <2>2. IsFiniteSet({"dns"} \cup {"ipc"})
      BY <2>1, FS_AddElement
    <2>3. IsFiniteSet({"dns"} \cup {"ipc"} \cup {"proxy"})
      BY <2>2, FS_AddElement
    <2> QED BY <2>3, FS_AddElement
  <1>2. Workers \in SUBSET ({"dns"} \cup {"ipc"} \cup {"proxy"} \cup {"health"})
    BY WorkersAreKnown
  <1>3. IsFiniteSet(Workers)
    BY <1>1, <1>2, FS_Subset
  <1>4. Cardinality(Workers) \in Nat
    BY <1>3, FS_CardinalityType
  <1>5. ASSUME NEW S \in SUBSET Workers
        PROVE  /\ IsFiniteSet(S) /\ Cardinality(S) \in 0..Cardinality(Workers)
               /\ Cardinality(S) = Cardinality(Workers) => S = Workers
    <2>1. /\ IsFiniteSet(S) /\ Cardinality(S) <= Cardinality(Workers)
          /\ Cardinality(Workers) = Cardinality(S) => Workers = S
      BY <1>3, FS_Subset
    <2>2. Cardinality(S) \in Nat
      BY <2>1, FS_CardinalityType
    <2> QED BY <1>4, <2>1, <2>2
  <1> QED BY <1>3, <1>4, <1>5

\* The sum of the two counters never exceeds the workers.
LEMMA CountersAreBounded ==
    ASSUME tokens \in Nat, collected \in Nat, TokensAreWorkers
    PROVE  tokens \in 0..Cardinality(Workers) /\ collected \in 0..Cardinality(Workers)
  <1>1. ReturnedWorkers \in SUBSET Workers
    BY DEF ReturnedWorkers
  <1>2. Cardinality(ReturnedWorkers) \in 0..Cardinality(Workers) /\ Cardinality(Workers) \in Nat
    BY <1>1, WorkersAreFinite
  <1> QED BY <1>2 DEF TokensAreWorkers

\* A worker that turns neither into a returned one nor back leaves the count.
LEMMA CountStays ==
    ASSUME TokensAreWorkers, UNCHANGED <<tokens, collected>>,
           \A w \in Workers : Returned(w)' <=> Returned(w)
    PROVE  TokensAreWorkers'
  <1>1. ReturnedWorkers' = ReturnedWorkers
    BY DEF ReturnedWorkers
  <1> QED BY <1>1 DEF TokensAreWorkers

-----------------------------------------------------------------------------
(* Preservation *)

LEMMA InitHolds == Init => IndInv
  <1> SUFFICES ASSUME Init PROVE IndInv
    OBVIOUS
  <1> USE DEF Init
  <1>1. ReturnedWorkers = {}
    BY DEF ReturnedWorkers, Returned
  <1>2. TokensAreWorkers
    BY <1>1, FS_EmptySet DEF TokensAreWorkers
  <1>3. TypeOK
    <2>1. tokens \in 0..Cardinality(Workers) /\ collected \in 0..Cardinality(Workers)
      BY <1>2, CountersAreBounded
    <2>2. worker \in [Workers -> WorkerStates]
      BY DEF WorkerStates
    <2>3. sent \in 0..MaxSignals /\ armed \subseteq Channels /\ pending \subseteq Channels
      BY SignalsAreBounded DEF Channels
    <2>4. /\ main \in MainStates /\ handler \in HandlerStates /\ proc \in ProcStates
          /\ complete \in BOOLEAN /\ ctx \in BOOLEAN /\ failed \in BOOLEAN
      BY DEF MainStates, HandlerStates, ProcStates
    <2> QED BY <2>1, <2>2, <2>3, <2>4 DEF TypeOK
  <1>4. LaunchInOrder
    BY WorkersAreKnown DEF LaunchInOrder
  <1> QED BY <1>2, <1>3, <1>4 DEF IndInv, CompleteMeansReturned, HandlerDisarmed, WatchIsDisarmed

\* What runUp launches.
LEMMA MainKeeps ==
    ASSUME IndInv, Main
    PROVE  IndInv'
  <1> USE WorkersAreKnown DEF IndInv, ctxVars, sigVars
  <1>1. ASSUME NEW w \in Workers, LaunchWorker(w)
        PROVE  IndInv'
    <2>1. /\ main = w /\ w \in {"dns", "ipc", "proxy", "health"} /\ main' = NextLaunch
          /\ worker \in [Workers -> WorkerStates]
      BY <1>1 DEF LaunchWorker, TypeOK
    <2>2. worker[w] = "none"
      BY <2>1 DEF LaunchInOrder
    <2>3. PICK s \in {"starting", "checking", "serving"} : worker' = [worker EXCEPT ![w] = s]
      BY <1>1 DEF LaunchWorker
    <2>4. UNCHANGED <<tokens, collected, complete, handler, ctx, failed, armed, pending, sent, proc>>
      BY <1>1 DEF LaunchWorker
    <2>5. \A v \in Workers : Returned(v)' <=> Returned(v)
      BY <2>1, <2>2, <2>3 DEF Returned
    <2>6. TypeOK'
      BY <2>1, <2>3, <2>4 DEF TypeOK, MainStates, WorkerStates, NextLaunch
    <2>7. LaunchInOrder'
      BY <2>1, <2>3 DEF LaunchInOrder, NextLaunch
    <2>8. TokensAreWorkers'
      BY <2>4, <2>5, CountStays
    <2> QED BY <2>4, <2>5, <2>6, <2>7, <2>8
            DEF CompleteMeansReturned, HandlerDisarmed, WatchIsDisarmed, GroupDone
  <1>2. CASE LaunchCollector \/ LaunchHandler \/ Exit
    <2>1. /\ UNCHANGED <<worker, tokens, collected, complete, ctx, failed, armed, pending, sent>>
          /\ UNCHANGED main \/ main' \in {"handler", "wait"}
          /\ UNCHANGED handler \/ handler' = "arm"
          /\ proc' \in {proc, "exited"}
      BY <1>2 DEF LaunchCollector, LaunchHandler, Exit, NextLaunch
    <2>2. TypeOK'
      BY <2>1 DEF TypeOK, MainStates, HandlerStates, ProcStates
    <2>3. TokensAreWorkers'
      BY <2>1, CountStays DEF Returned
    <2> QED BY <2>1, <2>2, <2>3 DEF LaunchInOrder, CompleteMeansReturned, HandlerDisarmed,
                                    WatchIsDisarmed, GroupDone, Returned
  <1> QED BY <1>1, <1>2 DEF Main

\* A worker that is somewhere before its token gets elsewhere before it.
LEMMA MoveKeeps ==
    ASSUME IndInv, NEW w \in Workers, worker[w] \notin {"none", "errSent", "done"},
           NEW s \in {"serving", "checking", "deaf", "draining", "ok", "err"},
           worker' = [worker EXCEPT ![w] = s],
           UNCHANGED <<main, tokens, collected, complete, handler, ctx, failed, armed, pending, sent, proc>>
    PROVE  IndInv'
  <1>1. worker \in [Workers -> WorkerStates]
    BY DEF IndInv, TypeOK
  <1>2. \A v \in Workers : Returned(v)' <=> Returned(v)
    BY <1>1 DEF Returned
  <1>3. TypeOK'
    BY <1>1 DEF IndInv, TypeOK, WorkerStates
  <1>4. LaunchInOrder'
    BY <1>1, WorkersAreKnown DEF IndInv, LaunchInOrder
  <1>5. TokensAreWorkers'
    BY <1>2, CountStays DEF IndInv
  <1> QED BY <1>2, <1>3, <1>4, <1>5
          DEF IndInv, CompleteMeansReturned, HandlerDisarmed, WatchIsDisarmed

LEMMA WorkerKeeps ==
    ASSUME IndInv, \/ \E w \in Workers : Serve(w) \/ ServeFails(w)
                   \/ HealthTick \/ HealthReports \/ HealthStops
    PROVE  IndInv'
  <1> USE DEF ctxVars, sigVars
  <1>1. CASE DnsActivate \/ DnsShutdown
    BY <1>1, MoveKeeps DEF DnsActivate, DnsShutdown, Move, GroupDone
  <1>2. ASSUME NEW w \in Workers, HttpShutdown(w) \/ HttpDrained(w) \/ ServeFails(w)
        PROVE  IndInv'
    BY <1>2, MoveKeeps DEF HttpShutdown, HttpDrained, ServeFails, Move, GroupDone
  <1>3. CASE HealthTick \/ HealthReports \/ HealthStops
    BY <1>3, MoveKeeps DEF HealthTick, HealthReports, HealthStops, Move, GroupDone
  <1>4. ASSUME NEW w \in Workers, SendToken(w)
        PROVE  IndInv'
    <2>1. /\ worker \in [Workers -> WorkerStates] /\ ~Returned(w) /\ worker[w] # "none"
          /\ tokens \in Nat /\ collected \in Nat
      BY <1>4, WorkersAreFinite DEF SendToken, Move, Returned, IndInv, TypeOK
    <2>2. /\ tokens' = tokens + 1
          /\ UNCHANGED <<main, collected, complete, handler, ctx, failed, armed, pending, sent, proc>>
      BY <1>4 DEF SendToken, Move
    <2>3. PICK s \in {"done", "errSent"} : worker' = [worker EXCEPT ![w] = s]
      BY <1>4 DEF SendToken, Move
    <2>4. ReturnedWorkers' = ReturnedWorkers \cup {w} /\ w \notin ReturnedWorkers
      BY <2>1, <2>3 DEF ReturnedWorkers, Returned
    <2>5. IsFiniteSet(ReturnedWorkers)
      BY WorkersAreFinite DEF ReturnedWorkers
    <2>6. Cardinality(ReturnedWorkers') = Cardinality(ReturnedWorkers) + 1
      BY <2>4, <2>5, FS_AddElement
    <2>7. TokensAreWorkers'
      BY <2>1, <2>2, <2>6 DEF IndInv, TokensAreWorkers
    <2>8. tokens' \in 0..Cardinality(Workers)
      <3>1. tokens' \in Nat /\ collected' \in Nat
        BY <2>1, <2>2
      <3>2. ReturnedWorkers' \in SUBSET Workers
        BY DEF ReturnedWorkers
      <3>3. Cardinality(ReturnedWorkers') \in 0..Cardinality(Workers) /\ Cardinality(Workers) \in Nat
        BY <3>2, WorkersAreFinite
      <3> QED BY <2>7, <3>1, <3>3 DEF TokensAreWorkers
    <2>9. TypeOK'
      BY <2>1, <2>2, <2>3, <2>8 DEF IndInv, TypeOK, WorkerStates
    <2>10. LaunchInOrder'
      BY <2>1, <2>2, <2>3, WorkersAreKnown DEF IndInv, LaunchInOrder
    <2>11. CompleteMeansReturned'
      BY <2>1, <2>2, <2>3 DEF IndInv, CompleteMeansReturned, Returned
    <2> QED BY <2>2, <2>7, <2>9, <2>10, <2>11
            DEF IndInv, HandlerDisarmed, WatchIsDisarmed, GroupDone
  <1>5. ASSUME NEW w \in Workers, GroupError(w)
        PROVE  IndInv'
    <2>1. /\ worker \in [Workers -> WorkerStates] /\ worker[w] = "errSent"
          /\ worker' = [worker EXCEPT ![w] = "done"] /\ failed' = TRUE
          /\ UNCHANGED <<main, tokens, collected, complete, handler, ctx, armed, pending, sent, proc>>
      BY <1>5 DEF GroupError, Move, IndInv, TypeOK
    <2>2. \A v \in Workers : Returned(v)' <=> Returned(v)
      BY <2>1 DEF Returned
    <2>3. TypeOK'
      BY <2>1 DEF IndInv, TypeOK, WorkerStates
    <2>4. LaunchInOrder'
      BY <2>1, WorkersAreKnown DEF IndInv, LaunchInOrder
    <2>5. TokensAreWorkers'
      BY <2>1, <2>2, CountStays DEF IndInv
    <2> QED BY <2>1, <2>2, <2>3, <2>4, <2>5
            DEF IndInv, CompleteMeansReturned, HandlerDisarmed, WatchIsDisarmed, GroupDone
  <1> QED BY <1>1, <1>2, <1>3, <1>4, <1>5 DEF Serve

\* The collector closes the channel when it has counted every worker, and that
\* is when every worker has returned.
LEMMA CollectorKeeps ==
    ASSUME IndInv, Collector
    PROVE  IndInv'
  <1> USE DEF ctxVars, sigVars
  <1>1. /\ tokens \in Nat /\ collected \in Nat /\ tokens + collected = Cardinality(ReturnedWorkers)
        /\ ReturnedWorkers \in SUBSET Workers
    BY WorkersAreFinite DEF IndInv, TypeOK, TokensAreWorkers, ReturnedWorkers
  <1>2. /\ Cardinality(ReturnedWorkers) \in 0..Cardinality(Workers) /\ Cardinality(Workers) \in Nat
        /\ Cardinality(ReturnedWorkers) = Cardinality(Workers) => ReturnedWorkers = Workers
    BY <1>1, WorkersAreFinite
  <1>3. CASE Collect
    <2>1. /\ tokens' = tokens - 1 /\ tokens > 0 /\ collected' = collected + 1
          /\ UNCHANGED <<main, worker, complete, handler, ctx, failed, armed, pending, sent, proc>>
      BY <1>3 DEF Collect
    <2>2. /\ tokens' \in 0..Cardinality(Workers) /\ collected' \in 0..Cardinality(Workers)
          /\ tokens' + collected' = tokens + collected
      BY <1>1, <1>2, <2>1
    <2>3. ReturnedWorkers' = ReturnedWorkers
      BY <2>1 DEF ReturnedWorkers, Returned
    <2>4. TypeOK'
      BY <2>1, <2>2 DEF IndInv, TypeOK
    <2> QED BY <2>1, <2>2, <2>3, <2>4
            DEF IndInv, LaunchInOrder, TokensAreWorkers, CompleteMeansReturned, Returned, HandlerDisarmed,
                WatchIsDisarmed, GroupDone
  <1>4. CASE CloseComplete
    <2>1. /\ complete' = TRUE /\ collected = Cardinality(Workers)
          /\ UNCHANGED <<main, worker, tokens, collected, handler, ctx, failed, armed, pending, sent, proc>>
      BY <1>4 DEF CloseComplete
    <2>2. ReturnedWorkers = Workers
      BY <1>1, <1>2, <2>1
    <2>3. CompleteMeansReturned'
      BY <2>1, <2>2 DEF CompleteMeansReturned, ReturnedWorkers, Returned
    <2>4. TypeOK'
      BY <2>1 DEF IndInv, TypeOK
    <2>5. TokensAreWorkers'
      BY <2>1, CountStays DEF IndInv, Returned
    <2> QED BY <2>1, <2>3, <2>4, <2>5
            DEF IndInv, LaunchInOrder, HandlerDisarmed, WatchIsDisarmed, GroupDone
  <1> QED BY <1>3, <1>4 DEF Collector

\* Signals, the handler and the root context.
LEMMA SignalKeeps ==
    ASSUME IndInv, Handler \/ NotifyCancels \/ ShutdownRequest \/ SendSignal
    PROVE  IndInv'
  <1> USE DEF ctxVars, sigVars
  <1>1. UNCHANGED <<main, worker, tokens, collected, complete, failed>>
    BY DEF Handler, Arm, TakeSignal, TakeDone, Disarm, CancelFromHandler, WatchComplete, Watchdog,
           HandlerStep, NotifyCancels, ShutdownRequest, SendSignal
  <1>2. armed \subseteq Channels /\ pending \subseteq Channels /\ ctx \in BOOLEAN /\ sent \in 0..MaxSignals
    BY DEF IndInv, TypeOK
  <1>3. /\ handler' \in HandlerStates /\ armed' \subseteq Channels /\ pending' \subseteq Channels
        /\ ctx' \in BOOLEAN /\ sent' \in 0..MaxSignals /\ proc' \in ProcStates
        /\ ctx => ctx'
        /\ HandlerDisarmed' /\ WatchIsDisarmed'
    <2>1. handler \in HandlerStates /\ proc \in ProcStates /\ HandlerDisarmed /\ WatchIsDisarmed
      BY DEF IndInv, TypeOK
    <2> USE <1>2, <2>1 DEF HandlerStates, ProcStates, HandlerDisarmed, WatchIsDisarmed, HandlerStep, CancelRoot
    <2>2. CASE Arm
      BY <2>2 DEF Arm, Channels
    <2>3. CASE TakeSignal \/ TakeDone
      BY <2>3 DEF TakeSignal, TakeDone
    <2>4. CASE Disarm
      BY <2>4 DEF Disarm
    <2>5. CASE CancelFromHandler
      BY <2>5 DEF CancelFromHandler, Channels
    <2>6. CASE WatchComplete \/ Watchdog
      BY <2>6 DEF WatchComplete, Watchdog
    <2>7. CASE NotifyCancels
      BY <2>7 DEF NotifyCancels
    <2>8. CASE ShutdownRequest
      BY <2>8 DEF ShutdownRequest
    <2>9. CASE SendSignal
      BY <2>9, SignalsAreBounded DEF SendSignal
    <2> QED BY <2>2, <2>3, <2>4, <2>5, <2>6, <2>7, <2>8, <2>9 DEF Handler
  <1>4. TypeOK'
    BY <1>1, <1>3 DEF IndInv, TypeOK
  <1>5. TokensAreWorkers'
    BY <1>1, CountStays DEF IndInv, Returned
  <1> QED BY <1>1, <1>3, <1>4, <1>5
          DEF IndInv, LaunchInOrder, CompleteMeansReturned, Returned, GroupDone

-----------------------------------------------------------------------------
(* Theorems *)

\* The inductive invariant holds in every reachable state.
THEOREM IndInvHolds == Spec => []IndInv
  <1>1. IndInv /\ [Next]_vars => IndInv'
    <2> SUFFICES ASSUME IndInv, [Next]_vars PROVE IndInv'
      OBVIOUS
    <2>1. CASE Next
      BY <2>1, MainKeeps, WorkerKeeps, CollectorKeeps, SignalKeeps DEF Next
    <2>2. CASE UNCHANGED vars
      <3>1. UNCHANGED <<main, worker, tokens, collected, complete, handler, ctx, failed, armed, pending,
                        sent, proc>>
        BY <2>2 DEF vars, ctxVars, sigVars
      <3>2. TokensAreWorkers'
        BY <3>1, CountStays DEF IndInv, Returned
      <3>3. TypeOK'
        BY <3>1 DEF IndInv, TypeOK
      <3> QED BY <3>1, <3>2, <3>3
              DEF IndInv, LaunchInOrder, CompleteMeansReturned, Returned, HandlerDisarmed,
                  WatchIsDisarmed, GroupDone
    <2> QED BY <2>1, <2>2
  <1> QED BY <1>1, InitHolds, PTL DEF Spec

\* The variables keep their types; neither counter exceeds the workers.
THEOREM TypeCorrect == Spec => []TypeOK
  <1>1. IndInv => TypeOK
    BY DEF IndInv
  <1> QED BY <1>1, IndInvHolds, PTL

\* workersComplete is closed only after every worker has returned
\* (up.go:195-201, 215).
THEOREM CompleteIsComplete == Spec => []CompleteMeansReturned
  <1>1. IndInv => CompleteMeansReturned
    BY DEF IndInv
  <1> QED BY <1>1, IndInvHolds, PTL

\* While the watchdog counts, no channel absorbs signals (up.go:210-211).
THEOREM NothingAbsorbsSignals == Spec => []WatchIsDisarmed
  <1>1. IndInv => WatchIsDisarmed
    BY DEF IndInv
  <1> QED BY <1>1, IndInvHolds, PTL

-----------------------------------------------------------------------------
(* The promise of GracefulShutdown *)

\* A worker that has been told to stop, or has returned, was so because of a
\* shutdown; until one begins, a signal has a channel to go to and the watchdog
\* does not count.
EndsNeedShutdown ==
    /\ \A w \in Workers : worker[w] \in {"deaf", "draining", "ok", "done"} => GroupDone
    /\ ~ctx => "notify" \in armed /\ handler # "watch"

LEMMA EndsNeedShutdownHolds == Spec => []EndsNeedShutdown
  <1>1. Init => EndsNeedShutdown
    BY DEF Init, EndsNeedShutdown
  <1>2. IndInv /\ EndsNeedShutdown /\ [Next]_vars => EndsNeedShutdown'
    <2> SUFFICES ASSUME IndInv, EndsNeedShutdown, [Next]_vars PROVE EndsNeedShutdown'
      OBVIOUS
    <2> USE DEF ctxVars, sigVars
    <2>1. worker \in [Workers -> WorkerStates] /\ ctx \in BOOLEAN /\ failed \in BOOLEAN
      BY DEF IndInv, TypeOK
    <2>2. ASSUME NEW w \in Workers, NEW from, NEW to, Move(w, from, to),
                 ctx' = ctx, failed' = failed \/ failed' = TRUE,
                 to \in {"deaf", "draining", "ok", "done"} => GroupDone'
          PROVE  EndsNeedShutdown'
      <3>1. /\ worker' = [worker EXCEPT ![w] = to] /\ handler' = handler /\ armed' = armed
            /\ GroupDone => GroupDone'
        BY <2>1, <2>2 DEF Move, GroupDone
      <3> QED BY <2>1, <2>2, <3>1 DEF EndsNeedShutdown
    <2>3. CASE Main
      <3>1. /\ UNCHANGED <<ctx, failed, armed>> /\ handler' \in {handler, "arm"}
            /\ \/ worker' = worker
               \/ \E w \in Workers, s \in {"starting", "checking", "serving"} :
                     worker' = [worker EXCEPT ![w] = s]
        BY <2>3 DEF Main, LaunchWorker, LaunchCollector, LaunchHandler, Exit
      <3> QED BY <2>1, <3>1 DEF EndsNeedShutdown, GroupDone
    <2>4. CASE Collector
      BY <2>4 DEF Collector, Collect, CloseComplete, EndsNeedShutdown, GroupDone
    <2>5. CASE DnsActivate \/ DnsShutdown
      <3>1. ctx' = ctx /\ failed' = failed /\ "dns" \in Workers
        BY <2>5, WorkersAreKnown DEF DnsActivate, DnsShutdown
      <3>2. \/ Move("dns", {"starting"}, "serving")
            \/ GroupDone /\ (Move("dns", {"serving"}, "ok") \/ Move("dns", {"starting"}, "deaf"))
        BY <2>5 DEF DnsActivate, DnsShutdown
      <3>3. GroupDone' = GroupDone
        BY <3>1 DEF GroupDone
      <3> QED BY <2>2, <3>1, <3>2, <3>3
    <2>6. ASSUME NEW w \in Workers, HttpShutdown(w) \/ HttpDrained(w) \/ ServeFails(w)
          PROVE  EndsNeedShutdown'
      <3>1. ctx' = ctx /\ failed' = failed
        BY <2>6 DEF HttpShutdown, HttpDrained, ServeFails
      <3>2. \/ GroupDone /\ Move(w, {"serving"}, "draining")
            \/ Move(w, {"draining"}, "ok")
            \/ Move(w, {"starting", "serving", "deaf"}, "err")
        BY <2>6 DEF HttpShutdown, HttpDrained, ServeFails
      <3>3. GroupDone' = GroupDone
        BY <3>1 DEF GroupDone
      <3>4. worker[w] = "draining" => GroupDone
        BY DEF EndsNeedShutdown
      <3>5. Move(w, {"draining"}, "ok") => worker[w] = "draining"
        BY DEF Move
      <3> QED BY <2>2, <3>1, <3>2, <3>3, <3>4, <3>5
    <2>7. ASSUME NEW w \in Workers, SendToken(w) PROVE EndsNeedShutdown'
      BY <2>2, <2>7 DEF SendToken, GroupDone, Move, EndsNeedShutdown
    <2>8. ASSUME NEW w \in Workers, GroupError(w) PROVE EndsNeedShutdown'
      BY <2>2, <2>8 DEF GroupError, GroupDone
    <2>9. CASE HealthTick \/ HealthReports \/ HealthStops
      <3>1. ctx' = ctx /\ failed' = failed /\ "health" \in Workers
        BY <2>9 DEF HealthTick, HealthReports, HealthStops, Move
      <3>2. \/ Move("health", {"serving"}, "checking")
            \/ Move("health", {"checking"}, "serving")
            \/ GroupDone /\ Move("health", {"serving"}, "ok")
        BY <2>9 DEF HealthTick, HealthReports, HealthStops
      <3>3. GroupDone' = GroupDone
        BY <3>1 DEF GroupDone
      <3> QED BY <2>2, <3>1, <3>2, <3>3
    <2>10. CASE Handler \/ NotifyCancels \/ ShutdownRequest \/ SendSignal
      <3>1. /\ UNCHANGED <<worker, failed>> /\ (ctx => ctx')
            /\ ~ctx' => "notify" \in armed' /\ handler' # "watch"
        BY <2>1, <2>10 DEF Handler, Arm, TakeSignal, TakeDone, Disarm, CancelFromHandler, WatchComplete,
               Watchdog, HandlerStep, CancelRoot, NotifyCancels, ShutdownRequest, SendSignal, EndsNeedShutdown
      <3> QED BY <2>1, <3>1 DEF EndsNeedShutdown, GroupDone
    <2>11. CASE UNCHANGED vars
      BY <2>11 DEF vars, EndsNeedShutdown, GroupDone
    <2> QED BY <2>3, <2>4, <2>5, <2>6, <2>7, <2>8, <2>9, <2>10, <2>11 DEF Next, Serve
  <1> QED BY <1>1, <1>2, IndInvHolds, PTL DEF Spec

\* A step of the goroutines, seen from outside.
Phase == IF Running THEN "serving" ELSE IF proc = "exited" THEN "exited" ELSE "forced"
Working == {w \in Workers : worker[w] # "done"}
AbstractStep == [Abstract!Next]_(Abstract!vars)

\* What a step must do to be a step of GracefulShutdown, or a stutter.
LEMMA AbstractCases ==
    ASSUME \/ UNCHANGED <<Phase, GroupDone, Working>>
           \/ /\ Phase = "serving" /\ ~GroupDone /\ GroupDone' = TRUE
              /\ UNCHANGED <<Phase, Working>>
           \/ \E w \in Working : /\ Phase = "serving" /\ Working' = Working \ {w}
                                 /\ GroupDone' = TRUE /\ Phase' = Phase
           \/ /\ Phase = "serving" /\ Working = {} /\ Phase' = "exited"
              /\ UNCHANGED <<GroupDone, Working>>
           \/ /\ Phase = "serving" /\ GroupDone /\ Phase' = "forced"
              /\ UNCHANGED <<GroupDone, Working>>
    PROVE  AbstractStep
  BY DEF AbstractStep, Abstract!Next, Abstract!vars, Abstract!Begin, Abstract!Return, Abstract!Exit,
         Abstract!Force, Phase, Working

\* A step that changes a worker's state other than to "done" is no step outside.
LEMMA MoveIsInside ==
    ASSUME worker \in [Workers -> WorkerStates], NEW w \in Workers, worker[w] # "done", NEW s,
           s # "done", worker' = [worker EXCEPT ![w] = s]
    PROVE  Working' = Working
  BY DEF Working

LEMMA RunRefines ==
    ASSUME IndInv, EndsNeedShutdown, Main \/ Collector
    PROVE  AbstractStep
  <1> USE DEF ctxVars, sigVars
  <1>1. CASE Exit
    <2>1. Phase = "serving" /\ Phase' = "exited" /\ Working = {} /\ UNCHANGED <<GroupDone, Working>>
      BY <1>1 DEF Exit, Phase, Running, Working, GroupDone
    <2> QED BY <2>1, AbstractCases
  <1>2. ASSUME NEW w \in Workers, LaunchWorker(w) PROVE AbstractStep
    <2>1. worker \in [Workers -> WorkerStates] /\ worker[w] # "done"
      BY <1>2, WorkersAreKnown DEF LaunchWorker, IndInv, TypeOK, LaunchInOrder
    <2>2. PICK s \in {"starting", "checking", "serving"} : worker' = [worker EXCEPT ![w] = s]
      BY <1>2 DEF LaunchWorker
    <2>3. Working' = Working
      BY <2>1, <2>2, MoveIsInside
    <2>4. UNCHANGED <<Phase, GroupDone>>
      BY <1>2 DEF LaunchWorker, Phase, Running, GroupDone
    <2> QED BY <2>3, <2>4, AbstractCases
  <1>3. CASE LaunchCollector \/ LaunchHandler \/ Collector
    <2>1. UNCHANGED <<Phase, GroupDone, Working>>
      BY <1>3 DEF LaunchCollector, LaunchHandler, Collector, Collect, CloseComplete, Phase, Running,
             GroupDone, Working
    <2> QED BY <2>1, AbstractCases
  <1> QED BY <1>1, <1>2, <1>3 DEF Main

LEMMA WorkerRefines ==
    ASSUME IndInv, EndsNeedShutdown,
           \/ \E w \in Workers : Serve(w) \/ ServeFails(w)
           \/ HealthTick \/ HealthReports \/ HealthStops
    PROVE  AbstractStep
  <1>1. worker \in [Workers -> WorkerStates] /\ ctx \in BOOLEAN /\ failed \in BOOLEAN
    BY DEF IndInv, TypeOK
  <1>2. ASSUME NEW w, NEW from, NEW to, Move(w, from, to), to # "done", "done" \notin from,
               UNCHANGED <<ctx, failed>>
        PROVE  AbstractStep
    <2>1. Working' = Working
      BY <1>1, <1>2, MoveIsInside DEF Move
    <2>2. UNCHANGED <<Phase, GroupDone>>
      BY <1>2 DEF Move, Phase, Running, GroupDone
    <2> QED BY <2>1, <2>2, AbstractCases
  <1>3. ASSUME NEW w, NEW from, Move(w, from, "done"), "done" \notin from, GroupDone', ctx' = ctx
        PROVE  AbstractStep
    <2>1. Working' = Working \ {w} /\ w \in Working
      BY <1>1, <1>3 DEF Move, Working
    <2>2. Phase = "serving" /\ Phase' = Phase
      BY <1>3 DEF Move, Phase, Running
    <2>3. GroupDone' = TRUE
      BY <1>3 DEF GroupDone
    <2> QED BY <2>1, <2>2, <2>3, AbstractCases
  <1>4. CASE DnsActivate \/ DnsShutdown \/ HealthTick \/ HealthReports \/ HealthStops
    BY <1>2, <1>4 DEF DnsActivate, DnsShutdown, HealthTick, HealthReports, HealthStops, ctxVars
  <1>5. ASSUME NEW w, HttpShutdown(w) \/ HttpDrained(w) \/ ServeFails(w) PROVE AbstractStep
    BY <1>2, <1>5 DEF HttpShutdown, HttpDrained, ServeFails, ctxVars
  <1>6. ASSUME NEW w \in Workers, SendToken(w) PROVE AbstractStep
    <2>1. CASE Move(w, {"ok"}, "done")
      <3>1. UNCHANGED <<ctx, failed>> /\ GroupDone
        BY <1>6, <2>1 DEF SendToken, ctxVars, EndsNeedShutdown, Move
      <3> QED BY <1>3, <2>1, <3>1 DEF GroupDone
    <2>2. CASE Move(w, {"err"}, "errSent")
      BY <1>2, <1>6, <2>2 DEF SendToken, ctxVars
    <2> QED BY <1>6, <2>1, <2>2 DEF SendToken
  <1>7. ASSUME NEW w \in Workers, GroupError(w) PROVE AbstractStep
    BY <1>3, <1>7 DEF GroupError, GroupDone
  <1> QED BY <1>4, <1>5, <1>6, <1>7 DEF Serve

LEMMA SignalRefines ==
    ASSUME IndInv, EndsNeedShutdown, Handler \/ NotifyCancels \/ ShutdownRequest \/ SendSignal
    PROVE  AbstractStep
  <1> USE DEF ctxVars, sigVars
  <1>1. ctx \in BOOLEAN /\ failed \in BOOLEAN
    BY DEF IndInv, TypeOK
  <1>2. UNCHANGED <<worker, failed>> /\ Running
    BY DEF Handler, Arm, TakeSignal, TakeDone, Disarm, CancelFromHandler, WatchComplete, Watchdog,
           HandlerStep, NotifyCancels, ShutdownRequest, SendSignal
  <1>3. Working' = Working /\ Phase = "serving"
    BY <1>2 DEF Working, Phase
  <1>4. CASE UNCHANGED proc
    <2>1. Phase' = Phase
      BY <1>4 DEF Phase, Running
    <2>2. ctx' \in {ctx, TRUE}
      BY <1>1 DEF Handler, Arm, TakeSignal, TakeDone, Disarm, CancelFromHandler, WatchComplete, Watchdog,
                  HandlerStep, CancelRoot, NotifyCancels, ShutdownRequest, SendSignal
    <2>3. CASE ctx' = ctx
      <3>1. GroupDone' = GroupDone
        BY <1>2, <2>3 DEF GroupDone
      <3> QED BY <1>3, <2>1, <3>1, AbstractCases
    <2>4. CASE ctx' # ctx
      <3>1. GroupDone' = TRUE
        BY <2>2, <2>4 DEF GroupDone
      <3>2. GroupDone \in BOOLEAN
        BY <1>1 DEF GroupDone
      <3> QED BY <1>3, <2>1, <3>1, <3>2, AbstractCases
    <2> QED BY <2>3, <2>4
  <1>5. CASE proc' # proc
    <2>1. proc' \in {"forced", "killed"} /\ ctx' = ctx /\ ctx
      BY <1>1, <1>5 DEF Handler, Arm, TakeSignal, TakeDone, Disarm, CancelFromHandler, WatchComplete,
           Watchdog, HandlerStep, NotifyCancels, ShutdownRequest, SendSignal, EndsNeedShutdown
    <2>2. Phase' = "forced" /\ GroupDone /\ GroupDone' = GroupDone
      BY <1>2, <2>1 DEF Phase, Running, GroupDone
    <2> QED BY <1>3, <2>2, AbstractCases
  <1> QED BY <1>4, <1>5

\* The goroutines of runUp end the process as GracefulShutdown promises: whoever
\* returns first takes the others along, an exit leaves no worker behind, and
\* nothing cuts the process off before its shutdown has begun.
THEOREM EndsGracefully == Spec => ImplementsGracefulShutdown
  <1>1. Init => Abstract!Init
    BY DEF Init, Abstract!Init, Running, GroupDone
  <1>2. IndInv /\ EndsNeedShutdown /\ [Next]_vars => [Abstract!Next]_(Abstract!vars)
    <2> SUFFICES ASSUME IndInv, EndsNeedShutdown, [Next]_vars PROVE AbstractStep
      BY DEF AbstractStep
    <2>1. CASE UNCHANGED vars
      <3>1. UNCHANGED <<Phase, GroupDone, Working>>
        BY <2>1 DEF vars, ctxVars, Phase, Running, GroupDone, Working
      <3> QED BY <3>1, AbstractCases
    <2> QED BY <2>1, RunRefines, WorkerRefines, SignalRefines DEF Next
  <1> QED BY <1>1, <1>2, IndInvHolds, EndsNeedShutdownHolds, PTL
          DEF Spec, ImplementsGracefulShutdown, Abstract!Spec
=============================================================================
