------------------------- MODULE ServeGroup_progress -------------------------
(***************************************************************************)
(* Why a shutdown of a serving process ends, as far as it does: every step *)
(* of its goroutines brings it nearer to its end, at most 63 of them, and  *)
(* once a shutdown has begun only a DNS server that has not heard of it    *)
(* can leave all of them without a step.                                   *)
(***************************************************************************)
EXTENDS ServeGroup_proofs

-----------------------------------------------------------------------------
(* Who has a step *)

\* The guards of the goroutines, of the health check's select and of its dials.
MainCanMove ==
    \/ main # "wait"
    \/ complete /\ handler = "done" /\ \A w \in Workers : worker[w] = "done"

CollectorCanMove ==
    /\ main \in {"handler", "wait"}
    /\ tokens > 0 \/ (~complete /\ collected = Cardinality(Workers))

WorkerCanMove(w) ==
    \/ worker[w] \in {"starting", "checking", "draining", "ok", "err", "errSent"}
    \/ worker[w] = "serving" /\ GroupDone

HandlerCanMove ==
    \/ handler \in {"arm", "got", "stopped", "watch"}
    \/ handler = "select" /\ (GroupDone \/ "sigCh" \in pending)

CanMove ==
    /\ Running
    /\ \/ MainCanMove \/ CollectorCanMove \/ HandlerCanMove
       \/ "notify" \in pending /\ ~ctx
       \/ \E w \in Workers : WorkerCanMove(w)

\* What runUp has passed is launched.
Launched ==
    /\ main # "dns" => worker["dns"] # "none"
    /\ main \notin {"dns", "ipc"} => worker["ipc"] # "none"
    /\ main \notin {"dns", "ipc", "proxy"} => worker["proxy"] # "none"
    /\ main \in {"collector", "handler", "wait"} /\ "health" \in Workers => worker["health"] # "none"
    /\ main = "wait" <=> handler # "none"

\* Which states belong to which worker: only the DNS server can be deaf.
OwnStates ==
    \A w \in Workers : worker[w] = "deaf" => w = "dns"

\* A shutdown that has begun gets stuck in one way only: the DNS server was told
\* to stop before it had started, and the signal handler has learned of the
\* shutdown from the context and is gone, its watchdog with it (up.go:204-221,
\* dns/server.go:66-72).
OnlyDeafServerHangs ==
    Running /\ GroupDone /\ ~CanMove => worker["dns"] = "deaf" /\ handler = "done"

\* The goroutines are launched in order, and the states of one are not
\* those of another.
LaunchInv == Launched /\ OwnStates

LEMMA LaunchInvHolds == Spec => []LaunchInv
  <1>1. Init => LaunchInv
    BY DEF Init, LaunchInv, Launched, OwnStates
  <1>2. ASSUME IndInv, LaunchInv, [Next]_vars
        PROVE  LaunchInv'
    <2> USE <1>2, WorkersAreKnown DEF LaunchInv, ctxVars, sigVars
    <2>1. /\ worker \in [Workers -> WorkerStates] /\ main \in MainStates
          /\ "dns" \in Workers /\ "ipc" \in Workers /\ "proxy" \in Workers
      BY DEF IndInv, TypeOK
    <2>2. CASE UNCHANGED <<main, worker, handler>>
      BY <2>2 DEF Launched, OwnStates
    <2>3. ASSUME NEW w \in Workers, LaunchWorker(w)
          PROVE  LaunchInv'
      BY <2>1, <2>3 DEF LaunchWorker, NextLaunch, Launched, OwnStates, MainStates
    <2>4. CASE LaunchCollector \/ LaunchHandler
      BY <2>1, <2>4 DEF LaunchCollector, LaunchHandler, NextLaunch, Launched, OwnStates
    <2>5. ASSUME NEW w \in Workers, NEW from, NEW to, to # "none", to = "deaf" => w = "dns",
                 Move(w, from, to)
          PROVE  LaunchInv'
      BY <2>1, <2>5 DEF Move, Launched, OwnStates
    <2>6. ASSUME NEW w \in Workers, Serve(w) \/ ServeFails(w)
          PROVE  LaunchInv'
      <3>1. PICK to \in {"serving", "ok", "deaf", "draining", "done", "errSent", "err"} :
                (to = "deaf" => w = "dns") /\ \E from \in SUBSET WorkerStates : Move(w, from, to)
        <4>1. \A from \in {{"starting"}, {"serving"}, {"draining"}, {"ok"}, {"err"}, {"errSent"},
                            {"starting", "serving", "deaf"}} : from \in SUBSET WorkerStates
          BY DEF WorkerStates
        <4> QED BY <2>6, <4>1 DEF Serve, ServeFails, DnsActivate, DnsShutdown, HttpShutdown,
                                  HttpDrained, SendToken, GroupError
      <3> QED BY <2>5, <3>1
    <2>7. CASE HealthTick \/ HealthReports \/ HealthStops
      <3>1. "health" \in Workers
        BY <2>7 DEF HealthTick, HealthReports, HealthStops, Move
      <3> QED BY <2>5, <2>7, <3>1 DEF HealthTick, HealthReports, HealthStops
    <2>8. CASE Handler
      <3>1. UNCHANGED <<main, worker>> /\ handler # "none" /\ handler' # "none"
        BY <2>8 DEF Handler, Arm, TakeSignal, TakeDone, Disarm, CancelFromHandler, WatchComplete, Watchdog,
               HandlerStep
      <3> QED BY <3>1 DEF Launched, OwnStates
    <2>9. CASE Exit \/ Collector \/ NotifyCancels \/ ShutdownRequest \/ SendSignal \/ UNCHANGED vars
      BY <2>2, <2>9 DEF Exit, Collector, Collect, CloseComplete, NotifyCancels, ShutdownRequest,
                         SendSignal, vars
    <2> QED BY <2>3, <2>4, <2>6, <2>7, <2>8, <2>9 DEF Next, Main
  <1> QED BY <1>1, <1>2, IndInvHolds, PTL DEF Spec

\* Whoever has begun to shut down and has no goroutine with a step left has met
\* a DNS server that never heard of it, and no watchdog is there.
THEOREM HangsInOneWay == Spec => []OnlyDeafServerHangs
  <1>1. ASSUME IndInv, LaunchInv
        PROVE  OnlyDeafServerHangs
    <2> SUFFICES ASSUME Running, GroupDone, ~CanMove
                 PROVE  worker["dns"] = "deaf" /\ handler = "done"
      BY DEF OnlyDeafServerHangs
    <2>1. ~MainCanMove /\ ~CollectorCanMove /\ ~HandlerCanMove /\ \A w \in Workers : ~WorkerCanMove(w)
      BY DEF CanMove
    <2>2. main = "wait" /\ handler = "done"
      <3>1. main = "wait"
        BY <2>1 DEF MainCanMove
      <3>2. handler # "none"
        BY <1>1, <3>1 DEF LaunchInv, Launched
      <3> QED BY <1>1, <2>1, <3>1, <3>2 DEF HandlerCanMove, IndInv, TypeOK, HandlerStates
    <2>3. \A w \in Workers : worker[w] \in {"done", "deaf"}
      <3> SUFFICES ASSUME NEW w \in Workers PROVE worker[w] \in {"done", "deaf"}
        OBVIOUS
      <3>1. worker[w] # "none"
        BY <1>1, <2>2, WorkersAreKnown DEF LaunchInv, Launched
      <3>2. worker[w] \in WorkerStates
        BY <1>1 DEF IndInv, TypeOK
      <3> QED BY <2>1, <3>1, <3>2 DEF WorkerCanMove, WorkerStates
    <2>4. SUFFICES ASSUME worker["dns"] # "deaf" PROVE FALSE
      BY <2>2
    <2>5. \A w \in Workers : worker[w] = "done"
      BY <1>1, <2>3, <2>4 DEF LaunchInv, OwnStates
    <2>6. collected = Cardinality(Workers)
      <3>1. ReturnedWorkers = Workers
        BY <2>5 DEF ReturnedWorkers, Returned
      <3>2. tokens + collected = Cardinality(Workers) /\ tokens \in Nat /\ ~(tokens > 0) /\ collected \in Nat
        BY <1>1, <2>1, <2>2, <3>1, WorkersAreFinite DEF IndInv, TypeOK, TokensAreWorkers, CollectorCanMove
      <3> QED BY <3>2
    <2>7. complete
      BY <2>1, <2>2, <2>6 DEF CollectorCanMove
    <2> QED BY <2>1, <2>2, <2>5, <2>7 DEF MainCanMove
  <1> QED BY <1>1, IndInvHolds, LaunchInvHolds, PTL

-----------------------------------------------------------------------------
(* How many steps are left *)

WorkerLeft == [none |-> 6, starting |-> 5, serving |-> 4, checking |-> 4, deaf |-> 3,
               draining |-> 3, err |-> 2, errSent |-> 1, ok |-> 1, done |-> 0]
MainLeft == [dns |-> 6, ipc |-> 5, proxy |-> 4, health |-> 3, collector |-> 2, handler |-> 1, wait |-> 0]
HandlerLeft == [none |-> 6, arm |-> 5, select |-> 4, got |-> 3, stopped |-> 2, watch |-> 1, done |-> 0]

LeftOf(w) == IF w \in Workers THEN WorkerLeft[worker[w]] ELSE 0
WorkersLeft == LeftOf("dns") + LeftOf("ipc") + LeftOf("proxy") + LeftOf("health")

CompleteLeft == IF complete THEN 0 ELSE 1
CtxLeft == IF ctx THEN 0 ELSE 1
ProcLeft == IF Running THEN 1 ELSE 0
OthersLeft == MainLeft[main] + HandlerLeft[handler] + CompleteLeft + CtxLeft + ProcLeft

\* A worker's last step leaves a token to the collector, hence its weight.
Rank == 2 * WorkersLeft + tokens + OthersLeft

\* No step of anybody takes the process further from its end, and each step of a
\* goroutine takes it nearer: none of them loops, and nothing that comes from
\* outside, a signal, a request or an error, sets them back.
NeverFarther == Rank' <= Rank
AlwaysNearer == Goroutines \/ HealthStops => Rank' < Rank

LEMMA LeftIsNatural ==
    /\ \A s \in WorkerStates : WorkerLeft[s] \in 0..6
    /\ \A m \in MainStates : MainLeft[m] \in 0..6
    /\ \A h \in HandlerStates : HandlerLeft[h] \in 0..6
  BY DEF WorkerLeft, MainLeft, HandlerLeft, WorkerStates, MainStates, HandlerStates

\* The parts of the rank are numbers.
LEMMA RankParts ==
    ASSUME IndInv
    PROVE  /\ MainLeft[main] \in 0..6 /\ HandlerLeft[handler] \in 0..6
           /\ CompleteLeft \in 0..1 /\ CtxLeft \in 0..1 /\ ProcLeft \in 0..1
           /\ \A w \in {"dns", "ipc", "proxy", "health"} : LeftOf(w) \in 0..6
           /\ WorkersLeft \in 0..24 /\ tokens \in Nat /\ OthersLeft \in 0..15 /\ Rank \in Nat
  <1>1. /\ MainLeft[main] \in 0..6 /\ HandlerLeft[handler] \in 0..6
        /\ \A w \in Workers : WorkerLeft[worker[w]] \in 0..6
    BY LeftIsNatural DEF IndInv, TypeOK
  <1>2. \A w \in {"dns", "ipc", "proxy", "health"} : LeftOf(w) \in 0..6
    BY <1>1 DEF LeftOf
  <1>3. WorkersLeft \in 0..24
    BY <1>2 DEF WorkersLeft
  <1>4. tokens \in Nat
    BY WorkersAreFinite DEF IndInv, TypeOK
  <1>5. CompleteLeft \in 0..1 /\ CtxLeft \in 0..1 /\ ProcLeft \in 0..1
    BY DEF CompleteLeft, CtxLeft, ProcLeft
  <1>6. OthersLeft \in 0..15
    BY <1>1, <1>5 DEF OthersLeft
  <1> QED BY <1>1, <1>2, <1>3, <1>4, <1>5, <1>6 DEF Rank

\* One worker's step changes one summand.
LEMMA OneWorkerMoves ==
    ASSUME IndInv, NEW w \in Workers, NEW s \in WorkerStates, worker' = [worker EXCEPT ![w] = s]
    PROVE  WorkersLeft' = WorkersLeft - WorkerLeft[worker[w]] + WorkerLeft[s]
  <1>1. worker \in [Workers -> WorkerStates]
    BY DEF IndInv, TypeOK
  <1>2. WorkerLeft[s] \in 0..6 /\ WorkerLeft[worker[w]] \in 0..6
    BY <1>1, LeftIsNatural
  <1>3. LeftOf(w)' = WorkerLeft[s] /\ LeftOf(w) = WorkerLeft[worker[w]]
    BY <1>1 DEF LeftOf
  <1>4. \A v \in {"dns", "ipc", "proxy", "health"} : v # w => LeftOf(v)' = LeftOf(v)
    BY <1>1 DEF LeftOf
  <1>5. w \in {"dns", "ipc", "proxy", "health"}
    BY WorkersAreKnown
  <1>6. \A v \in {"dns", "ipc", "proxy", "health"} : LeftOf(v) \in 0..6
    BY RankParts
  <1>7. CASE w = "dns"     BY <1>2, <1>3, <1>4, <1>6, <1>7 DEF WorkersLeft
  <1>8. CASE w = "ipc"     BY <1>2, <1>3, <1>4, <1>6, <1>8 DEF WorkersLeft
  <1>9. CASE w = "proxy"   BY <1>2, <1>3, <1>4, <1>6, <1>9 DEF WorkersLeft
  <1>10. CASE w = "health" BY <1>2, <1>3, <1>4, <1>6, <1>10 DEF WorkersLeft
  <1> QED BY <1>5, <1>7, <1>8, <1>9, <1>10

Nearer == Rank' < Rank

\* A context stays cancelled, and a process that has ended has ended.
LEMMA CtxNeverReopens ==
    ASSUME IndInv, ctx' \in {ctx, TRUE}
    PROVE  CtxLeft' <= CtxLeft /\ CtxLeft' \in Int
  <1>1. CASE ctx' = ctx
    BY <1>1 DEF CtxLeft
  <1>2. CASE ctx' = TRUE
    BY <1>2 DEF CtxLeft
  <1> QED BY <1>1, <1>2

LEMMA OneForTwo ==
    ASSUME NEW a \in Int, NEW b \in Int, NEW c \in Int, NEW d \in Int, NEW o \in Int,
           a <= b - 1, c <= d + 1
    PROVE  2 * a + c + o < 2 * b + d + o
  OBVIOUS

\* A step of one worker to a later state, with its token or without.
LEMMA MoveIsNearer ==
    ASSUME IndInv, NEW w \in Workers, NEW from \in SUBSET WorkerStates, NEW to \in WorkerStates,
           Move(w, from, to), \A s \in from : WorkerLeft[to] < WorkerLeft[s],
           tokens' \in {tokens, tokens + 1}, UNCHANGED ctx
    PROVE  Nearer
  <1>1. /\ WorkersLeft' = WorkersLeft - WorkerLeft[worker[w]] + WorkerLeft[to]
        /\ WorkerLeft[to] < WorkerLeft[worker[w]]
    BY OneWorkerMoves DEF Move
  <1>2. OthersLeft' = OthersLeft
    BY DEF Move, OthersLeft, CompleteLeft, CtxLeft, ProcLeft, Running
  <1>3. WorkerLeft[to] \in 0..6 /\ WorkerLeft[worker[w]] \in 0..6
    BY LeftIsNatural DEF IndInv, TypeOK
  <1>4. /\ WorkersLeft \in Int /\ WorkersLeft' \in Int /\ WorkersLeft' <= WorkersLeft - 1
        /\ tokens \in Int /\ tokens' \in Int /\ tokens' <= tokens + 1 /\ OthersLeft \in Int
    <2>1. WorkersLeft \in Int /\ tokens \in Int /\ OthersLeft \in Int
      BY RankParts
    <2> QED BY <1>1, <1>3, <2>1
  <1>5. 2 * WorkersLeft' + tokens' + OthersLeft < 2 * WorkersLeft + tokens + OthersLeft
    BY <1>4, OneForTwo
  <1> QED BY <1>2, <1>5 DEF Nearer, Rank

\* The steps of the workers.
LEMMA WorkerIsNearer ==
    ASSUME IndInv, NEW w \in Workers, Serve(w) \/ ServeFails(w) \/ HealthStops
    PROVE  Nearer
  <1> DEFINE Sinks(from, to) == /\ from \in SUBSET WorkerStates /\ to \in WorkerStates
                                /\ \A s \in from : WorkerLeft[to] < WorkerLeft[s]
  <1> USE DEF ctxVars
  <1>1. /\ Sinks({"starting"}, "serving") /\ Sinks({"serving"}, "ok") /\ Sinks({"starting"}, "deaf")
        /\ Sinks({"serving"}, "draining") /\ Sinks({"draining"}, "ok")
        /\ Sinks({"starting", "serving", "deaf"}, "err")
        /\ Sinks({"ok"}, "done") /\ Sinks({"err"}, "errSent") /\ Sinks({"errSent"}, "done")
    BY DEF WorkerLeft, WorkerStates
  <1>2. ASSUME NEW v \in Workers, NEW from, NEW to, Sinks(from, to), Move(v, from, to),
               tokens' \in {tokens, tokens + 1}, UNCHANGED ctx
        PROVE  Nearer
    BY <1>2, MoveIsNearer
  <1> HIDE DEF Sinks
  <1>3. CASE DnsActivate \/ DnsShutdown
    BY <1>1, <1>2, <1>3, WorkersAreKnown DEF DnsActivate, DnsShutdown
  <1>4. CASE HttpShutdown(w) \/ HttpDrained(w) \/ ServeFails(w)
    BY <1>1, <1>2, <1>4 DEF HttpShutdown, HttpDrained, ServeFails
  <1>5. CASE SendToken(w) \/ GroupError(w)
    BY <1>1, <1>2, <1>5 DEF SendToken, GroupError
  <1>6. CASE HealthStops
    <2>1. "health" \in Workers
      BY <1>6 DEF HealthStops, Move
    <2> QED BY <1>1, <1>2, <1>6, <2>1 DEF HealthStops
  <1> QED BY <1>3, <1>4, <1>5, <1>6 DEF Serve

\* What does not touch the workers.
LEMMA SameWorkers == UNCHANGED worker => WorkersLeft' = WorkersLeft
  BY DEF WorkersLeft, LeftOf

LEMMA RunIsNearer ==
    ASSUME IndInv, LaunchInv, Main \/ Collector
    PROVE  Nearer
  <1> USE RankParts DEF ctxVars, sigVars
  <1>1. ASSUME NEW w \in Workers, LaunchWorker(w)
        PROVE  Nearer
    <2>1. OthersLeft' < OthersLeft /\ OthersLeft' \in Int /\ tokens' = tokens
      <3>1. MainLeft[main]' < MainLeft[main] /\ MainLeft[main]' \in 0..6
        BY <1>1, WorkersAreKnown DEF LaunchWorker, NextLaunch, MainLeft
      <3> QED BY <1>1, <3>1 DEF LaunchWorker, OthersLeft, CompleteLeft, CtxLeft, ProcLeft, Running
    <2>2. PICK s \in {"starting", "checking", "serving"} : worker' = [worker EXCEPT ![w] = s]
      BY <1>1 DEF LaunchWorker
    <2>3. worker[w] = "none"
      BY <1>1, WorkersAreKnown DEF LaunchWorker, IndInv, LaunchInOrder
    <2>4. WorkersLeft' = WorkersLeft - WorkerLeft[worker[w]] + WorkerLeft[s]
      BY <2>2, OneWorkerMoves DEF WorkerStates
    <2>5. WorkerLeft[worker[w]] = 6 /\ WorkerLeft[s] \in {4, 5}
      BY <2>2, <2>3 DEF WorkerLeft
    <2>6. WorkersLeft' < WorkersLeft /\ WorkersLeft' \in Int
      BY <2>4, <2>5
    <2> QED BY <2>1, <2>6 DEF Nearer, Rank
  <1>2. ASSUME OthersLeft' < OthersLeft, OthersLeft' \in Int, UNCHANGED <<worker, tokens>>
        PROVE  Nearer
    BY <1>2, SameWorkers DEF Nearer, Rank
  <1>3. CASE LaunchCollector
    <2>1. MainLeft[main]' < MainLeft[main] /\ MainLeft[main]' \in 0..6
      BY <1>3 DEF LaunchCollector, NextLaunch, MainLeft
    <2> QED BY <1>2, <1>3, <2>1 DEF LaunchCollector, OthersLeft, CompleteLeft, CtxLeft, ProcLeft, Running
  <1>4. CASE LaunchHandler
    <2>1. /\ MainLeft[main]' = MainLeft[main] - 1
          /\ HandlerLeft[handler]' = HandlerLeft[handler] - 1
      BY <1>4 DEF LaunchHandler, NextLaunch, MainLeft, HandlerLeft, LaunchInv, Launched
    <2> QED BY <1>2, <1>4, <2>1 DEF LaunchHandler, OthersLeft, CompleteLeft, CtxLeft, ProcLeft, Running
  <1>5. CASE Exit
    BY <1>2, <1>5 DEF Exit, OthersLeft, CompleteLeft, CtxLeft, ProcLeft, Running
  <1>6. CASE Collect
    <2>1. OthersLeft' = OthersLeft /\ tokens' = tokens - 1 /\ WorkersLeft' = WorkersLeft
      BY <1>6, SameWorkers DEF Collect, OthersLeft, CompleteLeft, CtxLeft, ProcLeft, Running
    <2> QED BY <2>1 DEF Nearer, Rank
  <1>7. CASE CloseComplete
    BY <1>2, <1>7 DEF CloseComplete, OthersLeft, CompleteLeft, CtxLeft, ProcLeft, Running
  <1> QED BY <1>1, <1>3, <1>4, <1>5, <1>6, <1>7 DEF Main, Collector

\* The signal handler and the contexts.
LEMMA SignalIsNearer ==
    ASSUME IndInv, Handler \/ NotifyCancels
    PROVE  Nearer
  <1> USE RankParts DEF ctxVars, sigVars
  <1>1. ASSUME OthersLeft' < OthersLeft, OthersLeft' \in Int, UNCHANGED <<worker, tokens>>
        PROVE  Nearer
    BY <1>1, SameWorkers DEF Nearer, Rank
  <1>2. CASE NotifyCancels
    BY <1>1, <1>2 DEF NotifyCancels, OthersLeft, CompleteLeft, CtxLeft, ProcLeft, Running
  <1>3. CASE Watchdog
    BY <1>1, <1>3 DEF Watchdog, HandlerStep, OthersLeft, CompleteLeft, CtxLeft, ProcLeft, Running
  <1>4. CASE Arm \/ TakeSignal \/ TakeDone \/ Disarm \/ CancelFromHandler \/ WatchComplete
    <2>1. HandlerLeft[handler]' < HandlerLeft[handler] /\ HandlerLeft[handler]' \in 0..6
      BY <1>4 DEF Arm, TakeSignal, TakeDone, Disarm, CancelFromHandler, WatchComplete, HandlerStep,
                  HandlerLeft
    <2>2. UNCHANGED <<main, worker, tokens, complete, proc>> /\ ctx' \in {ctx, TRUE} /\ ctx \in BOOLEAN
      BY <1>4 DEF Arm, TakeSignal, TakeDone, Disarm, CancelFromHandler, WatchComplete, HandlerStep,
                  CancelRoot, IndInv, TypeOK
    <2>3. CompleteLeft' = CompleteLeft /\ ProcLeft' = ProcLeft
      BY <2>2 DEF CompleteLeft, ProcLeft, Running
    <2>4. CtxLeft' <= CtxLeft /\ CtxLeft' \in Int
      BY <2>2, CtxNeverReopens
    <2> QED BY <1>1, <2>1, <2>2, <2>3, <2>4 DEF OthersLeft
  <1> QED BY <1>2, <1>3, <1>4 DEF Handler

\* What comes from outside, and the rounds of the health check.
LEMMA OutsideNeverFarther ==
    ASSUME IndInv, HealthTick \/ HealthReports \/ ShutdownRequest \/ SendSignal \/ UNCHANGED vars
    PROVE  Rank' <= Rank
  <1> USE RankParts DEF ctxVars, sigVars
  <1>1. ASSUME OthersLeft' <= OthersLeft, OthersLeft' \in Int, WorkersLeft' = WorkersLeft, tokens' = tokens
        PROVE  Rank' <= Rank
    BY <1>1 DEF Rank
  <1>2. CASE HealthTick \/ HealthReports
    <2>1. PICK from \in {"serving", "checking"}, to \in {"serving", "checking"} :
              /\ "health" \in Workers /\ worker["health"] = from
              /\ worker' = [worker EXCEPT !["health"] = to]
      BY <1>2 DEF HealthTick, HealthReports, Move
    <2>2. WorkersLeft' = WorkersLeft - WorkerLeft[from] + WorkerLeft[to]
      BY <2>1, OneWorkerMoves DEF WorkerStates
    <2>3. WorkersLeft' = WorkersLeft
      BY <2>2 DEF WorkerLeft
    <2>4. OthersLeft' = OthersLeft /\ tokens' = tokens
      BY <1>2 DEF HealthTick, HealthReports, Move, OthersLeft, CompleteLeft, CtxLeft, ProcLeft, Running
    <2> QED BY <1>1, <2>3, <2>4
  <1>3. CASE ShutdownRequest \/ SendSignal \/ UNCHANGED vars
    <2>1. UNCHANGED <<main, worker, tokens, complete, handler>> /\ ctx' \in {ctx, TRUE} /\ ctx \in BOOLEAN
      BY <1>3 DEF ShutdownRequest, SendSignal, vars, CancelRoot, IndInv, TypeOK
    <2>2. Running \/ ~Running'
      BY <1>3 DEF ShutdownRequest, SendSignal, vars, Running
    <2>3. CtxLeft' <= CtxLeft /\ CtxLeft' \in Int /\ CompleteLeft' = CompleteLeft
      BY <2>1, CtxNeverReopens DEF CompleteLeft
    <2>4. ProcLeft' <= ProcLeft /\ ProcLeft' \in Int
      BY <2>2 DEF ProcLeft
    <2>5. OthersLeft' <= OthersLeft /\ OthersLeft' \in Int
      BY <2>1, <2>3, <2>4 DEF OthersLeft
    <2> QED BY <1>1, <2>1, <2>5, SameWorkers
  <1> QED BY <1>2, <1>3

\* A serving process takes at most 63 steps to its end, beside the rounds of its
\* health check, for any number of signals.
THEOREM StepsRunOut == Spec => [](Rank \in 0..63) /\ [][NeverFarther]_vars /\ [][AlwaysNearer]_vars
  <1>1. IndInv => Rank \in Nat
    BY RankParts
  <1>2. ASSUME IndInv, LaunchInv, (Rank \in Nat)', [Next]_vars
        PROVE  NeverFarther /\ AlwaysNearer
    <2>1. CASE Goroutines \/ HealthStops \/ \E w \in Workers : ServeFails(w)
      <3>1. Nearer
        BY <1>2, <2>1, RunIsNearer, SignalIsNearer, WorkerIsNearer, WorkersAreKnown DEF Goroutines
      <3>2. Rank \in Nat /\ Rank' \in Nat
        BY <1>1, <1>2
      <3> QED BY <3>1, <3>2 DEF Nearer, NeverFarther, AlwaysNearer
    <2>2. CASE ~(Goroutines \/ HealthStops) /\ ~\E w \in Workers : ServeFails(w)
      <3>1. HealthTick \/ HealthReports \/ ShutdownRequest \/ SendSignal \/ UNCHANGED vars
        BY <1>2, <2>2 DEF Next, Goroutines
      <3> QED BY <1>2, <2>2, <3>1, OutsideNeverFarther DEF NeverFarther, AlwaysNearer
    <2> QED BY <2>1, <2>2
  <1>3. ASSUME Init, IndInv
        PROVE  Rank \in 0..63
    <2>1. WorkersLeft \in 0..24 /\ OthersLeft \in 0..15 /\ tokens = 0
      BY <1>3, RankParts DEF Init
    <2>2. Rank = 2 * WorkersLeft + OthersLeft
      BY <2>1 DEF Rank
    <2> QED BY <2>1, <2>2
  <1>4. ASSUME Rank \in 0..63, (Rank \in Nat)', NeverFarther
        PROVE  (Rank \in 0..63)'
    BY <1>4 DEF NeverFarther
  <1> QED BY <1>1, <1>2, <1>3, <1>4, IndInvHolds, LaunchInvHolds, PTL DEF Spec
=============================================================================
