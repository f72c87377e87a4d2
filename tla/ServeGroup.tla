----------------------------- MODULE ServeGroup -----------------------------
(***************************************************************************)
(* The goroutines of one serving `devtether up` process, as runUp of       *)
(* internal/cli/up.go starts them once the three listeners are bound: an   *)
(* errgroup with a worker per server and the health check, a collector     *)
(* that counts the workers that have returned, and the signal handler with *)
(* its watchdog.  Two things end them: the root context that               *)
(* signal.NotifyContext made (a signal, or cancel() from the IPC handler), *)
(* and the first worker error, which cancels the group's context.          *)
(***************************************************************************)
EXTENDS Naturals, FiniteSets

CONSTANTS
    Workers,     \* "dns", "ipc", "proxy", and "health" when there are routes
    MaxSignals   \* bound on the signals sent to the process

ASSUME WorkersAreKnown == {"dns", "ipc", "proxy"} \subseteq Workers
                          /\ Workers \subseteq {"dns", "ipc", "proxy", "health"}
ASSUME SignalsAreBounded == MaxSignals \in Nat

VARIABLES
    main,       \* what runUp launches next, or "wait" in g.Wait
    worker,     \* worker[w]: the goroutine of worker w
    tokens,     \* the tokens in the workerDone channel
    collected,  \* the tokens the collector has received
    complete,   \* workersComplete is closed
    handler,    \* the signal handler goroutine
    armed,      \* the channels registered for SIGINT and SIGTERM
    pending,    \* the channels that hold a signal
    ctx,        \* the root context is cancelled
    failed,     \* the errgroup has seen an error
    sent,       \* the signals sent so far
    proc        \* the process

ctxVars == <<ctx, failed>>
sigVars == <<armed, pending, sent>>
vars == <<main, worker, tokens, collected, complete, handler, ctxVars, sigVars, proc>>

\* The two channels: NotifyContext's own, and sigCh of the handler.
Channels == {"notify", "sigCh"}

\* What runUp launches, in its order, before g.Wait.
MainStates == {"dns", "ipc", "proxy", "health", "collector", "handler", "wait"}

\* "starting" and "deaf" are the DNS server's: before ActivateAndServe has
\* marked it started, and after the only ShutdownContext call came before that.
\* "checking": the health check is between its dials and their results.
\* "ok" and "err": the function has returned; "errSent": its token is sent.
WorkerStates == {"none", "starting", "serving", "checking", "deaf", "draining", "ok", "err", "errSent", "done"}
HandlerStates == {"none", "arm", "select", "got", "stopped", "watch", "done"}
ProcStates == {"running", "exited", "forced", "killed"}

Running == proc = "running"

\* gCtx, the errgroup's context: a child of ctx.
GroupDone == ctx \/ failed

Returned(w) == worker[w] \in {"errSent", "done"}

TypeOK ==
    /\ main \in MainStates
    /\ worker \in [Workers -> WorkerStates]
    /\ tokens \in 0..Cardinality(Workers)
    /\ collected \in 0..Cardinality(Workers)
    /\ complete \in BOOLEAN
    /\ handler \in HandlerStates
    /\ armed \subseteq Channels /\ pending \subseteq Channels
    /\ ctx \in BOOLEAN /\ failed \in BOOLEAN
    /\ sent \in 0..MaxSignals
    /\ proc \in ProcStates

\* NotifyContext was installed before the listeners were bound.
Init ==
    /\ main = "dns"
    /\ worker = [w \in Workers |-> "none"]
    /\ tokens = 0 /\ collected = 0 /\ complete = FALSE
    /\ handler = "none"
    /\ armed = {"notify"} /\ pending = {}
    /\ ctx = FALSE /\ failed = FALSE
    /\ sent = 0
    /\ proc = "running"

-----------------------------------------------------------------------------
(* runUp *)

NextLaunch == CASE main = "dns" -> "ipc"
                [] main = "ipc" -> "proxy"
                [] main = "proxy" -> IF "health" \in Workers THEN "health" ELSE "collector"
                [] main = "health" -> "collector"
                [] main = "collector" -> "handler"
                [] main = "handler" -> "wait"

LaunchWorker(w) ==
    /\ Running
    /\ main = w
    /\ main' = NextLaunch
    /\ worker' = [worker EXCEPT ![w] = CASE w = "dns" -> "starting"
                                             [] w = "health" -> "checking"
                                             [] OTHER -> "serving"]
    /\ UNCHANGED <<tokens, collected, complete, handler, ctxVars, sigVars, proc>>

LaunchCollector ==
    /\ Running
    /\ main = "collector"
    /\ main' = NextLaunch
    /\ UNCHANGED <<worker, tokens, collected, complete, handler, ctxVars, sigVars, proc>>

LaunchHandler ==
    /\ Running
    /\ main = "handler"
    /\ main' = NextLaunch
    /\ handler' = "arm"
    /\ UNCHANGED <<worker, tokens, collected, complete, ctxVars, sigVars, proc>>

\* g.Wait returns, and so does runUp: every goroutine of the group has returned.
Exit ==
    /\ Running
    /\ main = "wait"
    /\ complete
    /\ handler = "done"
    /\ \A w \in Workers : worker[w] = "done"
    /\ proc' = "exited"
    /\ UNCHANGED <<main, worker, tokens, collected, complete, handler, ctxVars, sigVars>>

-----------------------------------------------------------------------------
(* The workers *)

Move(w, from, to) ==
    /\ Running
    /\ w \in Workers
    /\ worker[w] \in from
    /\ worker' = [worker EXCEPT ![w] = to]
    /\ UNCHANGED <<main, collected, complete, handler, sigVars, proc>>

\* dns.Server.ActivateAndServe marks the server started.
DnsActivate == Move("dns", {"starting"}, "serving") /\ UNCHANGED <<tokens, ctxVars>>

\* The one ShutdownContext call: a server not yet started reports an error
\* that is dropped, and then starts.
DnsShutdown ==
    /\ GroupDone
    /\ Move("dns", {"serving"}, "ok") \/ Move("dns", {"starting"}, "deaf")
    /\ UNCHANGED <<tokens, ctxVars>>

\* Defect: the HTTP servers are given the root context, not the group's.
HttpShutdownOnRootOnly(w) ==
    /\ w \in {"proxy", "ipc"}
    /\ ctx
    /\ Move(w, {"serving"}, "draining")
    /\ UNCHANGED <<tokens, ctxVars>>

\* http.Server.Shutdown of the proxy and of the IPC server: bounded draining,
\* also when it comes before Serve.
HttpShutdown(w) ==
    /\ w \in {"proxy", "ipc"}
    /\ GroupDone
    /\ Move(w, {"serving"}, "draining")
    /\ UNCHANGED <<tokens, ctxVars>>

HttpDrained(w) == w \in {"proxy", "ipc"} /\ Move(w, {"draining"}, "ok") /\ UNCHANGED <<tokens, ctxVars>>

\* The 3 s ticker starts another check.
HealthTick == Move("health", {"serving"}, "checking") /\ UNCHANGED <<tokens, ctxVars>>

\* All dials have returned, each within its 200 ms; what they report is left out.
HealthReports == Move("health", {"checking"}, "serving") /\ UNCHANGED <<tokens, ctxVars>>

\* The health check loop ends with the group's context.
HealthStops == GroupDone /\ Move("health", {"serving"}, "ok") /\ UNCHANGED <<tokens, ctxVars>>

\* A server's Serve returns an error.
ServeFails(w) ==
    /\ w \in {"dns", "proxy", "ipc"}
    /\ Move(w, {"starting", "serving", "deaf"}, "err")
    /\ UNCHANGED <<tokens, ctxVars>>

\* The deferred send on workerDone, before the errgroup sees the result.
SendToken(w) ==
    /\ \/ Move(w, {"ok"}, "done")
       \/ Move(w, {"err"}, "errSent")
    /\ tokens' = tokens + 1
    /\ UNCHANGED ctxVars

\* Defect: a plain errgroup, whose first error Wait returns and nobody else sees.
GroupErrorUnseen(w) == Move(w, {"errSent"}, "done") /\ UNCHANGED <<tokens, ctxVars>>

\* The errgroup records the first error and cancels its context.
GroupError(w) ==
    /\ Move(w, {"errSent"}, "done")
    /\ failed' = TRUE
    /\ UNCHANGED <<tokens, ctx>>

\* `cancel` of NotifyContext: the context ends, and its channel is disarmed.
CancelRoot == ctx' = TRUE /\ armed' = armed \ {"notify"}

\* A /shutdown request is served: the IPC handler calls cancel.  One that is
\* served while a signal already drains the server still disarms the channel.
ShutdownRequest ==
    /\ Running
    /\ worker["ipc"] \in {"serving", "draining"}
    /\ CancelRoot
    /\ UNCHANGED <<main, worker, tokens, collected, complete, handler, failed, pending, sent, proc>>

\* Defect: a token is counted and left in the channel.
CollectAgain ==
    /\ Running
    /\ main \in {"handler", "wait"}
    /\ tokens > 0
    /\ collected' = collected + 1
    /\ UNCHANGED <<main, worker, tokens, complete, handler, ctxVars, sigVars, proc>>

\* The collector receives a token.
Collect ==
    /\ Running
    /\ main \in {"handler", "wait"}
    /\ tokens > 0
    /\ tokens' = tokens - 1
    /\ collected' = collected + 1
    /\ UNCHANGED <<main, worker, complete, handler, ctxVars, sigVars, proc>>

\* Defect: the health check is not among the workers counted.
CloseWithoutHealth ==
    /\ Running
    /\ main \in {"handler", "wait"}
    /\ ~complete
    /\ collected = Cardinality(Workers \ {"health"})
    /\ complete' = TRUE
    /\ UNCHANGED <<main, worker, tokens, collected, handler, ctxVars, sigVars, proc>>

\* ... and closes workersComplete after workerCount of them.
CloseComplete ==
    /\ Running
    /\ main \in {"handler", "wait"}
    /\ ~complete
    /\ collected = Cardinality(Workers)
    /\ complete' = TRUE
    /\ UNCHANGED <<main, worker, tokens, collected, handler, ctxVars, sigVars, proc>>

-----------------------------------------------------------------------------
(* Signals *)

\* SIGINT or SIGTERM: every registered channel gets it (its buffer holds one);
\* with none registered the default action ends the process.
SendSignal ==
    /\ Running
    /\ sent < MaxSignals
    /\ sent' = sent + 1
    /\ pending' = pending \cup armed
    /\ proc' = IF armed = {} THEN "killed" ELSE proc
    /\ UNCHANGED <<main, worker, tokens, collected, complete, handler, ctxVars, armed>>

\* The goroutine of NotifyContext cancels the context, and leaves its channel armed.
NotifyCancels ==
    /\ Running
    /\ "notify" \in pending
    /\ ~ctx
    /\ ctx' = TRUE
    /\ UNCHANGED <<main, worker, tokens, collected, complete, handler, failed, sigVars, proc>>

HandlerStep(from, to) ==
    /\ Running
    /\ handler = from
    /\ handler' = to
    /\ UNCHANGED <<main, worker, tokens, collected, complete, failed, sent>>

Arm ==
    /\ HandlerStep("arm", "select")
    /\ armed' = armed \cup {"sigCh"}
    /\ UNCHANGED <<pending, ctx, proc>>

\* The select of the handler: either ready case may be taken.
TakeSignal ==
    /\ HandlerStep("select", "got")
    /\ "sigCh" \in pending
    /\ pending' = pending \ {"sigCh"}
    /\ UNCHANGED <<armed, ctx, proc>>

TakeDone ==
    /\ HandlerStep("select", "done")
    /\ GroupDone
    /\ UNCHANGED <<armed, pending, ctx, proc>>

\* Defect: signal.Stop is forgotten.
KeepArmed == HandlerStep("got", "stopped") /\ UNCHANGED <<armed, pending, ctx, proc>>

Disarm ==
    /\ HandlerStep("got", "stopped")
    /\ armed' = armed \ {"sigCh"}
    /\ UNCHANGED <<pending, ctx, proc>>

CancelFromHandler ==
    /\ HandlerStep("stopped", "watch")
    /\ CancelRoot
    /\ UNCHANGED <<pending, proc>>

WatchComplete ==
    /\ HandlerStep("watch", "done")
    /\ complete
    /\ UNCHANGED <<armed, pending, ctx, proc>>

\* Defect: nothing happens when the timer fires.
WatchdogIdle == HandlerStep("watch", "watch") /\ UNCHANGED <<armed, pending, ctx, proc>>

\* The 15 s timer fires first: os.Exit(1).
Watchdog ==
    /\ HandlerStep("watch", "watch")
    /\ proc' = "forced"
    /\ UNCHANGED <<armed, pending, ctx>>

Handler == Arm \/ TakeSignal \/ TakeDone \/ Disarm \/ CancelFromHandler \/ WatchComplete \/ Watchdog

Main == (\E w \in Workers : LaunchWorker(w)) \/ LaunchCollector \/ LaunchHandler \/ Exit
Collector == Collect \/ CloseComplete
Serve(w) == \/ w = "dns" /\ (DnsActivate \/ DnsShutdown)
            \/ HttpShutdown(w) \/ HttpDrained(w)
            \/ SendToken(w) \/ GroupError(w)

Next ==
    \/ Main \/ Collector \/ Handler \/ NotifyCancels
    \/ \E w \in Workers : Serve(w) \/ ServeFails(w)
    \/ HealthTick \/ HealthReports \/ HealthStops
    \/ ShutdownRequest \/ SendSignal

Spec == Init /\ [][Next]_vars

Goroutines == Main \/ Collector \/ Handler \/ NotifyCancels \/ \E w \in Workers : Serve(w)

\* Goroutines that can run are run.  None of them loops, so fairness for all
\* of them together is as strong as for each one; only the health check does, and
\* its select takes either ready case at random, hence not the tick for ever.
\* Nothing forces a signal, a /shutdown request or an error of a server.
FairSpec == Spec /\ WF_vars(Goroutines) /\ WF_vars(HealthReports) /\ SF_vars(HealthStops)

-----------------------------------------------------------------------------
(* Properties *)

\* workersComplete is closed only after every worker has returned, the health
\* check included: the watchdog stands down for a complete shutdown only
\* (up.go:195-201, 215).
CompleteMeansReturned == complete => \A w \in Workers : Returned(w)

\* While the watchdog counts, no channel absorbs signals: a second interrupt
\* ends the process (up.go:210-211).
WatchIsDisarmed == handler = "watch" => armed = {}

\* The process ends as GracefulShutdown promises: a worker that returns takes
\* the others with it, an exit leaves none behind, and neither a signal nor
\* the watchdog cuts the process off before its shutdown has begun.
Abstract == INSTANCE GracefulShutdown WITH
    phase    <- IF Running THEN "serving" ELSE IF proc = "exited" THEN "exited" ELSE "forced",
    stopping <- GroupDone,
    working  <- {w \in Workers : worker[w] # "done"}

ImplementsGracefulShutdown == Abstract!Spec

\* A shutdown that finds the DNS server started ends the process, whichever of
\* a signal, a /shutdown request or the failure of one worker began it: the
\* others must learn of it (up.go:161-201).
HeardShutdownEnds ==
    ((GroupDone \/ \E w \in Workers : worker[w] = "err") /\ worker["dns"] = "serving") ~> ~Running

\* A shutdown that the signal handler began ends the process, also when the
\* DNS server never hears of it.
WatchedShutdownEnds == handler = "watch" ~> ~Running

-----------------------------------------------------------------------------
(* What the engineering standards say and the code does not keep *)

\* The watchdog "acts as a fatal fallback if the graceful shutdown hangs
\* indefinitely" (docs/engineering-standards.md:304).  A shutdown that the
\* handler learns of through gCtx has no watchdog, and the DNS server may
\* never hear of it.
ShutdownEnds == GroupDone ~> ~Running
=============================================================================
