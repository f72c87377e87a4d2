---------------------------- MODULE DetachedStart ----------------------------
(***************************************************************************)
(* `devtether up -d`: the parent opens the log, starts a child in a        *)
(* session of its own, and waits up to 5 s for one message on a pipe       *)
(* (daemonize of internal/cli/up.go).  The child runs `up` again, takes    *)
(* the runtime directory as any daemon does (SingleInstance), and writes   *)
(* the message once everything is bound and launched.  All starts of one   *)
(* configuration append to one log, and the parent of a child that dies    *)
(* looks there for the reason.                                             *)
(***************************************************************************)
EXTENDS Naturals, Sequences, FiniteSets

CONSTANTS
    Starts,    \* invocations of `up`; one stands for its parent and its child
    None,
    Window,    \* the lines that the last 4096 bytes of the log hold
    MaxChat    \* bound on the log lines that are not fatal errors

ASSUME StartsAreProper == None \notin Starts
ASSUME BoundsAreNatural == Window \in Nat \ {0} /\ MaxChat \in Nat

VARIABLES
    parent,    \* parent[s]: where daemonize is
    outcome,   \* outcome[s]: what the invocation told its user
    cause,     \* cause[s]: the log line quoted in a crash report, 0 for none
    child,     \* child[s]: the process that runs the daemon
    forked,    \* forked[s]: the child has DEVTETHER_FORKED=1, a log and a pipe
    pipe,      \* pipe[s]: the readiness pipe
    writers,   \* writers[s]: who holds its write end
    doomed,    \* the children that were sent SIGKILL by their parent
    log,       \* devtether.log: who wrote each line, and what it is
    owner, endpoint  \* the runtime directory

parentVars == <<parent, outcome, cause>>
dirVars == <<owner, endpoint>>
vars == <<parentVars, child, forked, pipe, writers, doomed, log, dirVars>>

Dir == INSTANCE SingleInstance WITH Daemons <- Starts

ParentStates == {"idle", "spawn", "holding", "reading", "reaping", "tail", "done"}
Outcomes == {"none", "foreground", "refused", "failed", "interrupted",
             "timedout", "crashed", "started"}

\* A forked child never forks again, so it has no state for that.
\* "erring" and "failing": an error of the start, of the running daemon, is
\* about to be printed by main.
ChildStates == {"none", "forked", "starting", "binding", "locked", "launched", "waiting",
                "erring", "failing", "exiting", "ended"}
Lines == [by : Starts, what : {"startup", "fatal", "chat"}]

\* The variables keep their types; a forked child becomes the daemon and never a
\* parent in its turn (up.go:76-88).  It has a name of its own because a hazard is
\* tied to it and not to the other modules' TypeOK.
DetachedTypeOK ==
    /\ parent \in [Starts -> ParentStates]
    /\ outcome \in [Starts -> Outcomes]
    /\ cause \in [Starts -> 0..Len(log)]
    /\ child \in [Starts -> ChildStates]
    /\ forked \in [Starts -> BOOLEAN]
    /\ pipe \in [Starts -> {"empty", "payload", "taken"}]
    /\ writers \in [Starts -> SUBSET {"parent", "child"}]
    /\ doomed \subseteq Starts
    /\ log \in Seq(Lines)
    /\ owner \in Starts \cup {None} /\ endpoint \in {owner, None}

Init ==
    /\ parent = [s \in Starts |-> "idle"]
    /\ outcome = [s \in Starts |-> "none"]
    /\ cause = [s \in Starts |-> 0]
    /\ child = [s \in Starts |-> "none"]
    /\ forked = [s \in Starts |-> FALSE]
    /\ pipe = [s \in Starts |-> "empty"]
    /\ writers = [s \in Starts |-> {}]
    /\ doomed = {}
    /\ log = <<>>
    /\ Dir!Init

Alive(s) == child[s] \notin {"none", "ended"}

-----------------------------------------------------------------------------
(* runUp up to the fork *)

\* Defect: the environment of the child is not looked at.
DetachesAgain(flag, setting, foreground, env) ==
    flag = "on" \/ (flag = "unset" /\ setting /\ ~foreground)

\* -d, or settings.daemon unless DEVTETHER_FOREGROUND=1; never when forked.
Detaches(flag, setting, foreground, env) ==
    /\ flag = "on" \/ (flag = "unset" /\ setting /\ ~foreground)
    /\ ~env

GoTo(s, from, to) == parent[s] = from /\ parent' = [parent EXCEPT ![s] = to]

Tell(s, from, what) ==
    /\ GoTo(s, from, "done")
    /\ outcome' = [outcome EXCEPT ![s] = what]

\* A detached start looks for a running daemon before it forks; any other
\* start becomes the daemon itself.
Begin(s) ==
    \E flag \in {"unset", "on", "off"}, setting, foreground \in BOOLEAN :
        /\ IF Detaches(flag, setting, foreground, FALSE)
           THEN /\ \/ endpoint = None /\ GoTo(s, "idle", "spawn") /\ UNCHANGED outcome
                   \/ endpoint # None /\ Tell(s, "idle", "refused")
                /\ UNCHANGED child
           ELSE /\ Tell(s, "idle", "foreground")
                /\ child' = [child EXCEPT ![s] = "starting"]
        /\ UNCHANGED <<cause, forked, pipe, writers, doomed, log, dirVars>>

\* The log directory, the log, the pipe, child.Start: any may fail, and
\* leaves no child.
SpawnFails(s) ==
    /\ Tell(s, "spawn", "failed")
    /\ UNCHANGED <<cause, child, forked, pipe, writers, doomed, log, dirVars>>

Spawn(s) ==
    /\ GoTo(s, "spawn", "holding")
    /\ child' = [child EXCEPT ![s] = "forked"]
    /\ forked' = [forked EXCEPT ![s] = TRUE]
    /\ writers' = [writers EXCEPT ![s] = {"parent", "child"}]
    /\ UNCHANGED <<outcome, cause, pipe, doomed, log, dirVars>>

-----------------------------------------------------------------------------
(* The parent waits *)

\* The parent closes its write end and sets the deadline; a child whose
\* deadline cannot be set is killed, and not waited for.
CloseWriteEnd(s) ==
    /\ \/ GoTo(s, "holding", "reading") /\ UNCHANGED <<outcome, doomed>>
       \/ Tell(s, "holding", "failed") /\ doomed' = doomed \cup {s}
    /\ writers' = [writers EXCEPT ![s] = @ \ {"parent"}]
    /\ UNCHANGED <<cause, child, forked, pipe, log, dirVars>>

ReadPayload(s) ==
    /\ pipe[s] = "payload"
    /\ Tell(s, "reading", "started")
    /\ pipe' = [pipe EXCEPT ![s] = "taken"]
    /\ UNCHANGED <<cause, child, forked, writers, doomed, log, dirVars>>

\* EOF: nothing was written and nobody is left to write.
ReadEof(s) ==
    /\ pipe[s] = "empty" /\ writers[s] = {}
    /\ GoTo(s, "reading", "tail")
    /\ UNCHANGED <<outcome, cause, child, forked, pipe, writers, doomed, log, dirVars>>

\* Defect: the child is waited for and not killed.
TimeoutNoKill(s) ==
    /\ GoTo(s, "reading", "reaping")
    /\ UNCHANGED <<outcome, cause, child, forked, pipe, writers, doomed, log, dirVars>>

\* The deadline passes first, whatever the child has done by now: a Read whose
\* deadline has passed does not look at the pipe.
Timeout(s) ==
    /\ GoTo(s, "reading", "reaping")
    /\ doomed' = doomed \cup {s}
    /\ UNCHANGED <<outcome, cause, child, forked, pipe, writers, log, dirVars>>

\* Defect: the parent reports without waiting for the killed child.
ReapAtOnce(s) ==
    /\ Tell(s, "reaping", "timedout")
    /\ UNCHANGED <<cause, child, forked, pipe, writers, doomed, log, dirVars>>

\* child.Process.Wait
Reap(s) ==
    /\ child[s] = "ended"
    /\ Tell(s, "reaping", "timedout")
    /\ UNCHANGED <<cause, child, forked, pipe, writers, doomed, log, dirVars>>

\* Any other error of the read: the child is left to itself.
ReadFails(s) ==
    /\ Tell(s, "reading", "failed")
    /\ UNCHANGED <<cause, child, forked, pipe, writers, doomed, log, dirVars>>

\* The user interrupts the waiting parent; the child has its own session.
Interrupt(s) ==
    /\ \E p \in {"spawn", "holding", "reading", "reaping", "tail"} : Tell(s, p, "interrupted")
    /\ writers' = [writers EXCEPT ![s] = @ \ {"parent"}]
    /\ UNCHANGED <<cause, child, forked, pipe, doomed, log, dirVars>>

\* The lines with the prefix "Error: " among the last ones.
ErrorLines == {i \in DOMAIN log : i + Window > Len(log) /\ log[i].what # "chat"}

\* lastStartupError: the last of them, if there is any.
LastStartupError == {i \in ErrorLines : \A j \in ErrorLines : j <= i}

\* A log that cannot be read yields no cause either.
ReportCrash(s) ==
    /\ Tell(s, "tail", "crashed")
    /\ \E c \in LastStartupError \cup {0} : cause' = [cause EXCEPT ![s] = c]
    /\ UNCHANGED <<child, forked, pipe, writers, doomed, log, dirVars>>

Waiting(s) ==
    \/ Spawn(s) \/ CloseWriteEnd(s) \/ ReadPayload(s) \/ ReadEof(s)
    \/ Timeout(s) \/ Reap(s) \/ ReportCrash(s)

Parent(s) == Begin(s) \/ SpawnFails(s) \/ Waiting(s) \/ ReadFails(s) \/ Interrupt(s)

-----------------------------------------------------------------------------
(* The child *)

Turn(s, from, to) == child[s] = from /\ child' = [child EXCEPT ![s] = to]

\* The child is run without -d, in the parent's environment, and reads the
\* configuration again.
Decide(s) ==
    /\ \E setting, foreground \in BOOLEAN :
           Turn(s, "forked", IF Detaches("unset", setting, foreground, TRUE)
                             THEN "forking" ELSE "starting")
    /\ UNCHANGED <<parentVars, forked, pipe, writers, doomed, log, dirVars>>

\* CheckRunning; the binds of DNS and proxy follow.
Preflight(s) ==
    /\ Turn(s, "starting", IF endpoint = None THEN "binding" ELSE "erring")
    /\ UNCHANGED <<parentVars, forked, pipe, writers, doomed, log, dirVars>>

\* The configuration, a route, DNS or proxy bind, or the lock: an error.
StartFails(s) ==
    /\ Turn(s, "starting", "erring") \/ Turn(s, "binding", "erring")
    /\ UNCHANGED <<parentVars, forked, pipe, writers, doomed, log, dirVars>>

Lock(s) ==
    /\ Turn(s, "binding", "locked")
    /\ Dir!Acquire(s)
    /\ UNCHANGED <<parentVars, forked, pipe, writers, doomed, log>>

\* An error under the lock gives the lock back.
ListenFails(s) ==
    /\ Turn(s, "locked", "erring")
    /\ Dir!Leave(s)
    /\ UNCHANGED <<parentVars, forked, pipe, writers, doomed, log>>

\* The IPC socket is bound, and the goroutines are launched.
Launch(s) ==
    /\ Turn(s, "locked", "launched")
    /\ Dir!Publish(s)
    /\ UNCHANGED <<parentVars, forked, pipe, writers, doomed, log>>

\* What the write does to the pipe: a foreground start has none, and a parent
\* that has gone gets nothing.
Written(s) == IF forked[s] /\ pipe[s] = "empty" THEN "payload" ELSE pipe[s]

\* Defect: readiness is sent under the lock, before the IPC socket is bound.
ReadyBeforeListen(s) ==
    /\ Turn(s, "locked", "locked")
    /\ pipe' = [pipe EXCEPT ![s] = Written(s)]
    /\ UNCHANGED <<parentVars, forked, writers, doomed, log, dirVars>>

\* The readiness message, and the close of FD 3.  The servers run already and
\* may have been stopped.
SendReadiness(s) ==
    /\ Turn(s, "launched", "waiting")
    /\ pipe' = [pipe EXCEPT ![s] = Written(s)]
    /\ writers' = [writers EXCEPT ![s] = @ \ {"child"}]
    /\ UNCHANGED <<parentVars, forked, doomed, log, dirVars>>

\* The IPC worker stops, for a signal, a /shutdown or an error: it unlinks the
\* socket and releases the lock.
IpcStops(s) ==
    /\ child[s] \in {"launched", "waiting"}
    /\ Dir!Withdraw(s) \/ (endpoint # s /\ Dir!Leave(s))
    /\ UNCHANGED <<parentVars, child, forked, pipe, writers, doomed, log>>

\* g.Wait returns, with or without an error.
GroupEnds(s) ==
    /\ owner # s
    /\ Turn(s, "waiting", "failing") \/ Turn(s, "waiting", "exiting")
    /\ UNCHANGED <<parentVars, forked, pipe, writers, doomed, log, dirVars>>

Logged(s, what) == IF forked[s] THEN Append(log, [by |-> s, what |-> what]) ELSE log

\* The kernel closes what process s had open.
Closed(s) ==
    /\ writers' = [writers EXCEPT ![s] = @ \ {"child"}]
    /\ IF owner = s THEN Dir!Leave(s) ELSE UNCHANGED dirVars

\* Defect: runUp closes FD 3 when it fails, before main prints the error.
PrintErrorLate(s) ==
    /\ \/ child[s] = "erring" /\ "child" \in writers[s] /\ UNCHANGED <<child, log>>
          /\ writers' = [writers EXCEPT ![s] = @ \ {"child"}]
       \/ "child" \notin writers[s] /\ Turn(s, "erring", "exiting")
          /\ log' = Logged(s, "startup") /\ UNCHANGED writers
    /\ UNCHANGED <<parentVars, forked, pipe, doomed, dirVars>>

\* main prints "Error: ..." to what a forked child has for its stderr.
PrintError(s) ==
    /\ \/ Turn(s, "erring", "exiting") /\ log' = Logged(s, "startup")
       \/ Turn(s, "failing", "exiting") /\ log' = Logged(s, "fatal")
    /\ UNCHANGED <<parentVars, forked, pipe, writers, doomed, dirVars>>

Exit(s) ==
    /\ Turn(s, "exiting", "ended")
    /\ Closed(s)
    /\ UNCHANGED <<parentVars, forked, pipe, doomed, log>>

\* SIGKILL, a panic, a default signal action: no line that says "Error: ".
Die(s) ==
    /\ Alive(s)
    /\ child' = [child EXCEPT ![s] = "ended"]
    /\ Closed(s)
    /\ UNCHANGED <<parentVars, forked, pipe, doomed, log>>

\* Any other line: the banner, the routes, the access log.
Chat(s) ==
    /\ Alive(s) /\ forked[s]
    /\ Cardinality({i \in DOMAIN log : log[i].what = "chat"}) < MaxChat
    /\ log' = Logged(s, "chat")
    /\ UNCHANGED <<parentVars, child, forked, pipe, writers, doomed, dirVars>>

Child(s) ==
    \/ Decide(s) \/ Preflight(s) \/ StartFails(s) \/ Lock(s) \/ ListenFails(s) \/ Launch(s)
    \/ SendReadiness(s) \/ IpcStops(s) \/ GroupEnds(s) \/ PrintError(s) \/ Exit(s) \/ Die(s)
    \/ Chat(s)

Next == \E s \in Starts : Parent(s) \/ Child(s)

Spec == Init /\ [][Next]_vars

\* The parent runs and its deadline passes; a SIGKILL is delivered.  Nothing
\* makes a child get anywhere.
FairSpec ==
    /\ Spec
    /\ \A s \in Starts : WF_vars(Waiting(s)) /\ WF_vars(s \in doomed /\ Die(s))

-----------------------------------------------------------------------------
(* Properties *)

\* A start that is reported as crashed or as timed out has left nothing behind:
\* its child has ended and owns nothing, even when the deadline hit a child that
\* was already serving (up.go:551-562).
FailureLeavesNothing ==
    \A s \in Starts : outcome[s] \in {"timedout", "crashed"} =>
        child[s] = "ended" /\ owner # s /\ endpoint # s

\* A child that fails to start is never reported as started: readiness comes
\* after the last bind (up.go:227-247).
FailedStartIsNotStarted ==
    \A s \in Starts : outcome[s] = "started" =>
        \A i \in DOMAIN log : log[i] # [by |-> s, what |-> "startup"]

\* The crash report never prefers an older error to the child's own: it names
\* the child's line, a later one, or none (up.go:577-611).
OwnErrorIsNotMasked ==
    \A s \in Starts : outcome[s] = "crashed" /\ cause[s] # 0 =>
        \A i \in DOMAIN log : log[i].by = s /\ log[i].what # "chat" => cause[s] >= i

\* Every start that was begun returns to its user, whatever its child does
\* (up.go:538-546).
StartReturns == \A s \in Starts : parent[s] # "idle" ~> parent[s] = "done"

=============================================================================
