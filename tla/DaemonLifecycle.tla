-------------------------- MODULE DaemonLifecycle --------------------------
(***************************************************************************)
(* Ownership of the DevTether runtime directory: `devtether up` processes  *)
(* that start, serve and shut down, and the `down`, `status` and           *)
(* `logs -f` processes that act on them, all through the files of that     *)
(* directory: the flock, the PID file, the nonce and the IPC socket.       *)
(*                                                                         *)
(* A daemon is one `up` process, hence one PID and one IPC nonce; it runs  *)
(* once.  A client is one `down`, `status` or `logs -f` process.  Every    *)
(* system call on a shared file is a step of its own.  The lock file is    *)
(* never deleted by the code, and exists from the start of the model.      *)
(***************************************************************************)
CONSTANTS
    Daemons,        \* the `up` processes
    Clients,        \* the `down`, `status` and `logs -f` processes
    Addrs,          \* network addresses
    DnsAddr,        \* DnsAddr[d]: the DNS address in d's configuration
    ProxyAddr,      \* ProxyAddr[d]: the proxy address in d's configuration
    FallbackAddr,   \* 127.0.0.1:8080
    None,           \* no process: a free lock, an absent file
    Empty           \* the content of a file that is there and has none

ASSUME ProcessesAreDistinct ==
    /\ Daemons \cap Clients = {}
    /\ None \notin Daemons \cup Clients
    /\ Empty \notin Daemons \cup {None}

ASSUME AddressesAreConfigured ==
    /\ DnsAddr \in [Daemons -> Addrs]
    /\ ProxyAddr \in [Daemons -> Addrs]
    /\ FallbackAddr \in Addrs

VARIABLES
    pc,         \* pc[d]: the step of runUp and of daemon.Server.Listen that d is at
    dns,        \* dns[d]: the DNS worker of d
    proxy,      \* proxy[d]: the proxy worker of d
    ipc,        \* ipc[d]: the IPC worker of d, down to its deferred calls
    cancelled,  \* cancelled[d]: d's root context is cancelled
    lock,       \* the process whose flock on devtether.lock is granted
    pidFile,    \* the daemon devtether.pid names
    nonceFile,  \* the daemon whose nonce is in devtether.nonce, or Empty
    sockFile,   \* the daemon that bound the socket file now at the path
    cpc,        \* cpc[c]: the step that client c is at
    target,     \* target[c]: the daemon that c talks to, or whose PID it has read
    cnonce      \* cnonce[c]: the nonce that a `down` client read

workerVars == <<dns, proxy, ipc>>
daemonVars == <<pc, dns, proxy, ipc, cancelled>>
fileVars   == <<lock, pidFile, nonceFile, sockFile>>
clientVars == <<cpc, target, cnonce>>
vars       == <<daemonVars, fileVars, clientVars>>

-----------------------------------------------------------------------------
(* Types and state predicates *)

\* The steps of a start, in order, up to and including the flock.
BeforeLock == {"idle", "check", "dns", "proxy", "lock"}

\* The steps under the flock, before the workers run: Listen and its error paths.
UnderLock == {"pid", "nonce", "nonceFill", "stale", "bind", "abortPid", "abortUnlock"}

Ended == {"refused", "dead"}

DnsStates   == {"none", "bound", "serving", "stuck", "done"}
ProxyStates == {"none", "configured", "fallback", "draining", "done"}

\* "remove", "unlock", "rmNonce" and "rmPid" are the deferred calls of
\* daemon.Server.Serve, in the order in which they run.
IpcStates == {"none", "listen", "draining", "remove", "unlock", "rmNonce", "rmPid", "done"}

ClientStates == {"idle", "connect", "await", "fallback", "signal", "wait", "release",
                 "stopped", "failed", "probed", "sweep", "sweepAlive", "sweepSock", "sweepPid", "done"}

\* The steps at which a client talks to a daemon, or holds a PID to signal or probe.
Addressing == {"await", "signal", "sweepAlive"}

OrNone(S) == S \cup {None}

Alive(d) == pc[d] \notin {"idle"} \cup Ended

\* The IPC worker of d still accepts connections.
Listening(d) == ipc[d] = "listen"

\* A connection to the socket path is accepted (else ENOENT or ECONNREFUSED).
Answers == sockFile \in Daemons /\ Listening(sockFile)

\* The addresses that process d has bound.
DnsBound(d)   == IF dns[d] \in {"bound", "serving", "stuck"} THEN {DnsAddr[d]} ELSE {}
ProxyBound(d) == CASE proxy[d] = "configured" -> {ProxyAddr[d]}
                   [] proxy[d] = "fallback"   -> {FallbackAddr}
                   [] OTHER                   -> {}
Taken == UNION {DnsBound(d) \cup ProxyBound(d) : d \in Daemons}

\* The types, and: a client talks to, signals or probes only a daemon it has
\* connected to or read the PID of.  A PID of 0, which ReadPID returns for a
\* missing file, never reaches kill (stopViaPIDFallback, PIDAlive).
TypeOK ==
    /\ pc \in [Daemons -> BeforeLock \cup UnderLock \cup {"serving"} \cup Ended]
    /\ dns \in [Daemons -> DnsStates]
    /\ proxy \in [Daemons -> ProxyStates]
    /\ ipc \in [Daemons -> IpcStates]
    /\ cancelled \in [Daemons -> BOOLEAN]
    /\ lock \in OrNone(Daemons \cup Clients)
    /\ pidFile \in OrNone(Daemons)
    /\ nonceFile \in OrNone(Daemons \cup {Empty})
    /\ sockFile \in OrNone(Daemons)
    /\ cpc \in [Clients -> ClientStates]
    /\ target \in [Clients -> OrNone(Daemons)]
    /\ cnonce \in [Clients -> OrNone(Daemons)]
    /\ \A c \in Clients : cpc[c] \in Addressing => target[c] \in Daemons

Init ==
    /\ pc = [d \in Daemons |-> "idle"]
    /\ dns = [d \in Daemons |-> "none"]
    /\ proxy = [d \in Daemons |-> "none"]
    /\ ipc = [d \in Daemons |-> "none"]
    /\ cancelled = [d \in Daemons |-> FALSE]
    /\ lock = None
    /\ pidFile = None
    /\ nonceFile = None
    /\ sockFile = None
    /\ cpc = [c \in Clients |-> "idle"]
    /\ target = [c \in Clients |-> None]
    /\ cnonce = [c \in Clients |-> None]

-----------------------------------------------------------------------------
(* Starting a daemon: runUp, daemon.CheckRunning, the three Listen calls.
   A step is ctx-free: no bind of the start looks at the context. *)

\* Control moves from step `from` to step `to` of the start.
Step(d, from, to) == pc[d] = from /\ pc' = [pc EXCEPT ![d] = to]

\* The kernel drops the flock of a process that closes it or ends.
Unlocked(p) == IF lock = p THEN None ELSE lock

\* Process d ends; the kernel closes its sockets and its lock file.
End(d, how) ==
    /\ pc' = [pc EXCEPT ![d] = how]
    /\ dns' = [dns EXCEPT ![d] = "none"]
    /\ proxy' = [proxy EXCEPT ![d] = "none"]
    /\ ipc' = [ipc EXCEPT ![d] = "none"]
    /\ lock' = Unlocked(d)

\* The user runs `up`.
Launch(d) ==
    /\ Step(d, "idle", "check")
    /\ UNCHANGED <<workerVars, cancelled, fileVars, clientVars>>

\* The pre-flight dial; a cancelled context makes the dial fail, and any
\* failed dial passes for a stale socket.
CheckRunning(d) ==
    /\ pc[d] = "check"
    /\ IF Answers /\ ~cancelled[d]
       THEN End(d, "refused") /\ UNCHANGED cancelled
       ELSE Step(d, "check", "dns") /\ UNCHANGED <<workerVars, cancelled, lock>>
    /\ UNCHANGED <<pidFile, nonceFile, sockFile, clientVars>>

\* dns.Server.Listen; a failed bind ends the process.
BindDns(d) ==
    /\ pc[d] = "dns"
    /\ IF DnsAddr[d] \in Taken
       THEN End(d, "refused")
       ELSE /\ Step(d, "dns", "proxy")
            /\ dns' = [dns EXCEPT ![d] = "bound"]
            /\ UNCHANGED <<proxy, ipc, lock>>
    /\ UNCHANGED <<cancelled, pidFile, nonceFile, sockFile, clientVars>>

\* proxy.Server.bind: the configured port, else (in use, or privileged) the
\* fallback port, else the process ends.
BindProxy(d) ==
    /\ pc[d] = "proxy"
    /\ \/ /\ ProxyAddr[d] \notin Taken
          /\ Step(d, "proxy", "lock")
          /\ proxy' = [proxy EXCEPT ![d] = "configured"]
          /\ UNCHANGED <<dns, ipc, lock>>
       \/ /\ FallbackAddr \notin Taken
          /\ Step(d, "proxy", "lock")
          /\ proxy' = [proxy EXCEPT ![d] = "fallback"]
          /\ UNCHANGED <<dns, ipc, lock>>
       \/ /\ FallbackAddr \in Taken
          /\ End(d, "refused")
    /\ UNCHANGED <<cancelled, pidFile, nonceFile, sockFile, clientVars>>

\* Defect: the holder of the lock is not looked at.
AcquireLockIgnoringHolder(d) ==
    /\ Step(d, "lock", "pid")
    /\ lock' = d
    /\ UNCHANGED <<workerVars, cancelled, pidFile, nonceFile, sockFile, clientVars>>

\* daemon.AcquireLock: a non-blocking flock; when any process holds it (a
\* daemon, or a client between probe and release) the start is refused.
AcquireLock(d) ==
    /\ pc[d] = "lock"
    /\ IF lock = None
       THEN /\ Step(d, "lock", "pid")
            /\ lock' = d
            /\ UNCHANGED workerVars
       ELSE End(d, "refused")
    /\ UNCHANGED <<cancelled, pidFile, nonceFile, sockFile, clientVars>>

\* Defect: a PID file that exists is left as it is.
WritePIDIfAbsent(d) ==
    /\ Step(d, "pid", "nonce")
    /\ pidFile' = IF pidFile = None THEN d ELSE pidFile
    /\ UNCHANGED <<workerVars, cancelled, lock, nonceFile, sockFile, clientVars>>

\* daemon.WritePID: temporary file, fsync, rename.
WritePID(d) ==
    /\ Step(d, "pid", "nonce")
    /\ pidFile' = d
    /\ UNCHANGED <<workerVars, cancelled, lock, nonceFile, sockFile, clientVars>>

\* daemon.writeNonce, first half: os.WriteFile truncates the file ...
TruncateNonce(d) ==
    /\ Step(d, "nonce", "nonceFill")
    /\ nonceFile' = Empty
    /\ UNCHANGED <<workerVars, cancelled, lock, pidFile, sockFile, clientVars>>

\* ... and then writes the file it has opened: a path that an exiting
\* predecessor has unlinked in between stays absent.
FillNonce(d) ==
    /\ Step(d, "nonceFill", "stale")
    /\ nonceFile' = IF nonceFile = Empty THEN d ELSE nonceFile
    /\ UNCHANGED <<workerVars, cancelled, lock, pidFile, sockFile, clientVars>>

\* Defect: the socket of a crashed daemon stays.
KeepStaleSocket(d) ==
    /\ Step(d, "stale", "bind")
    /\ UNCHANGED <<workerVars, cancelled, fileVars, clientVars>>

\* Listen removes the socket file that a crashed daemon left behind.
ClearStaleSocket(d) ==
    /\ Step(d, "stale", "bind")
    /\ sockFile' = None
    /\ UNCHANGED <<workerVars, cancelled, lock, pidFile, nonceFile, clientVars>>

\* Listen binds the socket (EADDRINUSE while a file is at the path), and
\* runUp launches the workers.
BindSocket(d) ==
    /\ pc[d] = "bind"
    /\ sockFile = None
    /\ Step(d, "bind", "serving")
    /\ sockFile' = d
    /\ ipc' = [ipc EXCEPT ![d] = "listen"]
    /\ UNCHANGED <<dns, proxy, cancelled, lock, pidFile, nonceFile, clientVars>>

\* A file operation of Listen fails; only WritePID fails before the PID file
\* exists, every later failure removes it first.
ListenFails(d) ==
    /\ \/ Step(d, "pid", "abortUnlock")
       \/ \E s \in {"nonce", "nonceFill", "stale", "bind"} : Step(d, s, "abortPid")
    /\ UNCHANGED <<workerVars, cancelled, fileVars, clientVars>>

AbortRemovePID(d) ==
    /\ Step(d, "abortPid", "abortUnlock")
    /\ pidFile' = None
    /\ UNCHANGED <<workerVars, cancelled, lock, nonceFile, sockFile, clientVars>>

\* Listen closes the lock file; runUp closes the other listeners and returns.
AbortUnlock(d) ==
    /\ pc[d] = "abortUnlock"
    /\ End(d, "refused")
    /\ UNCHANGED <<cancelled, pidFile, nonceFile, sockFile, clientVars>>

Start(d) ==
    \/ CheckRunning(d) \/ BindDns(d) \/ BindProxy(d) \/ AcquireLock(d)
    \/ WritePID(d) \/ TruncateNonce(d) \/ FillNonce(d)
    \/ ClearStaleSocket(d) \/ BindSocket(d)
    \/ AbortRemovePID(d) \/ AbortUnlock(d)

-----------------------------------------------------------------------------
(* Serving and shutting down: the three workers of runUp's errgroup *)

Cancel(d) == cancelled' = [cancelled EXCEPT ![d] = TRUE]

\* SIGINT or SIGTERM from outside; NotifyContext is installed before "check".
Signal(d) ==
    /\ Alive(d)
    /\ ~cancelled[d]
    /\ Cancel(d)
    /\ UNCHANGED <<pc, workerVars, fileVars, clientVars>>

\* SIGKILL, a crash, a second interrupt, or the 15 s watchdog.
Kill(d) ==
    /\ Alive(d)
    /\ End(d, "dead")
    /\ UNCHANGED <<cancelled, pidFile, nonceFile, sockFile, clientVars>>

\* The DNS worker of d, one step of it: a state change and nothing else.
DnsMove(d, from, to) ==
    /\ pc[d] = "serving"
    /\ dns[d] = from
    /\ dns' = [dns EXCEPT ![d] = to]
    /\ UNCHANGED <<pc, proxy, ipc, fileVars, clientVars>>

\* ActivateAndServe marks the server started.
DnsStart(d) == DnsMove(d, "bound", "serving") /\ UNCHANGED cancelled

\* ShutdownContext stops a started server; before the start it only reports
\* an error, and the server then starts and is never told again.
DnsShutdown(d) ==
    /\ cancelled[d]
    /\ DnsMove(d, "serving", "done") \/ DnsMove(d, "bound", "stuck")
    /\ UNCHANGED cancelled

\* ActivateAndServe fails; the errgroup cancels the context of the others.
DnsFails(d) == DnsMove(d, "serving", "done") /\ Cancel(d)

ProxyMove(d, from, to) ==
    /\ pc[d] = "serving"
    /\ proxy[d] \in from
    /\ proxy' = [proxy EXCEPT ![d] = to]
    /\ UNCHANGED <<pc, dns, ipc, fileVars, clientVars>>

\* http.Server.Shutdown closes the listener, then waits for requests, 5 s at most.
ProxyShutdown(d) ==
    cancelled[d] /\ ProxyMove(d, {"configured", "fallback"}, "draining") /\ UNCHANGED cancelled
ProxyDrained(d) == ProxyMove(d, {"draining"}, "done") /\ UNCHANGED cancelled

ProxyFails(d) == ProxyMove(d, {"configured", "fallback"}, "done") /\ Cancel(d)

IpcMove(d, from, to) ==
    /\ pc[d] = "serving"
    /\ ipc[d] = from
    /\ ipc' = [ipc EXCEPT ![d] = to]
    /\ UNCHANGED <<pc, dns, proxy, clientVars>>

\* Defect: the IPC server shuts down only after the DNS server.
IpcShutdownAfterDns(d) ==
    /\ cancelled[d] /\ dns[d] = "done"
    /\ IpcMove(d, "listen", "draining")
    /\ sockFile' = None
    /\ UNCHANGED <<cancelled, lock, pidFile, nonceFile>>

\* Closing a Unix listener unlinks its path, whatever file is there.
IpcShutdown(d) ==
    /\ cancelled[d]
    /\ IpcMove(d, "listen", "draining")
    /\ sockFile' = None
    /\ UNCHANGED <<cancelled, lock, pidFile, nonceFile>>

IpcDrained(d) == IpcMove(d, "draining", "remove") /\ UNCHANGED <<cancelled, fileVars>>

\* httpServer.Serve fails: the listener closes, and Serve's deferred calls run;
\* the errgroup hears of the error after the last of them.
IpcFails(d) ==
    /\ IpcMove(d, "listen", "remove")
    /\ sockFile' = None
    /\ UNCHANGED <<cancelled, lock, pidFile, nonceFile>>

\* The deferred calls of Serve run last to first: socket file, flock, nonce, PID.
RemoveSocket(d) ==
    /\ IpcMove(d, "remove", "unlock")
    /\ sockFile' = None
    /\ UNCHANGED <<cancelled, lock, pidFile, nonceFile>>

\* Defect: the path is unlinked once more after the lock is released.
RemoveSocketAfterUnlock(d) ==
    /\ IpcMove(d, "rmNonce", "rmPid")
    /\ sockFile' = None
    /\ nonceFile' = None
    /\ UNCHANGED <<cancelled, lock, pidFile>>

\* Defect: the lock file is not closed.
KeepLock(d) == IpcMove(d, "unlock", "rmNonce") /\ UNCHANGED <<cancelled, fileVars>>

ReleaseLock(d) ==
    /\ IpcMove(d, "unlock", "rmNonce")
    /\ lock' = Unlocked(d)
    /\ UNCHANGED <<cancelled, pidFile, nonceFile, sockFile>>

RemoveNonce(d) ==
    /\ IpcMove(d, "rmNonce", "rmPid")
    /\ nonceFile' = None
    /\ UNCHANGED <<cancelled, lock, pidFile, sockFile>>

\* With the last call Serve returns: an error of it cancels the context of the
\* other workers, and after a shutdown the context is cancelled already.
RemovePID(d) ==
    /\ IpcMove(d, "rmPid", "done")
    /\ Cancel(d)
    /\ pidFile' = None
    /\ UNCHANGED <<lock, nonceFile, sockFile>>

\* g.Wait returns when every worker has, and runUp returns.
Exit(d) ==
    /\ pc[d] = "serving"
    /\ dns[d] = "done" /\ proxy[d] = "done" /\ ipc[d] = "done"
    /\ End(d, "dead")
    /\ UNCHANGED <<cancelled, pidFile, nonceFile, sockFile, clientVars>>

DnsWorker(d)   == DnsStart(d) \/ DnsShutdown(d)
ProxyWorker(d) == ProxyShutdown(d) \/ ProxyDrained(d)
IpcWorker(d)   == IpcShutdown(d) \/ IpcDrained(d) \/ RemoveSocket(d)
                  \/ ReleaseLock(d) \/ RemoveNonce(d) \/ RemovePID(d)
WorkerFails(d) == DnsFails(d) \/ ProxyFails(d) \/ IpcFails(d)

-----------------------------------------------------------------------------
(* The clients.  `down` is idle, connect, await, wait, release, stopped, and
   fallback, signal when the IPC request is not accepted. *)

Go(c, from, to) == cpc[c] = from /\ cpc' = [cpc EXCEPT ![c] = to]

\* ShutdownAndWait reads the nonce file; an absent or empty one is sent as none.
ReadNonce(c) ==
    /\ Go(c, "idle", "connect")
    /\ cnonce' = [cnonce EXCEPT ![c] = IF nonceFile = Empty THEN None ELSE nonceFile]
    /\ UNCHANGED <<daemonVars, fileVars, target>>

\* ... and dials; a missing or refusing socket leads to CleanStaleSocket.
Connect(c) ==
    /\ cpc[c] = "connect"
    /\ IF Answers
       THEN Go(c, "connect", "await") /\ target' = [target EXCEPT ![c] = sockFile]
       ELSE Go(c, "connect", "sweep") /\ UNCHANGED target
    /\ UNCHANGED <<daemonVars, fileVars, cnonce>>

\* Defect: a refused request ends `down`, without the PID fallback.
HandleShutdownRefusalFinal(c) ==
    LET d == target[c] IN
    /\ cpc[c] = "await"
    /\ pc[d] = "serving"
    /\ IF cnonce[c] = d
       THEN Go(c, "await", "wait") /\ Cancel(d)
       ELSE Go(c, "await", "failed") /\ UNCHANGED cancelled
    /\ UNCHANGED <<pc, workerVars, fileVars, target, cnonce>>

\* daemon.Server.handleShutdown: 403 on a wrong nonce, else cancelFunc.
HandleShutdown(c) ==
    LET d == target[c] IN
    /\ cpc[c] = "await"
    /\ pc[d] = "serving"
    /\ IF cnonce[c] = d
       THEN Go(c, "await", "wait") /\ Cancel(d)
       ELSE Go(c, "await", "fallback") /\ UNCHANGED cancelled
    /\ UNCHANGED <<pc, workerVars, fileVars, target, cnonce>>

\* The listener closed or the daemon died before the request was answered.
ConnLost(c) ==
    /\ Go(c, "await", "fallback")
    /\ ~Listening(target[c])
    /\ UNCHANGED <<daemonVars, fileVars, target, cnonce>>

\* Defect: the 0 that stands for "no PID" is signalled like a PID.
ReadPIDUnchecked(c) ==
    /\ target' = [target EXCEPT ![c] = pidFile]
    /\ Go(c, "fallback", "signal")
    /\ UNCHANGED <<daemonVars, fileVars, cnonce>>

\* stopViaPIDFallback: read the PID ...
ReadPID(c) ==
    /\ cpc[c] = "fallback"
    /\ target' = [target EXCEPT ![c] = pidFile]
    /\ Go(c, "fallback", IF pidFile = None THEN "failed" ELSE "signal")
    /\ UNCHANGED <<daemonVars, fileVars, cnonce>>

\* ... and send it SIGTERM.
SignalPID(c) ==
    LET d == target[c] IN
    /\ cpc[c] = "signal"
    /\ IF Alive(d)
       THEN Go(c, "signal", "wait") /\ Cancel(d)
       ELSE Go(c, "signal", "failed") /\ UNCHANGED cancelled
    /\ UNCHANGED <<pc, workerVars, fileVars, target, cnonce>>

\* Defect: the result of the flock is not looked at.
WaitWithoutLock(c) ==
    /\ Go(c, "wait", "release")
    /\ lock' = IF lock = None THEN c ELSE lock
    /\ UNCHANGED <<daemonVars, pidFile, nonceFile, sockFile, target, cnonce>>

\* WaitForExit: every 500 ms a non-blocking flock, until one is granted ...
WaitForExit(c) ==
    /\ Go(c, "wait", "release")
    /\ lock = None
    /\ lock' = c
    /\ UNCHANGED <<daemonVars, pidFile, nonceFile, sockFile, target, cnonce>>

\* ... which is released at once; a `logs -f` has no daemon of its own.
WaitRelease(c) ==
    /\ Go(c, "release", "stopped")
    /\ lock' = Unlocked(c)
    /\ UNCHANGED <<daemonVars, pidFile, nonceFile, sockFile, target, cnonce>>

\* `status`: one request, answered or not; when not, CleanStaleSocket.
Status(c) ==
    /\ Go(c, "idle", IF Answers THEN "done" ELSE "sweep")
    /\ UNCHANGED <<daemonVars, fileVars, target, cnonce>>

\* `logs -f`: DaemonRunning takes a free flock for a moment, and takes a held
\* one for a running daemon, whose exit tailFollow then waits for.
DaemonRunning(c) ==
    /\ Go(c, "idle", IF lock = None THEN "probed" ELSE "wait")
    /\ lock' = IF lock = None THEN c ELSE lock
    /\ UNCHANGED <<daemonVars, pidFile, nonceFile, sockFile, target, cnonce>>

ProbeRelease(c) ==
    /\ Go(c, "probed", "done")
    /\ lock' = Unlocked(c)
    /\ UNCHANGED <<daemonVars, pidFile, nonceFile, sockFile, target, cnonce>>

\* CleanStaleSocket: the PID guard reads the file; no PID is no live process ...
SweepReadPID(c) ==
    /\ target' = [target EXCEPT ![c] = pidFile]
    /\ Go(c, "sweep", IF pidFile = None THEN "sweepSock" ELSE "sweepAlive")
    /\ UNCHANGED <<daemonVars, fileVars, cnonce>>

\* Defect: a recorded PID is taken for a live process.
SweepCheckAnyPID(c) ==
    /\ Go(c, "sweepAlive", "done")
    /\ UNCHANGED <<daemonVars, fileVars, target, cnonce>>

\* ... and sends signal 0 to the PID it has read ...
SweepCheck(c) ==
    /\ Go(c, "sweepAlive", IF Alive(target[c]) THEN "done" ELSE "sweepSock")
    /\ UNCHANGED <<daemonVars, fileVars, target, cnonce>>

\* ... then the socket, and the PID file, whoever owns them by now.
SweepSocket(c) ==
    /\ Go(c, "sweepSock", "sweepPid")
    /\ sockFile' = None
    /\ UNCHANGED <<daemonVars, lock, pidFile, nonceFile, target, cnonce>>

SweepPID(c) ==
    /\ Go(c, "sweepPid", "done")
    /\ pidFile' = None
    /\ UNCHANGED <<daemonVars, lock, nonceFile, sockFile, target, cnonce>>

Down(c)  == ReadNonce(c) \/ Connect(c) \/ HandleShutdown(c) \/ ConnLost(c)
            \/ ReadPID(c) \/ SignalPID(c)
Wait(c)  == WaitForExit(c) \/ WaitRelease(c)
Probe(c) == DaemonRunning(c) \/ ProbeRelease(c)
Sweep(c) == SweepReadPID(c) \/ SweepCheck(c) \/ SweepSocket(c) \/ SweepPID(c)

-----------------------------------------------------------------------------
Next ==
    \/ \E d \in Daemons :
          \/ Launch(d) \/ Start(d) \/ ListenFails(d)
          \/ Signal(d) \/ Kill(d)
          \/ DnsWorker(d) \/ ProxyWorker(d) \/ IpcWorker(d) \/ WorkerFails(d)
          \/ Exit(d)
    \/ \E c \in Clients :
          Down(c) \/ Wait(c) \/ Status(c) \/ Probe(c) \/ Sweep(c)

Spec == Init /\ [][Next]_vars

\* A command that was started runs on: the steps of client c after its first.
Runs(c) == cpc[c] # "idle" /\ (Down(c) \/ Wait(c) \/ Probe(c) \/ Sweep(c))

Processes == \/ \E d \in Daemons : Start(d) \/ IpcWorker(d)
             \/ \E c \in Clients : Runs(c)

\* Processes that can run are run.  Each ends after a bounded number of steps,
\* so fairness for all of them together is as strong as for each one.  Nothing
\* makes a user start a command or send a signal, or a system call or a worker
\* fail; and of the workers only the IPC worker is assumed to run on, so the
\* other two may hang for ever.
FairSpec == Spec /\ WF_vars(Processes)

-----------------------------------------------------------------------------
(* Safety *)

\* d is between the grant of its flock and the close of the lock file.
HoldsLock(d) ==
    \/ pc[d] \in UnderLock
    \/ pc[d] = "serving" /\ ipc[d] \in {"listen", "draining", "remove", "unlock"}

\* The kernel's lock owner and the daemons' own view of who holds the lock
\* agree: no daemon works under the lock without it, and none keeps it after
\* its IPC worker has closed the file (AcquireLock, the error paths of Listen,
\* the deferred calls of Serve).
LockMatchesControl ==
    \A d \in Daemons : HoldsLock(d) <=> lock = d

\* The runtime files never mislead: while a daemon listens, the PID file, the
\* nonce file and the socket path name that daemon or nobody, in spite of the
\* leftovers of crashed predecessors and the late clean-up of those that are
\* still exiting (Listen, Serve's deferred calls, CleanStaleSocket).
FilesNeverMislead ==
    \A d \in Daemons : Listening(d) =>
        pidFile \in {d, None} /\ nonceFile \in {d, None} /\ sockFile \in {d, None}

\* The bind of the IPC socket never meets a file at its path: under the lock
\* nobody else can put one there after Listen has cleared it (daemon.go:127).
BindFindsPathFree ==
    \A d \in Daemons : pc[d] = "bind" => sockFile = None

\* When `down` reports that the daemon has stopped, the daemon it acted on has
\* given up the lock and answers no more (runDown, WaitForExit).
DownMeansReleased ==
    \A c \in Clients : cpc[c] = "stopped" /\ target[c] # None =>
        lock # target[c] /\ ~Listening(target[c])

\* The socket of a listening daemon leaves the path only by the daemon's own
\* hand, by its death, or by a client's CleanStaleSocket: the deferred unlink
\* of an exiting predecessor and the stale-socket removal of a starting
\* successor never hit it (daemon.go:203-204).
UnlinkSparesSuccessor ==
    [][\A d \in Daemons : sockFile = d /\ Listening(d) /\ sockFile' # d =>
          \/ ipc'[d] # "listen"
          \/ \E c \in Clients : cpc[c] = "sweepSock" /\ cpc'[c] # "sweepSock"]_vars

\* The ownership of the directory is that of SingleInstance: one owner at a
\* time, only the owner answers at the socket path, and a new owner comes in
\* only after the old endpoint is gone.
Abstract == INSTANCE SingleInstance WITH
    owner    <- IF lock \in Daemons THEN lock ELSE None,
    endpoint <- IF Answers THEN sockFile ELSE None

ImplementsSingleInstance == Abstract!Spec

-----------------------------------------------------------------------------
(* The inductive invariant behind the safety properties *)

\* The IPC worker exists in a serving daemon only.
IpcNeedsServing == \A d \in Daemons : ipc[d] # "none" => pc[d] = "serving"

\* From the step that writes a file on, the file is the lock holder's or gone:
\* other daemons only remove, and clients only remove.
HolderOwnsFiles ==
    \A d \in Daemons :
        /\ pc[d] \in {"nonce", "nonceFill", "stale", "bind"} \/ Listening(d)
              => pidFile \in {d, None}
        /\ pc[d] = "nonceFill" => nonceFile \in {Empty, None}
        /\ pc[d] \in {"stale", "bind"} \/ Listening(d) => nonceFile \in {d, None}
        /\ Listening(d) => sockFile \in {d, None}

\* A daemon that the PID file or a client names has been granted its lock, and
\* a process is granted the lock once.
NamedArePastLock ==
    /\ pidFile # None => pc[pidFile] \notin BeforeLock
    /\ \A c \in Clients : target[c] # None => pc[target[c]] \notin BeforeLock

\* A `down` whose flock was granted has outlived its daemon's ownership.
WaitersOutliveOwner ==
    \A c \in Clients : cpc[c] \in {"release", "stopped"} /\ target[c] # None
        => ~HoldsLock(target[c])

IndInv ==
    /\ TypeOK
    /\ LockMatchesControl
    /\ IpcNeedsServing
    /\ BindFindsPathFree
    /\ HolderOwnsFiles
    /\ NamedArePastLock
    /\ WaitersOutliveOwner

-----------------------------------------------------------------------------
(* Liveness, under FairSpec *)

\* A cancelled daemon that holds the lock gives it up, whatever its DNS and
\* proxy workers do (Serve in daemon.go; the DNS worker may hang).
CancelledReleases ==
    \A d \in Daemons : (cancelled[d] /\ lock = d) ~> lock # d

\* A `down` that a daemon has accepted does not give up on it: it reports "stopped",
\* or it fails because there is nothing left to signal.  In particular a request
\* refused for a nonce that was read while it was being written (a 403) goes on
\* through the PID file, and "WaitForExit blocks until the daemon releases its
\* flock" (lifecycle.go:309), and no longer.  It holds while no second daemon is
\* started; one that takes the lock between two polls keeps `down` waiting.
DownReturns ==
    \A c \in Clients, d \in Daemons :
        (cpc[c] \in {"await", "wait"} /\ target[c] = d) ~>
            \/ cpc[c] = "stopped"
            \/ cpc[c] = "failed" /\ (pidFile = None \/ ~Alive(d))

\* A `status` or `down` that found the daemon gone removes the socket a crash
\* left behind, "so `status` and `down` recover on their own" (lifecycle.go:241),
\* also when two of them sweep at once.
CrashLeftoversSwept ==
    \A c \in Clients, d \in Daemons :
        (pc[d] = "dead" /\ cpc[c] = "sweep") ~> sockFile # d

-----------------------------------------------------------------------------
(* What the comments and the documentation say and the code does not keep *)

\* A daemon that serves can be stopped through its PID file and its nonce
\* (daemon.go:6, docs/architecture.md:136).  An exiting predecessor removes
\* both files after it has released the lock.
ServingDaemonKeepsFiles ==
    \A d \in Daemons : Listening(d) => pidFile = d /\ nonceFile = d

\* "The command blocks until the daemon has fully stopped" (down.go:25).  The
\* lock is released by the IPC worker, while the proxy may still drain.
DownMeansStopped ==
    \A c \in Clients : cpc[c] = "stopped" /\ target[c] # None => ~Alive(target[c])

\* "A live daemon's socket must never be deleted underneath it"
\* (lifecycle_test.go:417-418).  The PID guard of CleanStaleSocket is stale by
\* the time the socket is removed.
SweepSparesLiveSocket ==
    [][\A d \in Daemons : sockFile = d /\ Listening(d) /\ sockFile' # d => ipc'[d] # "listen"]_vars
=============================================================================
