----------------------- MODULE DaemonLifecycle_proofs -----------------------
(***************************************************************************)
(* Proofs about DaemonLifecycle, for any sets of daemons, clients and      *)
(* addresses.  The inductive invariant is IndInv: a lemma per group of     *)
(* actions shows that a step of the group preserves it.                    *)
(***************************************************************************)
EXTENDS DaemonLifecycle, Integers, TLAPS

\* Init establishes the inductive invariant: nobody runs and no file exists.
LEMMA InitIndInv == Init => IndInv
BY ProcessesAreDistinct
   DEF Init, IndInv, TypeOK, LockMatchesControl, IpcNeedsServing, BindFindsPathFree,
       HolderOwnsFiles, NamedArePastLock, WaitersOutliveOwner, HoldsLock, Listening,
       BeforeLock, UnderLock, Ended, DnsStates, ProxyStates, IpcStates, ClientStates, Addressing, OrNone

\* A step of a start, failing or not, preserves the inductive invariant.
LEMMA StartIndInv ==
    ASSUME IndInv, NEW d \in Daemons, Launch(d) \/ Start(d) \/ ListenFails(d)
    PROVE  IndInv'
<1> USE ProcessesAreDistinct
    DEF IndInv, TypeOK, LockMatchesControl, IpcNeedsServing, BindFindsPathFree,
        HolderOwnsFiles, NamedArePastLock, WaitersOutliveOwner, HoldsLock, Listening,
        BeforeLock, UnderLock, Ended, DnsStates, ProxyStates, IpcStates, ClientStates, Addressing, OrNone,
        Step, End, Unlocked, workerVars, fileVars, clientVars
<1>1. CASE Launch(d)          BY <1>1 DEF Launch
<1>2. CASE CheckRunning(d)    BY <1>2 DEF CheckRunning
<1>3. CASE BindDns(d)         BY <1>3 DEF BindDns
<1>4. CASE BindProxy(d)       BY <1>4 DEF BindProxy
<1>5. CASE AcquireLock(d)     BY <1>5 DEF AcquireLock
<1>6. CASE WritePID(d)        BY <1>6 DEF WritePID
<1>7. CASE TruncateNonce(d)   BY <1>7 DEF TruncateNonce
<1>8. CASE FillNonce(d)       BY <1>8 DEF FillNonce
<1>9. CASE ClearStaleSocket(d) BY <1>9 DEF ClearStaleSocket
<1>10. CASE BindSocket(d)     BY <1>10 DEF BindSocket
<1>11. CASE AbortRemovePID(d) BY <1>11 DEF AbortRemovePID
<1>12. CASE AbortUnlock(d)    BY <1>12 DEF AbortUnlock
<1>13. CASE ListenFails(d)    BY <1>13 DEF ListenFails
<1> QED BY <1>1, <1>2, <1>3, <1>4, <1>5, <1>6, <1>7, <1>8, <1>9, <1>10, <1>11, <1>12, <1>13
        DEF Start

\* A step of the serving daemon, its end included, preserves it.
LEMMA ServeIndInv ==
    ASSUME IndInv, NEW d \in Daemons,
           \/ Signal(d) \/ Kill(d) \/ Exit(d)
           \/ DnsWorker(d) \/ ProxyWorker(d) \/ IpcWorker(d) \/ WorkerFails(d)
    PROVE  IndInv'
<1> USE ProcessesAreDistinct
    DEF IndInv, TypeOK, LockMatchesControl, IpcNeedsServing, BindFindsPathFree,
        HolderOwnsFiles, NamedArePastLock, WaitersOutliveOwner, HoldsLock, Listening,
        BeforeLock, UnderLock, Ended, DnsStates, ProxyStates, IpcStates, ClientStates, Addressing, OrNone,
        End, Unlocked, Cancel, DnsMove, ProxyMove, IpcMove, workerVars, fileVars, clientVars
<1>1. CASE Signal(d)         BY <1>1 DEF Signal
<1>2. CASE Kill(d)           BY <1>2 DEF Kill
<1>3. CASE Exit(d)           BY <1>3 DEF Exit
<1>4. CASE DnsWorker(d)      BY <1>4 DEF DnsWorker, DnsStart, DnsShutdown
<1>5. CASE ProxyWorker(d)    BY <1>5 DEF ProxyWorker, ProxyShutdown, ProxyDrained
<1>6. CASE IpcShutdown(d)    BY <1>6 DEF IpcShutdown
<1>7. CASE IpcDrained(d)     BY <1>7 DEF IpcDrained
<1>8. CASE RemoveSocket(d)   BY <1>8 DEF RemoveSocket
<1>9. CASE ReleaseLock(d)    BY <1>9 DEF ReleaseLock
<1>10. CASE RemoveNonce(d)   BY <1>10 DEF RemoveNonce
<1>11. CASE RemovePID(d)     BY <1>11 DEF RemovePID
<1>12. CASE DnsFails(d)      BY <1>12 DEF DnsFails
<1>13. CASE ProxyFails(d)    BY <1>13 DEF ProxyFails
<1>14. CASE IpcFails(d)      BY <1>14 DEF IpcFails
<1> QED BY <1>1, <1>2, <1>3, <1>4, <1>5, <1>6, <1>7, <1>8, <1>9, <1>10, <1>11, <1>12,
           <1>13, <1>14 DEF IpcWorker, WorkerFails

\* A step of a client preserves it: clients write no file, they only remove
\* files and borrow the lock while it is free.
LEMMA ClientIndInv ==
    ASSUME IndInv, NEW c \in Clients,
           Down(c) \/ Wait(c) \/ Status(c) \/ Probe(c) \/ Sweep(c)
    PROVE  IndInv'
<1> USE ProcessesAreDistinct
    DEF IndInv, TypeOK, LockMatchesControl, IpcNeedsServing, BindFindsPathFree,
        HolderOwnsFiles, NamedArePastLock, WaitersOutliveOwner, HoldsLock, Listening,
        BeforeLock, UnderLock, Ended, DnsStates, ProxyStates, IpcStates, ClientStates, Addressing, OrNone,
        Go, Cancel, Unlocked, Answers, workerVars, daemonVars, fileVars, clientVars
<1>1. CASE ReadNonce(c)      BY <1>1 DEF ReadNonce
<1>2. CASE Connect(c)
  <2>1. CASE Answers
    <3>1. sockFile \in Daemons /\ pc[sockFile] = "serving"  BY <2>1
    <3> QED BY <1>2, <2>1, <3>1 DEF Connect
  <2>2. CASE ~Answers         BY <1>2, <2>2 DEF Connect
  <2> QED BY <2>1, <2>2
<1>3. CASE HandleShutdown(c)
  <2>1. CASE cnonce[c] = target[c]
    <3>a. cancelled' = [cancelled EXCEPT ![target[c]] = TRUE]
      BY <1>3, <2>1 DEF HandleShutdown
    <3>1. cancelled' \in [Daemons -> BOOLEAN]  BY <3>a
    <3>2. cpc' = [cpc EXCEPT ![c] = "wait"]    BY <1>3, <2>1 DEF HandleShutdown
    <3> QED BY <1>3, <3>1, <3>2 DEF HandleShutdown
  <2>2. CASE cnonce[c] # target[c]             BY <1>3, <2>2 DEF HandleShutdown
  <2> QED BY <2>1, <2>2
<1>4. CASE ConnLost(c)       BY <1>4 DEF ConnLost
<1>5. CASE ReadPID(c)
  <2>1. CASE pidFile = None   BY <1>5, <2>1 DEF ReadPID
  <2>2. CASE pidFile # None   BY <1>5, <2>2 DEF ReadPID
  <2> QED BY <2>1, <2>2
<1>6. CASE SignalPID(c)
  <2>1. CASE Alive(target[c])
    <3>a. cancelled' = [cancelled EXCEPT ![target[c]] = TRUE]
      BY <1>6, <2>1 DEF SignalPID
    <3>1. cancelled' \in [Daemons -> BOOLEAN]  BY <3>a
    <3>2. cpc' = [cpc EXCEPT ![c] = "wait"]    BY <1>6, <2>1 DEF SignalPID
    <3> QED BY <1>6, <3>1, <3>2 DEF SignalPID
  <2>2. CASE ~Alive(target[c])                 BY <1>6, <2>2 DEF SignalPID
  <2> QED BY <2>1, <2>2
<1>7. CASE WaitForExit(c)    BY <1>7 DEF WaitForExit
<1>8. CASE WaitRelease(c)    BY <1>8 DEF WaitRelease
<1>9. CASE Status(c)         BY <1>9 DEF Status
<1>10. CASE DaemonRunning(c) BY <1>10 DEF DaemonRunning
<1>11. CASE ProbeRelease(c)  BY <1>11 DEF ProbeRelease
<1>12. CASE SweepReadPID(c)
  <2>1. CASE pidFile = None   BY <1>12, <2>1 DEF SweepReadPID
  <2>2. CASE pidFile # None   BY <1>12, <2>2 DEF SweepReadPID
  <2> QED BY <2>1, <2>2
<1>13. CASE SweepCheck(c)    BY <1>13 DEF SweepCheck
<1>14. CASE SweepSocket(c)   BY <1>14 DEF SweepSocket
<1>15. CASE SweepPID(c)      BY <1>15 DEF SweepPID
<1> QED BY <1>1, <1>2, <1>3, <1>4, <1>5, <1>6, <1>7, <1>8, <1>9, <1>10, <1>11, <1>12,
           <1>13, <1>14, <1>15 DEF Down, Wait, Probe, Sweep


\* Every step of the specification, and every stuttering step, preserves it.
LEMMA NextIndInv == IndInv /\ [Next]_vars => IndInv'
<1> SUFFICES ASSUME IndInv, [Next]_vars PROVE IndInv'
  OBVIOUS
<1>1. CASE UNCHANGED vars
  BY <1>1 DEF vars, daemonVars, fileVars, clientVars, IndInv, TypeOK, LockMatchesControl,
     IpcNeedsServing, BindFindsPathFree, HolderOwnsFiles, NamedArePastLock,
     WaitersOutliveOwner, HoldsLock, Listening
<1>2. CASE Next
  BY <1>2, StartIndInv, ServeIndInv, ClientIndInv DEF Next
<1> QED BY <1>1, <1>2

\* The inductive invariant holds in every reachable state.
THEOREM IndInvHolds == Spec => []IndInv
BY InitIndInv, NextIndInv, PTL DEF Spec

\* Every variable keeps its type, and a client talks to, signals or probes only a
\* daemon that exists: a missing PID file never turns into a signal.
THEOREM TypeCorrect == Spec => []TypeOK
<1>1. IndInv => TypeOK  BY DEF IndInv
<1> QED BY <1>1, IndInvHolds, PTL

\* The kernel's lock owner and the daemons' control agree in every reachable
\* state, however many daemons start, crash and shut down at once.
THEOREM LockIsExclusive == Spec => []LockMatchesControl
<1>1. IndInv => LockMatchesControl  BY DEF IndInv
<1> QED BY <1>1, IndInvHolds, PTL

\* While a daemon listens, the runtime files name it or nobody.
THEOREM FilesAreTrustworthy == Spec => []FilesNeverMislead
<1>1. IndInv => FilesNeverMislead
  BY DEF IndInv, HolderOwnsFiles, FilesNeverMislead
<1> QED BY <1>1, IndInvHolds, PTL

\* The bind of the IPC socket never meets a file at its path.
THEOREM BindNeverCollides == Spec => []BindFindsPathFree
<1>1. IndInv => BindFindsPathFree  BY DEF IndInv
<1> QED BY <1>1, IndInvHolds, PTL

\* A `down` that reports "stopped" has seen its daemon release the lock and
\* stop listening.
THEOREM DownIsTruthful == Spec => []DownMeansReleased
<1>1. IndInv => DownMeansReleased
  <2> SUFFICES ASSUME IndInv, NEW c \in Clients, cpc[c] = "stopped", target[c] # None
               PROVE  lock # target[c] /\ ~Listening(target[c])
    BY DEF DownMeansReleased
  <2>1. target[c] \in Daemons          BY DEF IndInv, TypeOK, OrNone
  <2>2. ~HoldsLock(target[c])          BY DEF IndInv, WaitersOutliveOwner
  <2>3. lock # target[c]               BY <2>1, <2>2 DEF IndInv, LockMatchesControl
  <2>4. ~Listening(target[c])
    BY <2>1, <2>2 DEF IndInv, IpcNeedsServing, HoldsLock, Listening
  <2> QED BY <2>3, <2>4
<1> QED BY <1>1, IndInvHolds, PTL


-----------------------------------------------------------------------------
\* Only the daemon itself and a client's sweep unlink a live socket: the
\* stale-socket removal of a start and the deferred unlink of an exit run under
\* the lock, and then no other daemon listens.
THEOREM UnlinkIsOwners == Spec => UnlinkSparesSuccessor
<1> DEFINE Spares(d) ==
      sockFile = d /\ Listening(d) /\ sockFile' # d =>
          \/ ipc'[d] # "listen"
          \/ \E c \in Clients : cpc[c] = "sweepSock" /\ cpc'[c] # "sweepSock"
<1>1. ASSUME IndInv, [Next]_vars, NEW d \in Daemons PROVE Spares(d)
  <2> USE <1>1 DEF Spares
  <2>1. ASSUME NEW e \in Daemons, Launch(e) \/ Start(e) \/ ListenFails(e) PROVE Spares(d)
    <3>1. CASE ClearStaleSocket(e)
      BY <3>1 DEF ClearStaleSocket, Step, IndInv, LockMatchesControl, IpcNeedsServing,
         HoldsLock, UnderLock, Listening
    <3>2. CASE BindSocket(e)   BY <3>2, ProcessesAreDistinct DEF BindSocket
    <3>3. CASE ~ClearStaleSocket(e) /\ ~BindSocket(e)
      <4>1. UNCHANGED sockFile
        BY <2>1, <3>3 DEF Launch, Start, ListenFails, CheckRunning, BindDns, BindProxy,
           AcquireLock, WritePID, TruncateNonce, FillNonce, AbortRemovePID, AbortUnlock, fileVars
      <4> QED BY <4>1
    <3> QED BY <3>1, <3>2, <3>3
  <2>2. ASSUME NEW e \in Daemons,
               \/ Signal(e) \/ Kill(e) \/ Exit(e)
               \/ DnsWorker(e) \/ ProxyWorker(e) \/ IpcWorker(e) \/ WorkerFails(e)
        PROVE Spares(d)
    <3>1. CASE IpcShutdown(e) \/ IpcFails(e) \/ RemoveSocket(e)
      BY <3>1 DEF IpcShutdown, IpcFails, RemoveSocket, IpcMove, IndInv, TypeOK,
         LockMatchesControl, IpcNeedsServing, HoldsLock, Listening
    <3>2. CASE ~(IpcShutdown(e) \/ IpcFails(e) \/ RemoveSocket(e))
      <4>1. UNCHANGED sockFile
        BY <2>2, <3>2 DEF Signal, Kill, Exit, DnsWorker, DnsStart, DnsShutdown, DnsMove,
           ProxyWorker, ProxyShutdown, ProxyDrained, ProxyMove, IpcWorker, IpcDrained,
           ReleaseLock, RemoveNonce, RemovePID, WorkerFails, DnsFails, ProxyFails, fileVars
      <4> QED BY <4>1
    <3> QED BY <3>1, <3>2
  <2>3. ASSUME NEW c \in Clients, Down(c) \/ Wait(c) \/ Status(c) \/ Probe(c) \/ Sweep(c)
        PROVE Spares(d)
    <3>1. CASE SweepSocket(c)  BY <3>1 DEF SweepSocket, Go, IndInv, TypeOK
    <3>2. CASE ~SweepSocket(c)
      <4>1. UNCHANGED sockFile
        BY <2>3, <3>2 DEF Down, ReadNonce, Connect, HandleShutdown, ConnLost, ReadPID,
           SignalPID, Wait, WaitForExit, WaitRelease, Status, Probe, DaemonRunning,
           ProbeRelease, Sweep, SweepReadPID, SweepCheck, SweepPID, fileVars
      <4> QED BY <4>1
    <3> QED BY <3>1, <3>2
  <2>4. CASE UNCHANGED vars   BY <2>4 DEF vars, fileVars
  <2> QED BY <2>1, <2>2, <2>3, <2>4 DEF Next
<1>2. IndInv /\ [Next]_vars => [\A d \in Daemons : Spares(d)]_vars
  BY <1>1
<1> QED BY <1>2, IndInvHolds, PTL DEF Spec, UnlinkSparesSuccessor


-----------------------------------------------------------------------------
(* Refinement of SingleInstance *)

Owner    == IF lock \in Daemons THEN lock ELSE None
Endpoint == IF Answers THEN sockFile ELSE None

\* Under the inductive invariant only the lock owner answers at the path.
LEMMA EndpointIsOwners == IndInv => Endpoint \in {None, Owner}
BY DEF IndInv, TypeOK, LockMatchesControl, IpcNeedsServing, HoldsLock, Listening, Answers,
       Endpoint, Owner

\* A change of the owner and the endpoint that SingleInstance allows.
AbstractStep == [Abstract!Next]_(Abstract!vars)

\* The step of an abstract daemon, in terms of Owner and Endpoint.
LEMMA AbstractCases ==
    ASSUME NEW d \in Daemons,
           \/ UNCHANGED <<Owner, Endpoint>>
           \/ Owner = None /\ Endpoint = None /\ Owner' = d /\ Endpoint' = None
           \/ Owner = d /\ Endpoint = None /\ Owner' = d /\ Endpoint' = d
           \/ Owner = d /\ Endpoint = d /\ Owner' = d /\ Endpoint' = None
           \/ Owner = d /\ Owner' = None /\ Endpoint' = None
    PROVE  AbstractStep
BY DEF AbstractStep, Abstract!Next, Abstract!vars, Abstract!Acquire, Abstract!Publish,
       Abstract!Withdraw, Abstract!Leave, Owner, Endpoint

\* Every step of a start is a stutter, an Acquire, a Publish or a Leave.
LEMMA StartRefines ==
    ASSUME IndInv, IndInv', NEW d \in Daemons, Launch(d) \/ Start(d) \/ ListenFails(d)
    PROVE  AbstractStep
<1> USE ProcessesAreDistinct
    DEF IndInv, TypeOK, LockMatchesControl, IpcNeedsServing, HoldsLock, Listening, UnderLock,
        BeforeLock, Owner, Endpoint, Answers, Step, End, Unlocked, OrNone,
        workerVars, fileVars, clientVars
<1>1. CASE Launch(d)           BY <1>1, AbstractCases DEF Launch
<1>2. CASE CheckRunning(d)     BY <1>2, AbstractCases DEF CheckRunning
<1>3. CASE BindDns(d)          BY <1>3, AbstractCases DEF BindDns
<1>4. CASE BindProxy(d)        BY <1>4, AbstractCases DEF BindProxy
<1>5. CASE AcquireLock(d)      BY <1>5, AbstractCases DEF AcquireLock
<1>6. CASE WritePID(d)         BY <1>6, AbstractCases DEF WritePID
<1>7. CASE TruncateNonce(d)    BY <1>7, AbstractCases DEF TruncateNonce
<1>8. CASE FillNonce(d)        BY <1>8, AbstractCases DEF FillNonce
<1>9. CASE ClearStaleSocket(d) BY <1>9, AbstractCases DEF ClearStaleSocket
<1>10. CASE BindSocket(d)      BY <1>10, AbstractCases DEF BindSocket
<1>11. CASE AbortRemovePID(d)  BY <1>11, AbstractCases DEF AbortRemovePID
<1>12. CASE AbortUnlock(d)     BY <1>12, AbstractCases DEF AbortUnlock
<1>13. CASE ListenFails(d)     BY <1>13, AbstractCases DEF ListenFails
<1> QED BY <1>1, <1>2, <1>3, <1>4, <1>5, <1>6, <1>7, <1>8, <1>9, <1>10, <1>11, <1>12, <1>13
        DEF Start


\* Every step of a serving daemon is a stutter, a Withdraw or a Leave.
LEMMA ServeRefines ==
    ASSUME IndInv, IndInv', NEW d \in Daemons,
           \/ Signal(d) \/ Kill(d) \/ Exit(d)
           \/ DnsWorker(d) \/ ProxyWorker(d) \/ IpcWorker(d) \/ WorkerFails(d)
    PROVE  AbstractStep
<1> USE ProcessesAreDistinct
    DEF IndInv, TypeOK, LockMatchesControl, IpcNeedsServing, HoldsLock, Listening, UnderLock,
        BeforeLock, Owner, Endpoint, Answers, End, Unlocked, OrNone, HolderOwnsFiles,
        Cancel, DnsMove, ProxyMove, IpcMove, workerVars, fileVars, clientVars
<1>1. CASE Signal(d)           BY <1>1, AbstractCases DEF Signal
<1>2. CASE Kill(d)             BY <1>2, AbstractCases DEF Kill
<1>3. CASE Exit(d)             BY <1>3, AbstractCases DEF Exit
<1>4. CASE DnsWorker(d)        BY <1>4, AbstractCases DEF DnsWorker, DnsStart, DnsShutdown
<1>5. CASE ProxyWorker(d)
  BY <1>5, AbstractCases DEF ProxyWorker, ProxyShutdown, ProxyDrained
<1>6. CASE IpcShutdown(d)      BY <1>6, AbstractCases DEF IpcShutdown
<1>7. CASE IpcDrained(d)       BY <1>7, AbstractCases DEF IpcDrained
<1>8. CASE RemoveSocket(d)     BY <1>8, AbstractCases DEF RemoveSocket
<1>9. CASE ReleaseLock(d)      BY <1>9, AbstractCases DEF ReleaseLock
<1>10. CASE RemoveNonce(d)     BY <1>10, AbstractCases DEF RemoveNonce
<1>11. CASE RemovePID(d)       BY <1>11, AbstractCases DEF RemovePID
<1>12. CASE DnsFails(d)        BY <1>12, AbstractCases DEF DnsFails
<1>13. CASE ProxyFails(d)      BY <1>13, AbstractCases DEF ProxyFails
<1>14. CASE IpcFails(d)        BY <1>14, AbstractCases DEF IpcFails
<1> QED BY <1>1, <1>2, <1>3, <1>4, <1>5, <1>6, <1>7, <1>8, <1>9, <1>10, <1>11, <1>12,
           <1>13, <1>14 DEF IpcWorker, WorkerFails

\* Every step of a client is a stutter, but for a sweep of a live socket,
\* which is a Withdraw: a client that holds the lock is no owner.
LEMMA ClientRefines ==
    ASSUME IndInv, IndInv', NEW c \in Clients,
           Down(c) \/ Wait(c) \/ Status(c) \/ Probe(c) \/ Sweep(c)
    PROVE  AbstractStep
<1> USE ProcessesAreDistinct
    DEF Owner, Endpoint, Answers, Listening
<1>1. CASE SweepSocket(c)
  <2>1. Owner' = Owner /\ Endpoint' = None   BY <1>1 DEF SweepSocket
  <2>2. CASE Endpoint = None
    <3>1. UNCHANGED <<Owner, Endpoint>>      BY <2>1, <2>2
    <3> QED BY <3>1 DEF AbstractStep, Abstract!vars
  <2>3. CASE Endpoint # None
    <3>1. Owner \in Daemons /\ Endpoint = Owner
      BY <2>3, EndpointIsOwners DEF IndInv, TypeOK, OrNone
    <3> QED BY <2>1, <3>1, AbstractCases
  <2> QED BY <2>2, <2>3
<1>2. CASE ~SweepSocket(c)
  <2>1. UNCHANGED <<ipc, sockFile, Owner>>
    <3>1. UNCHANGED <<ipc, sockFile>>
      BY <1>2 DEF Down, ReadNonce, Connect, HandleShutdown, ConnLost, ReadPID, SignalPID, Wait,
         WaitForExit, WaitRelease, Status, Probe, DaemonRunning, ProbeRelease, Sweep,
         SweepReadPID, SweepCheck, SweepPID, daemonVars, workerVars, fileVars
    <3>2. UNCHANGED lock \/ {lock, lock'} = {None, c}
      BY <1>2 DEF Down, ReadNonce, Connect, HandleShutdown, ConnLost, ReadPID, SignalPID, Wait,
         WaitForExit, WaitRelease, Status, Probe, DaemonRunning, ProbeRelease, Sweep,
         SweepReadPID, SweepCheck, SweepPID, fileVars, Unlocked
    <3> QED BY <3>1, <3>2
  <2>2. UNCHANGED <<Owner, Endpoint>>        BY <2>1
  <2> QED BY <2>2 DEF AbstractStep, Abstract!vars
<1> QED BY <1>1, <1>2

\* The lock, the socket and the clients together implement SingleInstance: one
\* owner at a time, and only the owner answers.
THEOREM RefinesSingleInstance == Spec => ImplementsSingleInstance
<1>1. Init => Abstract!Init
  BY ProcessesAreDistinct DEF Init, Abstract!Init, Answers
<1>2. IndInv /\ IndInv' /\ [Next]_vars => [Abstract!Next]_(Abstract!vars)
  <2> SUFFICES ASSUME IndInv, IndInv', [Next]_vars PROVE AbstractStep
    BY DEF AbstractStep
  <2>1. CASE Next
    BY <2>1, StartRefines, ServeRefines, ClientRefines DEF Next
  <2>2. CASE UNCHANGED vars
    BY <2>2 DEF AbstractStep, Abstract!vars, vars, daemonVars, fileVars, Answers, Listening
  <2> QED BY <2>1, <2>2
<1> QED BY <1>1, <1>2, IndInvHolds, PTL DEF Spec, ImplementsSingleInstance, Abstract!Spec

-----------------------------------------------------------------------------
(* Nobody waits for the lock in vain.  The guards of the steps stand for
   ENABLED, which is beyond the prover. *)

\* A start has a step to take.
StartCanMove(d) ==
    /\ pc[d] \in (BeforeLock \ {"idle"}) \cup UnderLock
    /\ pc[d] = "bind" => sockFile = None

\* The IPC worker has one: to shut down, or the next of its deferred calls.
IpcCanMove(d) ==
    /\ pc[d] = "serving"
    /\ ipc[d] \notin {"none", "done"}
    /\ ipc[d] = "listen" => cancelled[d]

\* The daemon serves, and nothing has told it to stop.
Serves(d) == Listening(d) /\ ~cancelled[d]

\* Process p is on its way to its next step: a daemon to its end or to serving,
\* a command to the release of the lock that it has only probed.
MovesOn(p) ==
    \/ p \in Daemons /\ (StartCanMove(p) \/ IpcCanMove(p))
    \/ p \in Clients /\ cpc[p] \in {"release", "probed"}

\* The lock is never stuck: who holds it moves on, or serves and has not been told
\* to stop (lifecycle.go:148-169, 278-300, 318-352; daemon.go:195-207).
HolderMovesOn ==
    lock # None => MovesOn(lock) \/ (lock \in Daemons /\ Serves(lock))

\* A `down` that waits gets the lock, or waits for a process that moves on, or a
\* daemon other than its own has come in between two of its polls and serves
\* (down.go:55, lifecycle.go:318-352).  It is what DownReturns needs
\* beside fairness.
DownWaitsForMover ==
    \A c \in Clients : cpc[c] = "wait" /\ target[c] # None /\ lock # None =>
        \/ MovesOn(lock)
        \/ lock \in Daemons \ {target[c]} /\ Serves(lock)

\* A command holds the lock between its probe and its release only, and a `down`
\* waits for a daemon only after that was told to stop.
WaitInv ==
    /\ \A c \in Clients : lock = c => cpc[c] \in {"release", "probed"}
    /\ \A c \in Clients : cpc[c] = "idle" => target[c] = None
    /\ \A c \in Clients : cpc[c] = "wait" /\ target[c] # None => cancelled[target[c]]

\* A step of a daemon takes the lock for itself only, and takes no cancellation back.
LEMMA DaemonWaitInv ==
    ASSUME IndInv, WaitInv, NEW d \in Daemons,
           lock' \in {lock, None, d}, UNCHANGED <<cpc, target>>,
           \A e \in Daemons : cancelled[e] => cancelled'[e]
    PROVE  WaitInv'
<1>1. ASSUME NEW c \in Clients, lock' = c PROVE cpc'[c] \in {"release", "probed"}
  <2>1. c # d /\ c # None      BY ProcessesAreDistinct
  <2>2. lock = c               BY <1>1, <2>1
  <2> QED BY <2>2 DEF WaitInv
<1>2. \A c \in Clients : target[c] \in OrNone(Daemons)  BY DEF IndInv, TypeOK
<1> QED BY <1>1, <1>2 DEF WaitInv, OrNone

LEMMA WaitInvHolds == Spec => []WaitInv
<1>1. Init => WaitInv
  BY ProcessesAreDistinct DEF Init, WaitInv
<1>2. ASSUME IndInv, WaitInv, NEW d \in Daemons, Launch(d) \/ Start(d) \/ ListenFails(d)
      PROVE  WaitInv'
  <2>1. lock' \in {lock, None, d} /\ UNCHANGED <<cpc, target, cancelled>>
    BY <1>2 DEF Launch, Start, ListenFails, CheckRunning, BindDns, BindProxy, AcquireLock, WritePID,
       TruncateNonce, FillNonce, ClearStaleSocket, BindSocket, AbortRemovePID, AbortUnlock, End,
       Unlocked, workerVars, fileVars, clientVars
  <2> QED BY <1>2, <2>1, DaemonWaitInv
<1>3. ASSUME IndInv, WaitInv, NEW d \in Daemons,
             \/ Signal(d) \/ Kill(d) \/ Exit(d)
             \/ DnsWorker(d) \/ ProxyWorker(d) \/ IpcWorker(d) \/ WorkerFails(d)
      PROVE  WaitInv'
  <2>1. lock' \in {lock, None, d} /\ UNCHANGED <<cpc, target>>
    BY <1>3 DEF Signal, Kill, Exit, DnsWorker, DnsStart, DnsShutdown, DnsFails, DnsMove, ProxyWorker,
       ProxyShutdown, ProxyDrained, ProxyFails, ProxyMove, IpcWorker, IpcShutdown, IpcDrained,
       RemoveSocket, ReleaseLock, RemoveNonce, RemovePID, IpcFails, IpcMove, WorkerFails, End,
       Unlocked, workerVars, fileVars, clientVars
  <2>2. UNCHANGED cancelled \/ Cancel(d)
    BY <1>3 DEF Signal, Kill, Exit, DnsWorker, DnsStart, DnsShutdown, DnsFails, ProxyWorker,
       ProxyShutdown, ProxyDrained, ProxyFails, IpcWorker, IpcShutdown, IpcDrained,
       RemoveSocket, ReleaseLock, RemoveNonce, RemovePID, IpcFails, WorkerFails
  <2>3. \A e \in Daemons : cancelled[e] => cancelled'[e]
    <3>1. cancelled \in [Daemons -> BOOLEAN]                        BY <1>3 DEF IndInv, TypeOK
    <3>2. CASE UNCHANGED cancelled                                   BY <3>2
    <3>3. CASE cancelled' = [cancelled EXCEPT ![d] = TRUE]           BY <3>1, <3>3
    <3> QED BY <2>2, <3>2, <3>3 DEF Cancel
  <2> QED BY <1>3, <2>1, <2>3, DaemonWaitInv
<1>4. ASSUME IndInv, WaitInv, NEW c \in Clients,
             Down(c) \/ Wait(c) \/ Status(c) \/ Probe(c) \/ Sweep(c)
      PROVE  WaitInv'
  <2> USE <1>4, ProcessesAreDistinct
      DEF IndInv, TypeOK, WaitInv, Go, Unlocked, OrNone, ClientStates, daemonVars, workerVars, fileVars
  <2>1. CASE ReadNonce(c)                                BY <2>1 DEF ReadNonce
  <2>2. CASE Connect(c)                                  BY <2>2 DEF Connect
  <2>3. CASE HandleShutdown(c)                           BY <2>3 DEF HandleShutdown, Cancel
  <2>4. CASE ConnLost(c)                                 BY <2>4 DEF ConnLost
  <2>5. CASE ReadPID(c)                                  BY <2>5 DEF ReadPID
  <2>6. CASE SignalPID(c)                                BY <2>6 DEF SignalPID, Cancel
  <2>7. CASE WaitForExit(c)                              BY <2>7 DEF WaitForExit
  <2>8. CASE WaitRelease(c)                              BY <2>8 DEF WaitRelease
  <2>9. CASE Status(c)                                   BY <2>9 DEF Status
  <2>10. CASE DaemonRunning(c)                           BY <2>10 DEF DaemonRunning
  <2>11. CASE ProbeRelease(c)                            BY <2>11 DEF ProbeRelease
  <2>12. CASE Sweep(c)                                   BY <2>12 DEF Sweep, SweepReadPID, SweepCheck, SweepSocket, SweepPID
  <2> QED BY <2>1, <2>2, <2>3, <2>4, <2>5, <2>6, <2>7, <2>8, <2>9, <2>10, <2>11, <2>12
          DEF Down, Wait, Probe
<1>5. WaitInv /\ UNCHANGED vars => WaitInv'
  BY DEF WaitInv, vars, daemonVars, fileVars, clientVars
<1>6. IndInv /\ WaitInv /\ [Next]_vars => WaitInv'
  BY <1>2, <1>3, <1>4, <1>5 DEF Next
<1> QED BY <1>1, <1>6, IndInvHolds, PTL DEF Spec

LEMMA HolderHasStep ==
    ASSUME IndInv, WaitInv
    PROVE  HolderMovesOn
<1> SUFFICES ASSUME lock # None PROVE MovesOn(lock) \/ (lock \in Daemons /\ Serves(lock))
  BY DEF HolderMovesOn
<1>1. CASE lock \in Daemons
  <2>1. HoldsLock(lock)  BY <1>1 DEF IndInv, LockMatchesControl
  <2>2. CASE pc[lock] \in UnderLock
    BY <1>1, <2>2 DEF MovesOn, StartCanMove, IndInv, BindFindsPathFree
  <2>3. CASE pc[lock] = "serving" /\ ipc[lock] \in {"listen", "draining", "remove", "unlock"}
    BY <1>1, <2>3 DEF MovesOn, IpcCanMove, Serves, Listening
  <2> QED BY <2>1, <2>2, <2>3 DEF HoldsLock
<1>2. CASE lock \in Clients
  BY <1>2 DEF MovesOn, WaitInv
<1> QED BY <1>1, <1>2 DEF IndInv, TypeOK, OrNone

\* The lock is never stuck, however many daemons and commands meet at it.
THEOREM LockIsNeverStuck == Spec => []HolderMovesOn
BY HolderHasStep, IndInvHolds, WaitInvHolds, PTL

\* A `down` never waits for a process that has no reason to let the lock go,
\* unless a successor of its daemon has got in first.
THEOREM DownIsNotStuck == Spec => []DownWaitsForMover
<1>1. ASSUME IndInv, WaitInv PROVE DownWaitsForMover
  <2> SUFFICES ASSUME NEW c \in Clients, cpc[c] = "wait", target[c] # None, lock # None, ~MovesOn(lock)
               PROVE  lock \in Daemons \ {target[c]} /\ Serves(lock)
    BY DEF DownWaitsForMover
  <2>1. lock \in Daemons /\ Serves(lock)  BY <1>1, HolderHasStep DEF HolderMovesOn
  <2>2. cancelled[target[c]]              BY <1>1 DEF WaitInv
  <2> QED BY <2>1, <2>2 DEF Serves
<1> QED BY <1>1, IndInvHolds, WaitInvHolds, PTL

-----------------------------------------------------------------------------
(* Processes run for a bounded number of steps *)

\* How many steps a daemon may still take, from what its start, and then its IPC
\* worker, has behind it; and a command.
StartLeft == [idle |-> 17, check |-> 16, dns |-> 15, proxy |-> 14, lock |-> 13, pid |-> 12,
              nonce |-> 11, nonceFill |-> 10, stale |-> 9, bind |-> 8,
              abortPid |-> 2, abortUnlock |-> 1, serving |-> 0, refused |-> 0, dead |-> 0]
IpcLeft == [listen |-> 7, draining |-> 6, remove |-> 5, unlock |-> 4, rmNonce |-> 3, rmPid |-> 2,
            done |-> 1, none |-> 0]
CommandLeft == [idle |-> 7, connect |-> 6, await |-> 5, fallback |-> 4, signal |-> 3, sweep |-> 4,
                sweepAlive |-> 3, wait |-> 2, sweepSock |-> 2, release |-> 1, probed |-> 1, sweepPid |-> 1,
                stopped |-> 0, failed |-> 0, done |-> 0]

DaemonRank(d) == StartLeft[pc[d]] + IpcLeft[ipc[d]]
CommandRank(c) == CommandLeft[cpc[c]]

\* No step of any process takes another one, or itself, further from its end ...
NobodyFarther ==
    /\ \A d \in Daemons : DaemonRank(d)' <= DaemonRank(d)
    /\ \A c \in Clients : CommandRank(c)' <= CommandRank(c)

\* ... and each step of a start, of an IPC worker and of a command takes it nearer.
MoversNearer ==
    /\ \A d \in Daemons : Start(d) \/ IpcWorker(d) => DaemonRank(d)' < DaemonRank(d)
    /\ \A c \in Clients : Runs(c) => CommandRank(c)' < CommandRank(c)

RanksBounded ==
    /\ \A d \in Daemons : DaemonRank(d) \in 0..17
    /\ \A c \in Clients : CommandRank(c) \in 0..7

LEMMA LeftIsNatural ==
    /\ \A s \in BeforeLock \cup UnderLock \cup {"serving"} \cup Ended : StartLeft[s] \in 0..17
    /\ \A s \in IpcStates : IpcLeft[s] \in 0..7
    /\ \A s \in ClientStates : CommandLeft[s] \in 0..7
BY DEF StartLeft, IpcLeft, CommandLeft, BeforeLock, UnderLock, Ended, IpcStates, ClientStates

LEMMA RanksAreBounded == IndInv => RanksBounded
<1> SUFFICES ASSUME IndInv PROVE RanksBounded
  OBVIOUS
<1>1. ASSUME NEW d \in Daemons PROVE DaemonRank(d) \in 0..17
  <2>1. StartLeft[pc[d]] \in 0..17 /\ IpcLeft[ipc[d]] \in 0..7
    BY LeftIsNatural DEF IndInv, TypeOK
  <2>2. CASE pc[d] = "serving"  BY <2>1, <2>2 DEF DaemonRank, StartLeft
  <2>3. CASE pc[d] # "serving"
    <3>1. IpcLeft[ipc[d]] = 0   BY <2>3 DEF IndInv, IpcNeedsServing, IpcLeft
    <3> QED BY <2>1, <3>1 DEF DaemonRank
  <2> QED BY <2>2, <2>3
<1>2. \A c \in Clients : CommandRank(c) \in 0..7
  BY LeftIsNatural DEF IndInv, TypeOK, CommandRank
<1> QED BY <1>1, <1>2 DEF RanksBounded

\* One process moves and the others keep their ranks, or no rank changes.
LEMMA OthersKeepTheirs ==
    ASSUME RanksBounded,
           \/ \E d \in Daemons :
                 /\ DaemonRank(d)' <= DaemonRank(d)
                 /\ \A e \in Daemons \ {d} : DaemonRank(e)' = DaemonRank(e)
                 /\ \A c \in Clients : CommandRank(c)' = CommandRank(c)
           \/ \E c \in Clients :
                 /\ CommandRank(c)' <= CommandRank(c)
                 /\ \A e \in Clients \ {c} : CommandRank(e)' = CommandRank(e)
                 /\ \A d \in Daemons : DaemonRank(d)' = DaemonRank(d)
           \/ /\ \A d \in Daemons : DaemonRank(d)' = DaemonRank(d)
              /\ \A c \in Clients : CommandRank(c)' = CommandRank(c)
    PROVE  NobodyFarther
<1>1. ASSUME NEW d \in Daemons PROVE DaemonRank(d)' <= DaemonRank(d)
  <2>1. DaemonRank(d) \in 0..17                                             BY DEF RanksBounded
  <2>2. DaemonRank(d)' <= DaemonRank(d) \/ DaemonRank(d)' = DaemonRank(d)    OBVIOUS
  <2> QED BY <2>1, <2>2
<1>2. ASSUME NEW c \in Clients PROVE CommandRank(c)' <= CommandRank(c)
  <2>1. CommandRank(c) \in 0..7                                             BY DEF RanksBounded
  <2>2. CommandRank(c)' <= CommandRank(c) \/ CommandRank(c)' = CommandRank(c)  OBVIOUS
  <2> QED BY <2>1, <2>2
<1> QED BY <1>1, <1>2 DEF NobodyFarther

\* The steps of the others leave a rank as it is.
LEMMA SameRank ==
    ASSUME IndInv
    PROVE  /\ \A d \in Daemons : pc'[d] = pc[d] /\ ipc'[d] = ipc[d] => DaemonRank(d)' = DaemonRank(d)
           /\ \A c \in Clients : cpc'[c] = cpc[c] => CommandRank(c)' = CommandRank(c)
BY DEF DaemonRank, CommandRank

\* A start outside Listen's success has no IPC worker.
LEMMA StartIsNearer ==
    ASSUME IndInv, NEW d \in Daemons, Launch(d) \/ Start(d) \/ ListenFails(d)
    PROVE  DaemonRank(d)' < DaemonRank(d)
<1>1. /\ pc[d] \in BeforeLock \cup UnderLock \cup {"serving"} \cup Ended
      /\ pc \in [Daemons -> BeforeLock \cup UnderLock \cup {"serving"} \cup Ended]
      /\ ipc \in [Daemons -> IpcStates]
  BY DEF IndInv, TypeOK
<1>2. pc[d] # "serving" => ipc[d] = "none"
  BY DEF IndInv, IpcNeedsServing
<1> USE <1>1, <1>2 DEF DaemonRank, StartLeft, IpcLeft, Step, End, workerVars
<1>3. CASE Launch(d)           BY <1>3 DEF Launch
<1>4. CASE CheckRunning(d)     BY <1>4 DEF CheckRunning
<1>5. CASE BindDns(d)          BY <1>5 DEF BindDns
<1>6. CASE BindProxy(d)        BY <1>6 DEF BindProxy
<1>7. CASE AcquireLock(d)      BY <1>7 DEF AcquireLock
<1>8. CASE WritePID(d)         BY <1>8 DEF WritePID
<1>9. CASE TruncateNonce(d)    BY <1>9 DEF TruncateNonce
<1>10. CASE FillNonce(d)       BY <1>10 DEF FillNonce
<1>11. CASE ClearStaleSocket(d) BY <1>11 DEF ClearStaleSocket
<1>12. CASE BindSocket(d)      BY <1>12 DEF BindSocket
<1>13. CASE AbortRemovePID(d)  BY <1>13 DEF AbortRemovePID
<1>14. CASE AbortUnlock(d)     BY <1>14 DEF AbortUnlock
<1>15. CASE ListenFails(d)     BY <1>15 DEF ListenFails
<1> QED BY <1>3, <1>4, <1>5, <1>6, <1>7, <1>8, <1>9, <1>10, <1>11, <1>12, <1>13, <1>14, <1>15 DEF Start

LEMMA IpcIsNearer ==
    ASSUME IndInv, NEW d \in Daemons, IpcWorker(d) \/ IpcFails(d)
    PROVE  DaemonRank(d)' < DaemonRank(d)
<1>1. PICK from \in IpcStates, to \in IpcStates :
          /\ IpcLeft[to] < IpcLeft[from] /\ IpcMove(d, from, to)
  BY DEF IpcWorker, IpcShutdown, IpcDrained, RemoveSocket, ReleaseLock, RemoveNonce, RemovePID,
         IpcFails, IpcLeft, IpcStates
<1>2. pc'[d] = pc[d] /\ pc[d] = "serving" /\ ipc[d] = from /\ ipc'[d] = to
  BY <1>1 DEF IpcMove, IndInv, TypeOK
<1> QED BY <1>1, <1>2, LeftIsNatural DEF DaemonRank, StartLeft

\* The end of a process leaves it no step.
LEMMA EndIsLast ==
    ASSUME IndInv, NEW d \in Daemons, Kill(d) \/ Exit(d)
    PROVE  DaemonRank(d)' <= DaemonRank(d)
<1>1. pc'[d] = "dead" /\ ipc'[d] = "none"
  BY DEF Kill, Exit, End, IndInv, TypeOK
<1>2. DaemonRank(d)' = 0  BY <1>1 DEF DaemonRank, StartLeft, IpcLeft
<1> QED BY <1>2, RanksAreBounded DEF RanksBounded

LEMMA CommandIsNearer ==
    ASSUME IndInv, NEW c \in Clients, Down(c) \/ Wait(c) \/ Status(c) \/ Probe(c) \/ Sweep(c)
    PROVE  CommandRank(c)' < CommandRank(c)
<1>1. PICK from \in ClientStates, to \in ClientStates :
          CommandLeft[to] < CommandLeft[from] /\ Go(c, from, to)
  <2> USE DEF CommandLeft, ClientStates
  <2>1. CASE Down(c)
    BY <2>1 DEF Down, ReadNonce, Connect, HandleShutdown, ConnLost, ReadPID, SignalPID
  <2>2. CASE Wait(c)    BY <2>2 DEF Wait, WaitForExit, WaitRelease
  <2>3. CASE Status(c)  BY <2>3 DEF Status
  <2>4. CASE Probe(c)   BY <2>4 DEF Probe, DaemonRunning, ProbeRelease
  <2>5. CASE Sweep(c)   BY <2>5 DEF Sweep, SweepReadPID, SweepCheck, SweepSocket, SweepPID
  <2> QED BY <2>1, <2>2, <2>3, <2>4, <2>5
<1>2. cpc[c] = from /\ cpc'[c] = to
  BY <1>1 DEF Go, IndInv, TypeOK
<1> QED BY <1>1, <1>2 DEF CommandRank

\* A daemon takes at most 17 steps and a command at most 7, and no step of another
\* process gives them back: this is why one weak fairness condition for all of
\* them says as much as one for each.
THEOREM ProcessesRunOut ==
    Spec => []RanksBounded /\ [][NobodyFarther]_vars /\ [][MoversNearer]_vars
<1>1. ASSUME IndInv, RanksBounded', [Next]_vars
      PROVE  NobodyFarther /\ MoversNearer
  <2>1. RanksBounded  BY <1>1, RanksAreBounded
  <2>2. ASSUME NEW d \in Daemons,
               \/ Launch(d) \/ Start(d) \/ ListenFails(d) \/ Signal(d) \/ Kill(d) \/ Exit(d)
               \/ DnsWorker(d) \/ ProxyWorker(d) \/ IpcWorker(d) \/ WorkerFails(d)
        PROVE  NobodyFarther
    <3>1. /\ \A e \in Daemons \ {d} : pc'[e] = pc[e] /\ ipc'[e] = ipc[e]
          /\ UNCHANGED cpc
      <4>1. CASE Launch(d) \/ Start(d) \/ ListenFails(d)
        BY <1>1, <4>1 DEF IndInv, TypeOK, Launch, Start, ListenFails, CheckRunning, BindDns, BindProxy,
           AcquireLock, WritePID, TruncateNonce, FillNonce, ClearStaleSocket, BindSocket,
           AbortRemovePID, AbortUnlock, Step, End, workerVars, clientVars
      <4>2. CASE \/ Signal(d) \/ Kill(d) \/ Exit(d)
                 \/ DnsWorker(d) \/ ProxyWorker(d) \/ IpcWorker(d) \/ WorkerFails(d)
        BY <1>1, <4>2 DEF IndInv, TypeOK, Signal, Kill, Exit, DnsWorker, DnsStart, DnsShutdown, DnsFails,
           DnsMove, ProxyWorker, ProxyShutdown, ProxyDrained, ProxyFails, ProxyMove, IpcWorker,
           IpcShutdown, IpcDrained, RemoveSocket, ReleaseLock, RemoveNonce, RemovePID, IpcFails,
           IpcMove, WorkerFails, End, workerVars, clientVars
      <4> QED BY <2>2, <4>1, <4>2
    <3>2. DaemonRank(d)' <= DaemonRank(d)
      <4>1. CASE Launch(d) \/ Start(d) \/ ListenFails(d) \/ IpcWorker(d) \/ IpcFails(d)
        <5>1. DaemonRank(d)' < DaemonRank(d)  BY <1>1, <4>1, StartIsNearer, IpcIsNearer
        <5> QED BY <1>1, <2>1, <5>1 DEF RanksBounded
      <4>2. CASE Kill(d) \/ Exit(d)
        BY <1>1, <4>2, EndIsLast
      <4>3. CASE Signal(d) \/ DnsWorker(d) \/ ProxyWorker(d) \/ DnsFails(d) \/ ProxyFails(d)
        <5>1. UNCHANGED <<pc, ipc>>
          BY <4>3 DEF Signal, DnsWorker, DnsStart, DnsShutdown, DnsFails, DnsMove, ProxyWorker,
             ProxyShutdown, ProxyDrained, ProxyFails, ProxyMove, workerVars
        <5> QED BY <1>1, <2>1, <5>1, SameRank DEF RanksBounded
      <4> QED BY <2>2, <4>1, <4>2, <4>3 DEF WorkerFails
    <3> QED BY <1>1, <2>1, <3>1, <3>2, SameRank, OthersKeepTheirs
  <2>3. ASSUME NEW c \in Clients, Down(c) \/ Wait(c) \/ Status(c) \/ Probe(c) \/ Sweep(c)
        PROVE  NobodyFarther
    <3>1. /\ \A e \in Clients \ {c} : cpc'[e] = cpc[e]
          /\ UNCHANGED <<pc, ipc>>
      BY <1>1, <2>3 DEF IndInv, TypeOK, Down, ReadNonce, Connect, HandleShutdown, ConnLost, ReadPID,
         SignalPID, Wait, WaitForExit, WaitRelease, Status, Probe, DaemonRunning, ProbeRelease, Sweep,
         SweepReadPID, SweepCheck, SweepSocket, SweepPID, Go, daemonVars, workerVars
    <3>2. CommandRank(c)' < CommandRank(c)  BY <1>1, <2>3, CommandIsNearer
    <3>3. CommandRank(c)' <= CommandRank(c)
      <4>1. CommandRank(c) \in 0..7 /\ CommandRank(c)' \in 0..7  BY <1>1, <2>1 DEF RanksBounded
      <4> QED BY <3>2, <4>1
    <3> QED BY <1>1, <2>1, <3>1, <3>3, SameRank, OthersKeepTheirs
  <2>4. ASSUME UNCHANGED vars
        PROVE  NobodyFarther
    BY <1>1, <2>1, <2>4, SameRank, OthersKeepTheirs DEF vars, daemonVars, workerVars, clientVars
  <2>5. NobodyFarther
    BY <1>1, <2>2, <2>3, <2>4 DEF Next
  <2>6. MoversNearer
    BY <1>1, StartIsNearer, IpcIsNearer, CommandIsNearer DEF MoversNearer, Runs
  <2> QED BY <2>5, <2>6
<1> QED BY <1>1, RanksAreBounded, IndInvHolds, PTL DEF Spec
=============================================================================
