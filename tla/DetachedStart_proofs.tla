------------------------ MODULE DetachedStart_proofs ------------------------
(***************************************************************************)
(* What a detached start reports is true, for any number of starts and     *)
(* whatever the log holds.                                                 *)
(***************************************************************************)
EXTENDS DetachedStart, TLAPS

-----------------------------------------------------------------------------
(* The inductive invariant *)

\* Before the fork nothing has happened to the child; a waiting parent has
\* forked one, and only a finished one has told anything.
ParentInStep ==
    \A s \in Starts :
        /\ parent[s] \in {"idle", "spawn"} => child[s] = "none" /\ ~forked[s]
        /\ parent[s] # "done" => outcome[s] = "none" /\ cause[s] = 0
        /\ parent[s] = "done" => outcome[s] # "none"
        /\ parent[s] \in {"holding", "reading", "reaping", "tail"} => forked[s]
        /\ cause[s] # 0 => outcome[s] = "crashed"

\* A child that runs holds the write end until it has sent its readiness.
EofNeedsEnd ==
    \A s \in Starts :
        forked[s] /\ "child" \notin writers[s] => child[s] = "ended" \/ pipe[s] # "empty"

\* Only a child between its lock and its end owns the directory.
OwnerRuns ==
    \A s \in Starts : owner = s => child[s] \in {"locked", "launched", "waiting"}

\* A parent that reports a crash or a timeout has seen its child end.
ReportNeedsEnd ==
    \A s \in Starts :
        (parent[s] = "tail" \/ outcome[s] \in {"timedout", "crashed"}) => child[s] = "ended"

\* A child prints an error of its start as its last line, and never after
\* it has sent its readiness.
StartupErrorIn(s) == \E i \in DOMAIN log : log[i] = [by |-> s, what |-> "startup"]

ErrorsAreFinal ==
    \A s \in Starts :
        /\ StartupErrorIn(s) => child[s] \in {"exiting", "ended"} /\ pipe[s] = "empty"
        /\ pipe[s] # "empty" => child[s] \in {"waiting", "failing", "exiting", "ended"}
        /\ outcome[s] = "started" => pipe[s] = "taken"
        /\ child[s] \in {"exiting", "ended", "failing", "waiting"} \/ pipe[s] = "empty"

IndInv ==
    /\ DetachedTypeOK
    /\ ParentInStep
    /\ EofNeedsEnd
    /\ OwnerRuns
    /\ ReportNeedsEnd
    /\ ErrorsAreFinal
    /\ OwnErrorIsNotMasked

-----------------------------------------------------------------------------
(* Preservation *)

LEMMA InitHolds == Init => IndInv
  BY StartsAreProper
  DEF Init, Dir!Init, IndInv, DetachedTypeOK, ParentStates, Outcomes, ChildStates, Lines, ParentInStep,
      EofNeedsEnd, OwnerRuns, ReportNeedsEnd, ErrorsAreFinal, StartupErrorIn, OwnErrorIsNotMasked

\* The steps of the parents.
LEMMA ParentKeeps ==
    ASSUME IndInv, NEW s \in Starts, Parent(s)
    PROVE  IndInv'
  <1> USE StartsAreProper DEF IndInv, DetachedTypeOK, ParentStates, Outcomes, ChildStates, GoTo, Tell, dirVars
  <1>1. CASE Begin(s)
    <2>1. UNCHANGED <<cause, forked, pipe, writers, doomed, log, dirVars>>
      BY <1>1 DEF Begin
    <2>2. CASE GoTo(s, "idle", "spawn") /\ UNCHANGED <<outcome, child>>
      BY <2>1, <2>2
      DEF ParentInStep, EofNeedsEnd, OwnerRuns, ReportNeedsEnd,
           ErrorsAreFinal, StartupErrorIn, OwnErrorIsNotMasked
    <2>3. CASE Tell(s, "idle", "refused") /\ UNCHANGED child
      BY <2>1, <2>3
      DEF ParentInStep, EofNeedsEnd, OwnerRuns, ReportNeedsEnd,
           ErrorsAreFinal, StartupErrorIn, OwnErrorIsNotMasked
    <2>4. CASE Tell(s, "idle", "foreground") /\ child' = [child EXCEPT ![s] = "starting"]
      BY <2>1, <2>4
      DEF ParentInStep, EofNeedsEnd, OwnerRuns, ReportNeedsEnd,
           ErrorsAreFinal, StartupErrorIn, OwnErrorIsNotMasked
    <2> QED BY <1>1, <2>2, <2>3, <2>4 DEF Begin
  <1>2. CASE SpawnFails(s)
    BY <1>2 DEF SpawnFails, ParentInStep, EofNeedsEnd, OwnerRuns, ReportNeedsEnd, ErrorsAreFinal,
                StartupErrorIn, OwnErrorIsNotMasked
  <1>3. CASE Spawn(s)
    BY <1>3 DEF Spawn, ParentInStep, EofNeedsEnd, OwnerRuns, ReportNeedsEnd, ErrorsAreFinal,
                StartupErrorIn, OwnErrorIsNotMasked
  <1>4. CASE CloseWriteEnd(s)
    <2>1. CASE GoTo(s, "holding", "reading") /\ UNCHANGED <<outcome, doomed>>
      BY <1>4, <2>1 DEF CloseWriteEnd, ParentInStep, EofNeedsEnd, OwnerRuns, ReportNeedsEnd,
                  ErrorsAreFinal, StartupErrorIn, OwnErrorIsNotMasked
    <2>2. CASE Tell(s, "holding", "failed") /\ doomed' = doomed \cup {s}
      BY <1>4, <2>2 DEF CloseWriteEnd, ParentInStep, EofNeedsEnd, OwnerRuns, ReportNeedsEnd,
                  ErrorsAreFinal, StartupErrorIn, OwnErrorIsNotMasked
    <2> QED BY <1>4, <2>1, <2>2 DEF CloseWriteEnd
  <1>5. CASE ReadPayload(s)
    BY <1>5 DEF ReadPayload, ParentInStep, EofNeedsEnd, OwnerRuns, ReportNeedsEnd, ErrorsAreFinal,
                StartupErrorIn, OwnErrorIsNotMasked
  <1>6. CASE ReadEof(s)
    BY <1>6 DEF ReadEof, ParentInStep, EofNeedsEnd, OwnerRuns, ReportNeedsEnd, ErrorsAreFinal,
                StartupErrorIn, OwnErrorIsNotMasked
  <1>7. CASE Timeout(s)
    BY <1>7 DEF Timeout, ParentInStep, EofNeedsEnd, OwnerRuns, ReportNeedsEnd, ErrorsAreFinal,
                StartupErrorIn, OwnErrorIsNotMasked
  <1>8. CASE Reap(s)
    BY <1>8 DEF Reap, ParentInStep, EofNeedsEnd, OwnerRuns, ReportNeedsEnd, ErrorsAreFinal,
                StartupErrorIn, OwnErrorIsNotMasked
  <1>9. CASE ReadFails(s)
    BY <1>9 DEF ReadFails, ParentInStep, EofNeedsEnd, OwnerRuns, ReportNeedsEnd, ErrorsAreFinal,
                StartupErrorIn, OwnErrorIsNotMasked
  <1>10. CASE Interrupt(s)
    BY <1>10 DEF Interrupt, ParentInStep, EofNeedsEnd, OwnerRuns, ReportNeedsEnd, ErrorsAreFinal,
                 StartupErrorIn, OwnErrorIsNotMasked
  <1>11. CASE ReportCrash(s)
    <2>1. PICK c \in LastStartupError \cup {0} : cause' = [cause EXCEPT ![s] = c]
      BY <1>11 DEF ReportCrash
    <2>2. c \in 0..Len(log)
      BY <2>1 DEF LastStartupError, ErrorLines
    <2>3. DetachedTypeOK' /\ ParentInStep' /\ EofNeedsEnd' /\ OwnerRuns' /\ ReportNeedsEnd' /\ ErrorsAreFinal'
      BY <1>11, <2>1, <2>2
      DEF ReportCrash, ParentInStep, EofNeedsEnd, OwnerRuns, ReportNeedsEnd, ErrorsAreFinal, StartupErrorIn
    <2>4. ASSUME c # 0, NEW i \in DOMAIN log, log[i].what # "chat"
          PROVE  c >= i
      BY <2>1, <2>4, BoundsAreNatural DEF LastStartupError, ErrorLines
    <2>5. OwnErrorIsNotMasked'
      BY <1>11, <2>1, <2>2, <2>4 DEF ReportCrash, OwnErrorIsNotMasked
    <2> QED BY <2>3, <2>5
  <1> QED BY <1>1, <1>2, <1>3, <1>4, <1>5, <1>6, <1>7, <1>8, <1>9, <1>10, <1>11 DEF Parent, Waiting

\* A line is added to the log, or none.
LEMMA LoggedIsLog ==
    ASSUME IndInv, NEW s \in Starts, NEW what \in {"startup", "fatal", "chat"}, log' = Logged(s, what)
    PROVE  /\ log' \in Seq(Lines)
           /\ Len(log') >= Len(log)
           /\ \A i \in DOMAIN log : i \in DOMAIN log' /\ log'[i] = log[i]
           /\ \A i \in DOMAIN log' \ DOMAIN log : log'[i] = [by |-> s, what |-> what] /\ forked[s]
  <1>1. log \in Seq(Lines) /\ [by |-> s, what |-> what] \in Lines
    BY DEF IndInv, DetachedTypeOK, Lines
  <1>2. CASE forked[s]
    <2>1. log' = Append(log, [by |-> s, what |-> what])
      BY <1>2 DEF Logged
    <2> QED BY <1>1, <1>2, <2>1
  <1>3. CASE ~forked[s]
    BY <1>1, <1>3 DEF Logged
  <1> QED BY <1>2, <1>3

\* The steps of the children.
LEMMA ChildKeeps ==
    ASSUME IndInv, NEW s \in Starts, Child(s)
    PROVE  IndInv'
  <1> USE StartsAreProper DEF IndInv, DetachedTypeOK, ChildStates, Turn, parentVars, dirVars
  <1>1. CASE Decide(s)
    BY <1>1 DEF Decide, Detaches, ParentInStep, EofNeedsEnd, OwnerRuns, ReportNeedsEnd, ErrorsAreFinal,
                StartupErrorIn, OwnErrorIsNotMasked
  <1>2. CASE Preflight(s)
    BY <1>2 DEF Preflight, ParentInStep, EofNeedsEnd, OwnerRuns, ReportNeedsEnd, ErrorsAreFinal,
                StartupErrorIn, OwnErrorIsNotMasked
  <1>3. CASE StartFails(s)
    <2>1. CASE Turn(s, "starting", "erring")
      BY <1>3, <2>1 DEF StartFails, ParentInStep, EofNeedsEnd, OwnerRuns, ReportNeedsEnd,
                  ErrorsAreFinal, StartupErrorIn, OwnErrorIsNotMasked
    <2>2. CASE Turn(s, "binding", "erring")
      BY <1>3, <2>2 DEF StartFails, ParentInStep, EofNeedsEnd, OwnerRuns, ReportNeedsEnd,
                  ErrorsAreFinal, StartupErrorIn, OwnErrorIsNotMasked
    <2> QED BY <1>3, <2>1, <2>2 DEF StartFails
  <1>4. CASE Lock(s)
    BY <1>4 DEF Lock, Dir!Acquire, ParentInStep, EofNeedsEnd, OwnerRuns, ReportNeedsEnd, ErrorsAreFinal,
                StartupErrorIn, OwnErrorIsNotMasked
  <1>5. CASE ListenFails(s)
    BY <1>5 DEF ListenFails, Dir!Leave, ParentInStep, EofNeedsEnd, OwnerRuns, ReportNeedsEnd,
                ErrorsAreFinal, StartupErrorIn, OwnErrorIsNotMasked
  <1>6. CASE Launch(s)
    BY <1>6 DEF Launch, Dir!Publish, ParentInStep, EofNeedsEnd, OwnerRuns, ReportNeedsEnd,
                ErrorsAreFinal, StartupErrorIn, OwnErrorIsNotMasked
  <1>7. CASE SendReadiness(s)
    BY <1>7 DEF SendReadiness, Written, ParentInStep, EofNeedsEnd, OwnerRuns, ReportNeedsEnd,
                ErrorsAreFinal, StartupErrorIn, OwnErrorIsNotMasked
  <1>8. CASE IpcStops(s)
    BY <1>8 DEF IpcStops, Dir!Withdraw, Dir!Leave, ParentInStep, EofNeedsEnd, OwnerRuns, ReportNeedsEnd,
                ErrorsAreFinal, StartupErrorIn, OwnErrorIsNotMasked
  <1>9. CASE GroupEnds(s)
    <2>1. CASE Turn(s, "waiting", "failing")
      BY <1>9, <2>1 DEF GroupEnds, ParentInStep, EofNeedsEnd, OwnerRuns, ReportNeedsEnd,
                  ErrorsAreFinal, StartupErrorIn, OwnErrorIsNotMasked
    <2>2. CASE Turn(s, "waiting", "exiting")
      BY <1>9, <2>2 DEF GroupEnds, ParentInStep, EofNeedsEnd, OwnerRuns, ReportNeedsEnd,
                  ErrorsAreFinal, StartupErrorIn, OwnErrorIsNotMasked
    <2> QED BY <1>9, <2>1, <2>2 DEF GroupEnds
  <1>10. CASE PrintError(s)
    <2>1. PICK what \in {"startup", "fatal"} :
              log' = Logged(s, what) /\ (what = "startup" => child[s] = "erring")
                                     /\ (what = "fatal" => child[s] = "failing")
      BY <1>10 DEF PrintError
    <2>2. /\ log' \in Seq(Lines)
          /\ Len(log') >= Len(log)
          /\ \A i \in DOMAIN log : i \in DOMAIN log' /\ log'[i] = log[i]
          /\ \A i \in DOMAIN log' \ DOMAIN log : log'[i] = [by |-> s, what |-> what] /\ forked[s]
      BY <2>1, LoggedIsLog
    <2>3. /\ child[s] \in {"erring", "failing"} /\ child' = [child EXCEPT ![s] = "exiting"]
          /\ UNCHANGED <<parent, outcome, cause, forked, pipe, writers, doomed, owner, endpoint>>
      BY <1>10 DEF PrintError
    <2>4. DetachedTypeOK'
      BY <2>3, <2>2
    <2>5. DetachedTypeOK' /\ ParentInStep' /\ EofNeedsEnd' /\ OwnerRuns' /\ ReportNeedsEnd'
      BY <2>3, <2>4 DEF ParentInStep, EofNeedsEnd, OwnerRuns, ReportNeedsEnd
    <2>6. \A t \in Starts : StartupErrorIn(t)' => StartupErrorIn(t) \/ (t = s /\ what = "startup")
      BY <2>2 DEF StartupErrorIn
    <2>7. ErrorsAreFinal'
      BY <1>10, <2>1, <2>6 DEF PrintError, ErrorsAreFinal
    <2>8. outcome[s] # "crashed"
      BY <2>1 DEF ReportNeedsEnd
    <2>9. OwnErrorIsNotMasked'
      <3>1. ASSUME NEW t \in Starts, outcome[t] = "crashed", cause[t] # 0,
                   NEW i \in DOMAIN log', log'[i].by = t, log'[i].what # "chat"
            PROVE  cause[t] >= i
        <4>1. i \in DOMAIN log
          BY <2>2, <2>8, <3>1
        <4> QED BY <2>2, <3>1, <4>1 DEF OwnErrorIsNotMasked
      <3> QED BY <2>3, <3>1 DEF OwnErrorIsNotMasked
    <2> QED BY <2>5, <2>7, <2>9
  <1>11. CASE Exit(s)
    BY <1>11 DEF Exit, Closed, Dir!Leave, ParentInStep, EofNeedsEnd, OwnerRuns, ReportNeedsEnd,
                 ErrorsAreFinal, StartupErrorIn, OwnErrorIsNotMasked
  <1>12. CASE Die(s)
    BY <1>12 DEF Die, Alive, Closed, Dir!Leave, ParentInStep, EofNeedsEnd, OwnerRuns, ReportNeedsEnd,
                 ErrorsAreFinal, StartupErrorIn, OwnErrorIsNotMasked
  <1>13. CASE Chat(s)
    <2>1. log' = Logged(s, "chat")
      BY <1>13 DEF Chat
    <2>2. /\ log' \in Seq(Lines)
          /\ Len(log') >= Len(log)
          /\ \A i \in DOMAIN log : i \in DOMAIN log' /\ log'[i] = log[i]
          /\ \A i \in DOMAIN log' \ DOMAIN log : log'[i] = [by |-> s, what |-> "chat"] /\ forked[s]
      BY <2>1, LoggedIsLog
    <2>3. DetachedTypeOK' /\ ParentInStep' /\ EofNeedsEnd' /\ OwnerRuns' /\ ReportNeedsEnd'
      BY <1>13, <2>2 DEF Chat, ParentInStep, EofNeedsEnd, OwnerRuns, ReportNeedsEnd
    <2>4. \A t \in Starts : StartupErrorIn(t)' => StartupErrorIn(t)
      BY <2>2 DEF StartupErrorIn
    <2>5. ErrorsAreFinal'
      BY <1>13, <2>4 DEF Chat, ErrorsAreFinal
    <2>6. OwnErrorIsNotMasked'
      BY <1>13, <2>2 DEF Chat, OwnErrorIsNotMasked
    <2> QED BY <2>3, <2>5, <2>6
  <1> QED BY <1>1, <1>2, <1>3, <1>4, <1>5, <1>6, <1>7, <1>8, <1>9, <1>10, <1>11, <1>12, <1>13 DEF Child

-----------------------------------------------------------------------------
(* Theorems *)

\* The inductive invariant holds in every reachable state.
THEOREM IndInvHolds == Spec => []IndInv
  <1>1. Init => IndInv
    BY InitHolds
  <1>2. IndInv /\ [Next]_vars => IndInv'
    <2> SUFFICES ASSUME IndInv, [Next]_vars PROVE IndInv'
      OBVIOUS
    <2>1. CASE Next
      BY <2>1, ParentKeeps, ChildKeeps DEF Next
    <2>2. CASE UNCHANGED vars
      BY <2>2 DEF vars, parentVars, dirVars, IndInv, DetachedTypeOK, ParentInStep, EofNeedsEnd, OwnerRuns,
                  ReportNeedsEnd, ErrorsAreFinal, StartupErrorIn, OwnErrorIsNotMasked
    <2> QED BY <2>1, <2>2
  <1> QED BY <1>1, <1>2, PTL DEF Spec

\* The variables keep their types; no forked child forks again (up.go:76-88).
THEOREM TypeCorrect == Spec => []DetachedTypeOK
  <1>1. IndInv => DetachedTypeOK
    BY DEF IndInv
  <1> QED BY <1>1, IndInvHolds, PTL

\* A start reported as crashed or timed out has left nothing behind
\* (up.go:550-562).
THEOREM FailureIsClean == Spec => []FailureLeavesNothing
  <1>1. IndInv => FailureLeavesNothing
    BY StartsAreProper
    DEF IndInv, DetachedTypeOK, OwnerRuns, ReportNeedsEnd, FailureLeavesNothing
  <1> QED BY <1>1, IndInvHolds, PTL

\* A child that fails to start is never reported as started (up.go:227-247).
THEOREM StartedIsTrue == Spec => []FailedStartIsNotStarted
  <1>1. IndInv => FailedStartIsNotStarted
    BY DEF IndInv, ErrorsAreFinal, StartupErrorIn, FailedStartIsNotStarted
  <1> QED BY <1>1, IndInvHolds, PTL

\* A crash report never prefers an older error to the child's own, however
\* much of the log the window holds (up.go:577-611).
THEOREM OwnErrorWins == Spec => []OwnErrorIsNotMasked
  <1>1. IndInv => OwnErrorIsNotMasked
    BY DEF IndInv
  <1> QED BY <1>1, IndInvHolds, PTL

-----------------------------------------------------------------------------
(* A waiting parent *)

\* The wait of a parent ends: one that waits for the child it has killed will
\* see it end, since the signal is on its way to a live process, and no other
\* wait is without a deadline (up.go:550-557).  It is what StartReturns
\* needs beside fairness.
WaitEnds ==
    \A s \in Starts : parent[s] = "reaping" => child[s] = "ended" \/ (s \in doomed /\ Alive(s))

\* A parent reaps what it has killed, and a forked child has been started.
ReapsDoomed ==
    \A s \in Starts : (parent[s] = "reaping" => s \in doomed) /\ (forked[s] => child[s] # "none")

\* No parent of a detached start waits for ever.
THEOREM NoParentHangs == Spec => []WaitEnds
  <1>1. Init => ReapsDoomed
    BY DEF Init, ReapsDoomed
  <1>2. ASSUME IndInv, ReapsDoomed, [Next]_vars
        PROVE  ReapsDoomed'
    <2> USE <1>2 DEF ReapsDoomed, parentVars
    <2>1. /\ parent \in [Starts -> ParentStates] /\ child \in [Starts -> ChildStates]
          /\ forked \in [Starts -> BOOLEAN]
      BY DEF IndInv, DetachedTypeOK
    <2>2. ASSUME NEW s \in Starts, Parent(s)
          PROVE  ReapsDoomed'
      <3> USE <2>1, <2>2 DEF GoTo, Tell
      <3>1. CASE Begin(s)
        BY <3>1 DEF Begin
      <3>2. CASE SpawnFails(s) \/ ReadPayload(s) \/ ReadEof(s) \/ Reap(s) \/ ReadFails(s) \/ ReportCrash(s)
        BY <3>2 DEF SpawnFails, ReadPayload, ReadEof, Reap, ReadFails, ReportCrash
      <3>3. CASE Spawn(s)
        BY <3>3 DEF Spawn
      <3>4. CASE CloseWriteEnd(s) \/ Timeout(s) \/ Interrupt(s)
        BY <3>4 DEF CloseWriteEnd, Timeout, Interrupt
      <3> QED BY <3>1, <3>2, <3>3, <3>4 DEF Parent, Waiting
    <2>3. ASSUME NEW s \in Starts, Child(s)
          PROVE  ReapsDoomed'
      <3>1. UNCHANGED <<parent, doomed, forked>>
        BY <2>3 DEF Child, Decide, Preflight, StartFails, Lock, ListenFails, Launch, SendReadiness,
                    IpcStops, GroupEnds, PrintError, Exit, Die, Chat
      <3>2. child' = child \/ \E to : to # "none" /\ child' = [child EXCEPT ![s] = to]
        <4>1. CASE Decide(s)
          BY <4>1 DEF Decide, Turn
        <4>2. CASE Preflight(s)
          BY <4>2 DEF Preflight, Turn
        <4>3. CASE \/ StartFails(s) \/ Lock(s) \/ ListenFails(s) \/ Launch(s) \/ SendReadiness(s)
                   \/ GroupEnds(s) \/ PrintError(s) \/ Exit(s) \/ Die(s)
          BY <4>3 DEF StartFails, Lock, ListenFails, Launch, SendReadiness, GroupEnds, PrintError, Exit,
                      Die, Turn
        <4>4. CASE IpcStops(s) \/ Chat(s)
          BY <4>4 DEF IpcStops, Chat
        <4> QED BY <2>3, <4>1, <4>2, <4>3, <4>4 DEF Child
      <3> QED BY <2>1, <3>1, <3>2
    <2>4. CASE UNCHANGED vars
      BY <2>4 DEF vars
    <2> QED BY <2>2, <2>3, <2>4 DEF Next
  <1>3. IndInv /\ ReapsDoomed => WaitEnds
    BY DEF IndInv, ParentInStep, ReapsDoomed, WaitEnds, Alive
  <1> QED BY <1>1, <1>2, <1>3, IndInvHolds, PTL DEF Spec

-----------------------------------------------------------------------------
(* The runtime directory *)

DirStep == [Dir!Next]_(Dir!vars)

LEMMA DirCases ==
    ASSUME NEW s \in Starts,
           \/ Dir!Acquire(s) \/ Dir!Publish(s) \/ Dir!Withdraw(s) \/ Dir!Leave(s)
           \/ UNCHANGED dirVars
    PROVE  DirStep
  BY DEF DirStep, Dir!Next, Dir!vars, dirVars

\* Whatever starts run together, detached or not, killed at the deadline or
\* not, the directory has one owner at a time, and only the owner answers in
\* it (ADR-003).
THEOREM StartsShareDirectory == Spec => Dir!Spec
  <1>1. Init => Dir!Init
    BY DEF Init
  <1>2. [Next]_vars => DirStep
    <2> SUFFICES ASSUME [Next]_vars PROVE DirStep
      OBVIOUS
    <2>1. ASSUME NEW s \in Starts, Parent(s)
          PROVE  DirStep
      <3>1. UNCHANGED dirVars
        BY <2>1 DEF Parent, Waiting, Begin, SpawnFails, Spawn, CloseWriteEnd, ReadPayload, ReadEof, Timeout,
                    Reap, ReportCrash, ReadFails, Interrupt
      <3> QED BY <3>1, DirCases
    <2>2. ASSUME NEW s \in Starts, Child(s)
          PROVE  DirStep
      BY <2>2, DirCases
      DEF Child, Decide, Preflight, StartFails, Lock, ListenFails, Launch, SendReadiness, IpcStops,
          GroupEnds, PrintError, Exit, Die, Chat, Closed
    <2>3. CASE UNCHANGED vars
      BY <2>3 DEF vars, DirStep, Dir!vars, dirVars
    <2> QED BY <2>1, <2>2, <2>3 DEF Next
  <1> QED BY <1>1, <1>2, PTL DEF Spec, Dir!Spec, DirStep
=============================================================================
