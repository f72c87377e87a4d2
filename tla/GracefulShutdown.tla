-------------------------- MODULE GracefulShutdown --------------------------
(***************************************************************************)
(* What a serving `devtether up` process promises about its end, without   *)
(* saying how: it serves with all its workers until one event begins the   *)
(* shutdown of all, it ends in order only when no worker is left, and it   *)
(* is cut off only after a shutdown has begun.  internal/cli/up.go keeps   *)
(* the promise with an errgroup, a token channel and two signal channels.  *)
(***************************************************************************)
CONSTANT Workers   \* the servers, and the health check

VARIABLES
    phase,     \* "serving", then "exited" in order or "forced" by a signal or the watchdog
    stopping,  \* the shutdown has begun
    working    \* the workers that have not returned

vars == <<phase, stopping, working>>

Init == phase = "serving" /\ stopping = FALSE /\ working = Workers

\* An interrupt, a /shutdown request or an error begins the shutdown.
Begin ==
    /\ phase = "serving"
    /\ ~stopping
    /\ stopping' = TRUE
    /\ UNCHANGED <<phase, working>>

\* A worker returns: the shutdown has told it to, or its own failure begins the
\* shutdown of the others with it.
Return(w) ==
    /\ phase = "serving"
    /\ w \in working
    /\ working' = working \ {w}
    /\ stopping' = TRUE
    /\ UNCHANGED phase

\* The process exits when the last worker has returned.
Exit ==
    /\ phase = "serving"
    /\ working = {}
    /\ phase' = "exited"
    /\ UNCHANGED <<stopping, working>>

\* A second interrupt or the watchdog cuts a shutdown off.
Force ==
    /\ phase = "serving"
    /\ stopping
    /\ phase' = "forced"
    /\ UNCHANGED <<stopping, working>>

Next == Begin \/ (\E w \in Workers : Return(w)) \/ Exit \/ Force

Spec == Init /\ [][Next]_vars
=============================================================================
