--------------------------- MODULE SingleInstance ---------------------------
(***************************************************************************)
(* What the instance lock of DevTether promises, without saying how: at    *)
(* any time at most one daemon owns the runtime directory, only the owner  *)
(* publishes the control endpoint that `status`, `routes` and `down` talk  *)
(* to, and a new owner comes in only when the endpoint of the previous one *)
(* is gone.  ADR-003 states the promise; internal/daemon keeps it with a   *)
(* flock, a PID file, a nonce file and a Unix socket.                      *)
(***************************************************************************)
CONSTANTS
    Daemons,   \* the processes that may own the directory
    None       \* no daemon, not a member of Daemons

VARIABLES
    owner,     \* the daemon that owns the runtime directory, or None
    endpoint   \* the daemon that answers at the socket path, or None

vars == <<owner, endpoint>>

Init == owner = None /\ endpoint = None

\* A daemon becomes the owner: nobody owns, nobody answers.
Acquire(d) ==
    /\ owner = None
    /\ endpoint = None
    /\ owner' = d
    /\ UNCHANGED endpoint

\* The owner, and no other daemon, publishes its endpoint.
Publish(d) ==
    /\ owner = d
    /\ endpoint = None
    /\ endpoint' = d
    /\ UNCHANGED owner

\* The endpoint disappears while its daemon still owns the directory.
Withdraw(d) ==
    /\ owner = d
    /\ endpoint = d
    /\ endpoint' = None
    /\ UNCHANGED owner

\* The owner leaves: an orderly release after Withdraw, or a crash that
\* takes the endpoint down with the ownership.
Leave(d) ==
    /\ owner = d
    /\ owner' = None
    /\ endpoint' = None

Next == \E d \in Daemons : Acquire(d) \/ Publish(d) \/ Withdraw(d) \/ Leave(d)

Spec == Init /\ [][Next]_vars
=============================================================================
