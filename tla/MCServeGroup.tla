---------------------------- MODULE MCServeGroup ----------------------------
(***************************************************************************)
(* One serving process with all four workers and up to two signals.        *)
(***************************************************************************)
EXTENDS ServeGroup

AllWorkers == {"dns", "ipc", "proxy", "health"}
=============================================================================
