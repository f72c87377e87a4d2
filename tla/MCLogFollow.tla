---------------------------- MODULE MCLogFollow ----------------------------
(***************************************************************************)
(* `logs -f` on logs of a few bytes, every placement of the newlines.      *)
(***************************************************************************)
EXTENDS LogFollow
=============================================================================
