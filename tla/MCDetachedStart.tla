--------------------------- MODULE MCDetachedStart ---------------------------
(***************************************************************************)
(* Two invocations of `up` that share a configuration and its log; the     *)
(* last 4096 bytes of the log hold two lines.                              *)
(***************************************************************************)
EXTENDS DetachedStart

CONSTANTS s1, s2
=============================================================================
