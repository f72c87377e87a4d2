------------------------- MODULE MCDaemonLifecycle -------------------------
(***************************************************************************)
(* Small instances of DaemonLifecycle for TLC.                             *)
(***************************************************************************)
EXTENDS DaemonLifecycle, TLC

CONSTANTS d1, d2, c1, c2, dnsA, dnsB, web, alt

MCAddrs == {dnsA, dnsB, web, alt}

\* Both daemons run from one configuration file ...
SameDns == [d \in Daemons |-> dnsA]
\* ... or each from its own, with a DNS address of its own.
OwnDns == [d \in Daemons |-> IF d = d1 THEN dnsA ELSE dnsB]

SameProxy == [d \in Daemons |-> web]
=============================================================================
