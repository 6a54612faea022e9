---- MODULE MCVpnStore ----
(***************************************************************************)
(* Two servers, so that a choice can change under a connection; the events *)
(* of the cfg are enough for a chain, a call that overtakes it and a       *)
(* deletion.                                                               *)
(***************************************************************************)
EXTENDS VpnStore

CONSTANTS s1, s2
MCServers == {s1, s2}
====
