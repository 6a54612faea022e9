---- MODULE MCHelperPipe ----
(***************************************************************************)
(* Three calls on three instances: two workers can be busy or silent while *)
(* the third call waits, and a disable can follow an enable or overtake it. *)
(***************************************************************************)
EXTENDS HelperPipe, TLC

CONSTANTS c1, c2, c3

MCClients == {c1, c2, c3}
MCKind == c1 :> "enable" @@ c2 :> "disable" @@ c3 :> "ping"
====
