------------------------- MODULE MCSessionLifecycle -------------------------
(* Instances of SessionLifecycle for TLC. *)
EXTENDS SessionLifecycle, TLC

CONSTANTS a1, a2

TwoAttempts == {a1, a2}

AllCommands == {"proxy", "tun", "disconnect", "quit", "apply", "recover", "poll"}


=============================================================================
