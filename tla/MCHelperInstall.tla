--------------------------- MODULE MCHelperInstall ---------------------------
(* Instances of HelperInstall for TLC.                                     *)
EXTENDS HelperInstall

CONSTANTS alice, bob

MCBoth == {alice, bob}
MCPayload == {"mihomo"}
MCAllOps == {"install", "uninstall"}

=============================================================================
