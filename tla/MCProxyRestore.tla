--------------------------- MODULE MCProxyRestore ---------------------------
(* Instances of ProxyRestore for TLC.                                      *)
EXTENDS ProxyRestore

CONSTANTS a1, a2

MCAttempts == {a1, a2}

\* A disabled proxy, and a corporate one that is in use.
MCOriginals == {[enable |-> 0, server |-> [form |-> "direct", port |-> "-"],
                 override |-> "original"],
                [enable |-> 1, server |-> [form |-> "corporate", port |-> "-"],
                 override |-> "original"]}

=============================================================================
