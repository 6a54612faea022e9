--------------------------- MODULE MCHelperBroker ---------------------------
(* Model-checking instance of HelperBroker.                                *)
EXTENDS HelperBroker, TLC

CONSTANTS s1, s2, i1, i2

MCSessions  == {s1, s2}
MCInstances == {i1, i2}

\* Safety only: sessions and instances are interchangeable.
Symmetry == Permutations(MCSessions) \cup Permutations(MCInstances)
=============================================================================
