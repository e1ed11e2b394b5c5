---------------------------- MODULE MCPublicGate ----------------------------
(* PublicGate for TLC: two public hosts, one loopback and one other host.    *)
EXTENDS PublicGate, TLC

CONSTANTS g1, g2, pub1, pub2, local, other, r1, r2, m1, m2, n1, n2

Symmetry == Permutations({g1, g2}) \cup Permutations({pub1, pub2})
            \cup Permutations({r1, r2}) \cup Permutations({m1, m2})
            \cup Permutations({n1, n2})
=============================================================================
