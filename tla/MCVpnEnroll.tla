---------------------------- MODULE MCVpnEnroll ----------------------------
(* Instances of VpnEnroll for TLC.  Agent ids, keys and leases are           *)
(* interchangeable.                                                          *)
EXTENDS VpnEnroll, TLC

CONSTANTS a1, a2, a3, k1, k2, k3, l1, l2, l3

Symmetry == Permutations(Agents) \cup Permutations(Keys) \cup Permutations(Leases)
=============================================================================
