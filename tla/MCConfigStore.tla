--------------------------- MODULE MCConfigStore ---------------------------
(* Instances of ConfigStore for TLC.                                         *)
EXTENDS ConfigStore, TLC

CONSTANTS i1, i2, u1, u2, s1, s2

OneAccount == {u1}
NoAccounts == {}

Symmetry == Permutations(Sessions) \cup Permutations(Ids)
=============================================================================
