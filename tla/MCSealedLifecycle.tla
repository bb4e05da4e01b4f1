-------------------------- MODULE MCSealedLifecycle --------------------------
(* Small instance of SealedLifecycle: epochs below, at and above each      *)
(* other, two domains, two keys.                                           *)
EXTENDS SealedLifecycle, TLC

Symmetry == Permutations(Keys)
=============================================================================
