-------------------------- MODULE MCProviderSeeding --------------------------
(* Small instance of ProviderSeeding: a ring of two slots that is drained  *)
(* and refilled around the calls of two clients.                           *)
EXTENDS ProviderSeeding, TLC

(* A container of 64 bytes that passes the preflight.                      *)
MCShapes == {[len |-> 64, rct |-> 2, apt |-> 9]}

Symmetry == Permutations(Clients) \cup Permutations(Blocks)
=============================================================================
