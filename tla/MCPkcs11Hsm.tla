----------------------------- MODULE MCPkcs11Hsm -----------------------------
(* Small instance of Pkcs11Hsm: two sessions, two token objects.           *)
EXTENDS Pkcs11Hsm, TLC

Symmetry == Permutations(SessionIds) \cup Permutations(Threads)
=============================================================================
