----------------------------- MODULE MCQkmsVault -----------------------------
(* Small instance of QkmsVault: a bank of two slots, so that a derivation  *)
(* can have equal sources, distinct sources and a source as its target.    *)
EXTENDS QkmsVault

CONSTANTS k1, k2
=============================================================================
