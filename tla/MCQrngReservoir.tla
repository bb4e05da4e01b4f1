--------------------------- MODULE MCQrngReservoir ---------------------------
(* Small instance of QrngReservoir.                                        *)
EXTENDS QrngReservoir, TLC

(* An empty answer, a short block, a full block that is healthy, one that  *)
(* fails each test at its cutoff, one just below both, one too long for    *)
(* the descriptor's length field.                                          *)
MCShapes ==
  {[len |-> 0, rct |-> 1, apt |-> 1], [len |-> 31, rct |-> 1, apt |-> 1],
   [len |-> 32, rct |-> 9, apt |-> 176], [len |-> 32, rct |-> 10, apt |-> 10],
   [len |-> 512, rct |-> 1, apt |-> 177], [len |-> 65536, rct |-> 1, apt |-> 1]}

Symmetry == Permutations(Clients) \cup Permutations(Blocks)
=============================================================================
