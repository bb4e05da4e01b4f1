---------------------------- MODULE MCTileGraphs -----------------------------
(* Small instance of TileGraphs with every graph of the two tables: a sound*)
(* request and one that stages give up on, early or late along the chain;  *)
(* aligned builds and builds with one unaligned buffer.  Equal records of  *)
(* the table are one graph.                                                *)
EXTENDS TileGraphs, ServiceTable, Functions

CONSTANTS sound, bad

MCGraphs ==
  {M33, Dr1, Dr2, Dr2b, Dr2c, Dr2d, Dr3, Dr4, Dr5, Dr6, Dr7, Probe, Tap,
   Kem768Keygen, Kem768Encaps, Kem768Decaps, Kem1024Keygen, Kem1024Encaps,
   Kem1024Decaps, Dr9, Dr10, Dr11, Dr12, Dr13, Dr14Keygen, Dr14Sign,
   Dr14Verify, Dr15Keygen, Dr15Sign, Dr15Verify, Dr16, Dr17, Dr18, Dr19, Dr27,
   Dr21Keygen, Dr21Sign, Dr21Verify, Dr22Keygen, Dr22Sign, Dr22Verify,
   Dr24Combine, Dr24Encaps, Dr24Decaps, Dr24Rekey, Dr25, Dr26, Dr28, Dr29,
   Dr30, Dr31, Dr33, Dr34, Dr34VerifyQuote, Dr37, Dr38, Dr39, Dr40, Dr41,
   Dr42}
MCFailing == {bad} \X {1, 2, 4, 5}
MCBuilds == {{}, {1}, {5}, {6}, {7}}

(* A decapsulation whose host compares the identifier.                     *)
MCDecaps == {Dr7}

(* Chains of at most Short stages are run with as many left tokens as      *)
(* their buffers hold, the longer ones with at most MaxOnTiles tokens.     *)
CONSTANTS Short, MaxOnTiles
TokensOnTiles == FoldFunction(LAMBDA tokens, n : Len(tokens) + n, 0, fifo)
FewOnTiles == Last <= Short \/ TokensOnTiles <= MaxOnTiles
=============================================================================
