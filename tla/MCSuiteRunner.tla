---------------------------- MODULE MCSuiteRunner -----------------------------
(***************************************************************************)
(* Two gates of two cases.  The children may claim all cases passed, one   *)
(* of them failed, skipped or xfailed, one too few or one too many, and    *)
(* have two complete records of earlier executions at hand, of which one   *)
(* is recent enough for the tolerance of the timestamps.                   *)
(***************************************************************************)
EXTENDS SuiteRunner

CONSTANTS g1, g2

MCGates == <<g1, g2>>

Claim(passed, failed, skipped, xfailed) ==
  [passed |-> passed, failed |-> failed, skipped |-> skipped, xfailed |-> xfailed]

MCClaims ==
  {Claim(2, 0, 0, 0), Claim(1, 1, 0, 0), Claim(1, 0, 1, 0),
   Claim(1, 0, 0, 1), Claim(1, 0, 0, 0), Claim(3, 0, 0, 0)}

MCArchive ==
  [gate : {g1}, nonce : {0}, source : {0}, recent : BOOLEAN,
   claims : {Claim(2, 0, 0, 0)}]
=============================================================================
