-------------------------- MODULE HsmOverSealedSlot --------------------------
(***************************************************************************)
(* The PKCS#11 token of DR23 beside the sealed slot of DR10 on the same    *)
(* device.  Hosts seal keys in the slot through run_dr10_service; zeroize  *)
(* of the token is meant to reach the slot as well.  It calls              *)
(* zeroize_core.execute_dr10_zeroize_on_silicon, which the module          *)
(* dr10_sealed_lifecycle_graph does not define: the AttributeError is      *)
(* swallowed and the slot stays as it is.                                  *)
(***************************************************************************)
EXTENDS Pkcs11Hsm, SealedLifecycle

cvars == <<hvars, svars>>

(* The last statement of zeroize.                                          *)
ZeroizeOnSilicon == UNCHANGED svars

CInit == HInit /\ SInit

(* A call on the token; the ones that zeroize it end in ZeroizeOnSilicon,  *)
(* the others do not touch the slot.                                       *)
TokenCall ==
  /\ HNext
  /\ ZeroizeOnSilicon

(* A host uses the sealed slot.                                            *)
SlotRequest ==
  /\ SNext
  /\ UNCHANGED hvars

CNext == TokenCall \/ SlotRequest

CSpec == CInit /\ [][CNext]_cvars

-----------------------------------------------------------------------------
SessionCloses == \E s \in sessions : s \notin sessions'

UserLogsOut ==
  /\ Initialized
  /\ Now.user # "NONE"
  /\ token'[current].user = "NONE"

(* The documented zeroization: closing a session or logging out zeroizes   *)
(* the DR10 hardware registers, so no sealed key is left in the slot.      *)
CloseWipesSealedSlot ==
  [][SessionCloses \/ UserLogsOut => slot' = EmptySlot]_cvars
=============================================================================
