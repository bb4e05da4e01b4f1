------------------------ MODULE SealedLifecycleProofs ------------------------
(***************************************************************************)
(* Proofs about SealedLifecycle, for every set of domains, epochs and keys.*)
(* The inductive invariant is the conjunction of the type invariant, of    *)
(* the fail-closed invariant and of the binding of the key.                *)
(***************************************************************************)
EXTENDS SealedLifecycle, TLAPS

SealedInv == STypeOK /\ InactiveIsWiped /\ KeyBound

(* The empty slot that a reload, a teardown or a failure leaves satisfies  *)
(* the invariant, whatever the answer and the descriptor were.             *)
LEMMA EmptyInv ==
  ASSUME slot' = EmptySlot,
         result' \in [status : Results, active : {FALSE}],
         floor' \in Epochs \cup {0},
         voucher' \in Contents \cup SessionKeys \cup {Garbled}
  PROVE  SealedInv'
BY DEF SealedInv, STypeOK, InactiveIsWiped, KeyBound, EmptySlot

(* A conditioned key satisfies the invariant: it is no envelope content,   *)
(* so it vouches for itself.                                               *)
LEMMA RawIngressInv ==
  ASSUME NEW domain \in Domains, NEW epoch \in Epochs,
         RawIngress(domain, epoch)
  PROVE  SealedInv'
<1>1. PICK key \in Keys :
        /\ slot' = Filled(domain, epoch, Conditioned(key, domain, epoch))
        /\ voucher' = Conditioned(key, domain, epoch)
        /\ Done("OK", epoch)
  BY DEF RawIngress
<1>2. Conditioned(key, domain, epoch) \in SessionKeys
  BY DEF Conditioned, SessionKeys
<1>3. Conditioned(key, domain, epoch) \notin Contents
  BY DEF Conditioned, Contents
<1>4. epoch >= epoch
  BY EpochsAssumption
<1>5. STypeOK'
  BY <1>1, <1>2 DEF STypeOK, Filled, Done, Results
<1>6. InactiveIsWiped'
  BY <1>1 DEF InactiveIsWiped, Filled, Done
<1>7. KeyBound'
  BY <1>1, <1>2, <1>3, <1>4, GarbledAssumption DEF KeyBound, Filled, Done, Conditioned
<1>. QED
  BY <1>5, <1>6, <1>7 DEF SealedInv

(* An external key is let in only with the tag of its own content and not  *)
(* behind the descriptor, or the slot is wiped.                            *)
LEMMA QkdIngressInv ==
  ASSUME SealedInv, NEW domain \in Domains, NEW epoch \in Epochs,
         QkdIngress(domain, epoch)
  PROVE  SealedInv'
<1>1. PICK e \in Envelopes :
        \/ \E status \in Results : status # "OK" /\ Fail(status, epoch)
        \/ /\ e.content.domain = domain
           /\ ~IsStale(e.content.epoch, epoch)
           /\ Authentic(e)
           /\ slot' = Installed(e.content, epoch)
           /\ voucher' = e.tag
           /\ Done("OK", epoch)
  BY DEF QkdIngress, Results
<1>2. CASE \E status \in Results : status # "OK" /\ Fail(status, epoch)
  <2>1. PICK status \in Results : Fail(status, epoch)
    BY <1>2
  <2>2. slot' = EmptySlot
    BY <2>1 DEF Fail, WipedSlot
  <2>3. result' \in [status : Results, active : {FALSE}] /\ floor' \in Epochs \cup {0}
    BY <2>1, <2>2 DEF Fail, Done, EmptySlot
  <2>4. voucher' \in Contents \cup SessionKeys \cup {Garbled}
    BY <2>1 DEF Fail, SealedInv, STypeOK
  <2>. QED
    BY <2>2, <2>3, <2>4, EmptyInv
<1>3. CASE /\ e.content.domain = domain
           /\ ~IsStale(e.content.epoch, epoch)
           /\ Authentic(e)
           /\ slot' = Installed(e.content, epoch)
           /\ voucher' = e.tag
           /\ Done("OK", epoch)
  <2>1. e.content \in Contents /\ e.tag = e.content
    BY <1>3 DEF Envelopes, Authentic
  <2>2. /\ e.content.epoch \in Epochs
        /\ e.content.domain \in Domains
        /\ e.content.key \in Keys
    BY <2>1 DEF Contents
  <2>3. e.content.epoch >= epoch
    <3>1. e.content.epoch \in Nat /\ epoch \in Nat
      BY <2>2, EpochsAssumption
    <3>2. ~(e.content.epoch < epoch)
      BY <1>3 DEF IsStale
    <3>. QED
      BY <3>1, <3>2
  <2>4. STypeOK'
    BY <1>3, <2>1, <2>2 DEF STypeOK, Installed, Filled, Done, Results
  <2>5. InactiveIsWiped'
    BY <1>3 DEF InactiveIsWiped, Installed, Filled, Done
  <2>6. KeyBound'
    BY <1>3, <2>1, <2>3, GarbledAssumption DEF KeyBound, Installed, Filled, Done
  <2>. QED
    BY <2>4, <2>5, <2>6 DEF SealedInv
<1>. QED
  BY <1>1, <1>2, <1>3

(* Every step preserves the invariant.                                     *)
LEMMA StepInv == SealedInv /\ [SNext]_svars => SealedInv'
<1>. SUFFICES ASSUME SealedInv, [SNext]_svars PROVE SealedInv'
  OBVIOUS
<1>1. ASSUME NEW domain \in Domains, NEW epoch \in Epochs, Teardown(epoch)
      PROVE SealedInv'
  <2>1. slot' = EmptySlot /\ voucher' = voucher
    BY <1>1 DEF Teardown
  <2>2. result' \in [status : Results, active : {FALSE}] /\ floor' \in Epochs \cup {0}
    BY <1>1, <2>1 DEF Teardown, Done, EmptySlot, Results
  <2>. QED
    BY <2>1, <2>2, EmptyInv DEF SealedInv, STypeOK
<1>2. ASSUME NEW domain \in Domains, NEW epoch \in Epochs, OtherMode(epoch)
      PROVE SealedInv'
  <2>1. slot' = EmptySlot /\ voucher' = voucher
    BY <1>2 DEF OtherMode, Fail, WipedSlot
  <2>2. result' \in [status : Results, active : {FALSE}] /\ floor' \in Epochs \cup {0}
    BY <1>2, <2>1 DEF OtherMode, Fail, Done, EmptySlot, Results
  <2>. QED
    BY <2>1, <2>2, EmptyInv DEF SealedInv, STypeOK
<1>3. CASE SReload
  BY <1>3 DEF SReload, SealedInv, STypeOK, InactiveIsWiped, KeyBound, EmptySlot
<1>4. CASE UNCHANGED svars
  BY <1>4 DEF svars, SealedInv, STypeOK, InactiveIsWiped, KeyBound
<1>. QED
  BY <1>1, <1>2, <1>3, <1>4, RawIngressInv, QkdIngressInv DEF SNext, Request

(* The invariant holds in every reachable state.                           *)
THEOREM SealedInvariance == SSpec => []SealedInv
<1>1. SInit => SealedInv
  BY DEF SInit, SealedInv, STypeOK, InactiveIsWiped, KeyBound, EmptySlot, Results
<1>. QED
  BY <1>1, StepInv, PTL DEF SSpec

(* Types for every instance: the slot, the descriptor's epoch and the       *)
(* digest behind the key stay in the sets DR10's code keeps them in.       *)
THEOREM SealedTypes == SSpec => []STypeOK
<1>1. SealedInv => STypeOK
  BY DEF SealedInv
<1>. QED
  BY <1>1, SealedInvariance, PTL

(* Fail-closed for every instance: an inactive slot keeps nothing.         *)
THEOREM FailClosed == SSpec => []InactiveIsWiped
<1>1. SealedInv => InactiveIsWiped
  BY DEF SealedInv
<1>. QED
  BY <1>1, SealedInvariance, PTL

(* Separation for every instance: the slot reports the domain and epoch    *)
(* its key is bound to.                                                    *)
THEOREM DomainSeparation == SSpec => []KeyBound
<1>1. SealedInv => KeyBound
  BY DEF SealedInv
<1>. QED
  BY <1>1, SealedInvariance, PTL
=============================================================================
