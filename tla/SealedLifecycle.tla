--------------------------- MODULE SealedLifecycle ---------------------------
(***************************************************************************)
(* The DR10 sealed lifecycle service: one session slot, static in tile     *)
(* memory, that hosts fill with a conditioned raw key (source mode 0) or   *)
(* with an authenticated external key (mode 2) and tear down (mode 3).     *)
(* Any failed request wipes the slot, whoever filled it.                   *)
(*                                                                         *)
(* A request of mode 2 is an envelope: a header with an epoch and a        *)
(* domain, 64 bytes of key, and a tag.  Sources issue envelopes whose tag  *)
(* is the SHA3-256 of the rest; what reaches the tile may carry the tag of *)
(* another content (Garbled where it is the tag of nothing).  SHA3-256 is  *)
(* taken to be collision free, so a digest is the record of its inputs.    *)
(***************************************************************************)
EXTENDS Integers

CONSTANTS
  Domains,    \* domain_id values of the descriptors
  Epochs,     \* epochs that hosts and sources use
  Keys,       \* 64-byte keys and entropy inputs
  NoKey,      \* 64 zero bytes
  Garbled     \* a tag that is the digest of no envelope

ASSUME EpochsAssumption == Epochs \subseteq Nat
ASSUME KeysAssumption == NoKey \notin Keys

VARIABLES
  slot,       \* g_sealed_slot
  result,     \* status and active flag of the last request
  floor,      \* the epoch field of the last descriptor
  voucher     \* history: the digest computed over what the slot was filled with

svars == <<slot, result, floor, voucher>>

Contents == [epoch : Epochs, domain : Domains, key : Keys]
Envelopes == [magic : BOOLEAN, content : Contents, tag : Contents \cup {Garbled}]

(* SHA3-256 of the 64-byte input, the domain and the epoch.                *)
Conditioned(key, domain, epoch) == [input |-> key, domain |-> domain, epoch |-> epoch]
SessionKeys == [input : Keys, domain : Domains, epoch : Epochs]

ASSUME GarbledAssumption == Garbled \notin Contents \cup SessionKeys

EmptySlot == [active |-> FALSE, domain |-> 0, epoch |-> 0, key |-> NoKey]
(* A fault: the slot is filled with the next epoch it expects.             *)
FilledNextEpoch(domain, epoch, key) ==
  [active |-> TRUE, domain |-> domain, epoch |-> epoch + 1, key |-> key]
Filled(domain, epoch, key) ==
  [active |-> TRUE, domain |-> domain, epoch |-> epoch, key |-> key]

SInit ==
  /\ slot = EmptySlot
  /\ result = [status |-> "NONE", active |-> FALSE]
  /\ floor = 0
  /\ voucher = Garbled

-----------------------------------------------------------------------------
(* A fault: the tag is read and not compared.                              *)
AuthenticAlways(e) == TRUE
(* A fault: the failure path clears the flag and forgets the key.          *)
WipedFlagOnly(s) == [s EXCEPT !.active = FALSE]

IsStale(reqEpoch, epoch) == reqEpoch < epoch
Authentic(e) == e.tag = e.content
Installed(content, epoch) == Filled(content.domain, content.epoch, content.key)
WipedSlot(s) == EmptySlot

Done(status, epoch) ==
  /\ result' = [status |-> status, active |-> slot'.active]
  /\ floor' = epoch

(* Fail-closed zeroization on any failure.                                 *)
Fail(status, epoch) ==
  /\ slot' = WipedSlot(slot)
  /\ UNCHANGED voucher
  /\ Done(status, epoch)

(* Mode 0: the key is conditioned with the domain and epoch of the         *)
(* descriptor; whatever the slot held is overwritten.                      *)
RawIngress(domain, epoch) ==
  \E key \in Keys :
    /\ slot' = Filled(domain, epoch, Conditioned(key, domain, epoch))
    /\ voucher' = Conditioned(key, domain, epoch)
    /\ Done("OK", epoch)

(* Mode 2: magic, domain, epoch and tag are tested in this order.          *)
QkdIngress(domain, epoch) ==
  \E e \in Envelopes :
    \/ /\ ~e.magic
       /\ Fail("BAD_DESCRIPTOR", epoch)
    \/ /\ e.magic
       /\ e.content.domain # domain
       /\ Fail("DOMAIN_MISMATCH", epoch)
    \/ /\ e.magic
       /\ e.content.domain = domain
       /\ IsStale(e.content.epoch, epoch)
       /\ Fail("EPOCH_STALE", epoch)
    \/ /\ e.magic
       /\ e.content.domain = domain
       /\ ~IsStale(e.content.epoch, epoch)
       /\ ~Authentic(e)
       /\ Fail("BAD_AUTH_TAG", epoch)
    \/ /\ e.magic
       /\ e.content.domain = domain
       /\ ~IsStale(e.content.epoch, epoch)
       /\ Authentic(e)
       /\ slot' = Installed(e.content, epoch)
       /\ voucher' = e.tag
       /\ Done("OK", epoch)

(* Mode 3: teardown, with any descriptor and any number of times.          *)
Teardown(epoch) ==
  /\ slot' = EmptySlot
  /\ UNCHANGED voucher
  /\ Done("OK", epoch)

(* Mode 1 (NPU_DRBG) is announced by the ABI and not served; nor is any    *)
(* other mode.                                                             *)
OtherMode(epoch) == Fail("BAD_DESCRIPTOR", epoch)

(* The hardware context is reloaded: the static slot starts anew.          *)
SReload ==
  /\ slot' = EmptySlot
  /\ UNCHANGED <<result, floor, voucher>>

Request ==
  \E domain \in Domains, epoch \in Epochs :
    \/ RawIngress(domain, epoch)
    \/ QkdIngress(domain, epoch)
    \/ Teardown(epoch)
    \/ OtherMode(epoch)

SNext == Request \/ SReload

SSpec == SInit /\ [][SNext]_svars

-----------------------------------------------------------------------------
Results == {"NONE", "OK", "BAD_DESCRIPTOR", "BAD_AUTH_TAG", "DOMAIN_MISMATCH", "EPOCH_STALE"}

(* Every variable has its type: the slot holds zeros, or a key with a      *)
(* domain and an epoch that some host or source named.                     *)
STypeOK ==
  /\ slot \in [active : BOOLEAN, domain : Domains \cup {0}, epoch : Epochs \cup {0},
               key : Keys \cup SessionKeys \cup {NoKey}]
  /\ result \in [status : Results, active : BOOLEAN]
  /\ floor \in Epochs \cup {0}
  /\ voucher \in Contents \cup SessionKeys \cup {Garbled}

(* Fail-closed: a slot that is not active keeps no key, domain or epoch of *)
(* an earlier session, and after a failed request it is not active.        *)
InactiveIsWiped ==
  /\ ~slot.active => slot = EmptySlot
  /\ result.status \notin {"OK", "NONE"} => ~slot.active

(* Domain and epoch separation: the domain and the epoch that the slot     *)
(* reports are those under the digest that vouches for its key, and no     *)
(* request that asked for a later epoch has come since.                    *)
KeyBound ==
  slot.active =>
    /\ voucher # Garbled
    /\ slot.domain = voucher.domain
    /\ slot.epoch = voucher.epoch
    /\ slot.epoch >= floor
    /\ slot.key = IF voucher \in Contents THEN voucher.key ELSE voucher

(* The documented freshness: the epoch counter is monotonic, so an         *)
(* external key never takes the place of a session of a later epoch.       *)
EpochMonotonic ==
  [][slot.active /\ slot'.active /\ slot'.key \in Keys => slot'.epoch >= slot.epoch]_svars
=============================================================================
