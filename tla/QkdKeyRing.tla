------------------------------ MODULE QkdKeyRing ------------------------------
(***************************************************************************)
(* QKD key ingress: the DR16 kernel with its ring of four keys, and the    *)
(* adapter that fetches a key from the key management entity (KME) and     *)
(* streams it to the tile.                                                 *)
(*                                                                         *)
(* Processes share the statics of the kernel: a fetch and a dispatch are   *)
(* two steps, and those of other processes run in between.  A key stands   *)
(* for its identifier and its bytes, which the KME keeps together.  The    *)
(* counter g_active_slot is kept modulo the size of the ring, which        *)
(* divides 2^32, and a checksum is the key it was computed of.             *)
(***************************************************************************)
EXTENDS Integers, Sequences

CONSTANTS
  Clients,    \* processes that dispatch to the tile
  Keys,       \* keys that the KME can make
  Zeros,      \* a ring slot, or a field, of zero bytes
  MaxEpoch    \* the largest epoch of a descriptor

VARIABLES
  key_store,    \* the keys that the KME has handed out: it keeps them
  fetched,      \* per client the key its adapter call has got, or Zeros
  ring,         \* g_sealed_qkd_ring
  last_epoch,   \* g_last_epoch
  active_slot,  \* g_active_slot modulo the size of the ring
  reply,        \* per client the answer to its last dispatch
  accepted      \* history: the keys accepted since the context was loaded

kernel == <<ring, last_epoch, active_slot, accepted>>
qvars == <<key_store, fetched, reply, kernel>>

RingSize == 4
RingSlots == 0 .. RingSize - 1
Epochs == 0 .. MaxEpoch
QStatuses == {"NONE", "SUCCESS", "INVALID_MAGIC", "STALE_EPOCH", "EXCEPTION"}

Reply(status, slot, crc) == [status |-> status, slot |-> slot, crc |-> crc]
Replies == [status : QStatuses, slot : RingSlots, crc : Keys \cup {Zeros}]
Envelope(epoch, key) == [epoch |-> epoch, key |-> key]

QInit ==
  /\ key_store = {}
  /\ fetched = [c \in Clients |-> Zeros]
  /\ ring = [s \in RingSlots |-> Zeros]
  /\ last_epoch = 0
  /\ active_slot = 0
  /\ reply = [c \in Clients |-> Reply("NONE", 0, Zeros)]
  /\ accepted = <<>>

-----------------------------------------------------------------------------
(* get_enc_key: the KME makes a key and remembers it.                      *)
GetEncKey(c) ==
  /\ \E k \in Keys \ key_store :
       /\ key_store' = key_store \cup {k}
       /\ fetched' = [fetched EXCEPT ![c] = k]
  /\ UNCHANGED <<reply, kernel>>

(* The answer does not come in time: the KME has the key, nobody else.     *)
EncKeyTimesOut(c) ==
  /\ \E k \in Keys \ key_store : key_store' = key_store \cup {k}
  /\ fetched' = [fetched EXCEPT ![c] = Zeros]
  /\ UNCHANGED <<reply, kernel>>

(* get_dec_key: the other end asks for a key by its identifier; for a key  *)
(* that the KME never made, the adapter raises.                            *)
GetDecKey(c) ==
  /\ \E k \in key_store : fetched' = [fetched EXCEPT ![c] = k]
  /\ UNCHANGED <<key_store, reply, kernel>>

-----------------------------------------------------------------------------
(* The kernel.  Freshness is not tested while the last epoch is 0.         *)
Stale(epoch) == epoch <= last_epoch /\ last_epoch # 0

(* One dispatch ends with an answer to the client, or raises on the way    *)
(* back; the adapter keeps the key in neither case.                        *)
Answered(c, answer) ==
  /\ \/ reply' = [reply EXCEPT ![c] = answer]
     \/ reply' = [reply EXCEPT ![c] = Reply("EXCEPTION", 0, Zeros)]
  /\ fetched' = [fetched EXCEPT ![c] = Zeros]
  /\ UNCHANGED key_store

(* The key goes into the next slot; the answer names the slot after it.    *)
IngressAccepted(c, epoch) ==
  /\ fetched[c] # Zeros
  /\ ~Stale(epoch)
  /\ ring' = [ring EXCEPT ![active_slot] = fetched[c]]
  /\ last_epoch' = epoch
  /\ active_slot' = (active_slot + 1) % RingSize
  /\ accepted' = Append(accepted, Envelope(epoch, fetched[c]))
  /\ Answered(c, Reply("SUCCESS", active_slot', fetched[c]))

IngressStale(c, epoch) ==
  /\ fetched[c] # Zeros
  /\ Stale(epoch)
  /\ Answered(c, Reply("STALE_EPOCH", 0, Zeros))
  /\ UNCHANGED kernel

(* A descriptor of another make, with any key.                             *)
IngressForeign(c) ==
  /\ Answered(c, Reply("INVALID_MAGIC", 0, Zeros))
  /\ UNCHANGED kernel

(* The dispatch raises before the kernel has run.                          *)
IngressRaises(c) ==
  /\ Answered(c, Reply("EXCEPTION", 0, Zeros))
  /\ UNCHANGED kernel

(* The hardware context is loaded anew, with its statics.                  *)
QReload ==
  /\ ring' = [s \in RingSlots |-> Zeros]
  /\ last_epoch' = 0
  /\ active_slot' = 0
  /\ accepted' = <<>>
  /\ UNCHANGED <<key_store, fetched, reply>>

QNext ==
  \/ QReload
  \/ \E c \in Clients :
       \/ GetEncKey(c) \/ EncKeyTimesOut(c) \/ GetDecKey(c)
       \/ IngressForeign(c) \/ IngressRaises(c)
       \/ \E epoch \in Epochs : IngressAccepted(c, epoch) \/ IngressStale(c, epoch)

QSpec == QInit /\ [][QNext]_qvars

-----------------------------------------------------------------------------
(* Every variable has its type.                                            *)
QTypeOK ==
  /\ key_store \subseteq Keys
  /\ fetched \in [Clients -> Keys \cup {Zeros}]
  /\ ring \in [RingSlots -> Keys \cup {Zeros}]
  /\ last_epoch \in Epochs \cup {0}
  /\ active_slot \in RingSlots
  /\ reply \in [Clients -> Replies]
  /\ accepted \in Seq([epoch : Epochs, key : Keys])

(* The ring has the last four keys that were accepted since the context    *)
(* was loaded, each in its turn, and zeros where there were fewer: a       *)
(* refused key leaves no trace, and a failed answer loses none.            *)
RingHoldsTheLast ==
  /\ \A i \in 1 .. Len(accepted) :
       Len(accepted) - i < RingSize => ring[(i - 1) % RingSize] = accepted[i].key
  /\ \A s \in RingSlots : s >= Len(accepted) => ring[s] = Zeros

(* In one context the epochs of accepted keys go up, so a positive epoch   *)
(* is accepted once; only epoch 0 is accepted again, until the first       *)
(* positive one.                                                           *)
EpochsGoUp ==
  \A i, j \in 1 .. Len(accepted) : i < j =>
    \/ accepted[i].epoch < accepted[j].epoch
    \/ accepted[i].epoch = 0 /\ accepted[j].epoch = 0
=============================================================================
