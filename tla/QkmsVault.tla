------------------------------ MODULE QkmsVault ------------------------------
(***************************************************************************)
(* The DR41 key vault: a bank of slots with keys in the lifecycle states   *)
(* of NIST SP 800-57, and five operations on it.                           *)
(*                                                                         *)
(* The vault is implemented twice.  The kernel works on a copy of the bank *)
(* that comes in with each request, answers and forgets it: its result has *)
(* no room for a bank.  The host keeps the bank that its reference oracle  *)
(* computes, and compares the two answers.                                 *)
(*                                                                         *)
(* A key stands for its identifier and its material.  It is named by the   *)
(* stored keys it was derived from: zeros by none, a stored key by itself. *)
(* The checksum of a slot is taken to be collision free: it is the set of  *)
(* the slot, and empty where the code writes 0.                            *)
(***************************************************************************)
EXTENDS Integers

CONSTANTS
  NumSlots,   \* NUM_VAULT_SLOTS
  AllSlots,   \* the slot_id 0xFF that zeroizes the whole bank
  Keys,       \* keys that hosts store
  Epochs      \* epochs of the descriptors

ASSUME VaultAssumption ==
  /\ NumSlots \in Nat \ {0}
  /\ AllSlots \in Nat /\ AllSlots > NumSlots
  /\ 1 \in Epochs

VARIABLES
  bank,      \* active_vault, the host's bank
  answer,    \* the kernel's result of the last request
  expected   \* the oracle's

vvars == <<bank, answer, expected>>

Slots == 0 .. NumSlots - 1
Beyond == NumSlots
SlotIds == Slots \cup {Beyond, AllSlots}
States == {"EMPTY", "PRE_ACTIVE", "ACTIVE", "DEACTIVATED", "COMPROMISED", "DESTROYED"}
Ops == {"STORE", "DERIVE", "TRANSITION", "ZEROIZE", "QUERY"}
Types == {"none", "QKD", "DERIVED_SESSION"}
Statuses ==
  {"SUCCESS", "INVALID_MAGIC", "INVALID_SLOT", "ILLEGAL_TRANSITION", "SLOT_EXPIRED",
   "UNSUPPORTED_OP", "KEY_COMPROMISED"}

Zeros == {}
VaultSlots ==
  [state : States, type : Types, key : SUBSET Keys, epoch : Epochs \cup {0}]
EmptySlot == [state |-> "EMPTY", type |-> "none", key |-> Zeros, epoch |-> 0]

(* A descriptor with the payload of its request; what an operation does    *)
(* not use has its default.                                                *)
Defaults ==
  [magic |-> TRUE, op |-> "QUERY", slot |-> 0, target |-> "ACTIVE",
   first |-> 0, second |-> 0, key |-> Zeros, type |-> "QKD", epoch |-> 1]
Asks(op) == {[Defaults EXCEPT !.op = op, !.slot = s] : s \in SlotIds}
Storing(r, t, k, e) == [r EXCEPT !.target = t, !.key = {k}, !.epoch = e]
Deriving(r, a, b, e) == [r EXCEPT !.first = a, !.second = b, !.epoch = e]
StoreRequests ==
  {Storing(r, t, k, e) : r \in Asks("STORE"), t \in States, k \in Keys, e \in Epochs}
DeriveRequests ==
  {Deriving(r, a, b, e) :
     r \in Asks("DERIVE"), a \in SlotIds, b \in SlotIds, e \in Epochs}
TransitionRequests == {[r EXCEPT !.target = t] : r \in Asks("TRANSITION"), t \in States}
ForeignRequests == {[r EXCEPT !.magic = FALSE] : r \in Asks("QUERY")}
Requests ==
  StoreRequests \cup DeriveRequests \cup TransitionRequests \cup ForeignRequests
    \cup Asks("ZEROIZE") \cup Asks("QUERY") \cup Asks("unknown")

(* An answer: its header and what the payload reveals of a slot.           *)
Answer(r, status, state, checksum, key) ==
  [op |-> r.op, slot |-> r.slot, status |-> status, state |-> state,
   checksum |-> checksum, key |-> key]
Refusal(r, status, state) == Answer(r, status, state, {}, Zeros)

VInit ==
  /\ bank = [s \in Slots |-> EmptySlot]
  /\ answer = Refusal(Defaults, "UNSUPPORTED_OP", "EMPTY")
  /\ expected = answer

-----------------------------------------------------------------------------
(* The kernel.                                                             *)
IsValidTransition(from, to) ==
  \/ from = "EMPTY" /\ to \in {"PRE_ACTIVE", "ACTIVE"}
  \/ from = "PRE_ACTIVE" /\ to \in {"ACTIVE", "DESTROYED"}
  \/ from = "ACTIVE" /\ to \in {"DEACTIVATED", "COMPROMISED", "DESTROYED"}
  \/ from = "DEACTIVATED" /\ to \in {"COMPROMISED", "DESTROYED"}
  \/ from = "COMPROMISED" /\ to = "DESTROYED"

InBounds(r) == r.slot \in Slots \/ (r.op = "ZEROIZE" /\ r.slot = AllSlots)

(* A fault: a source that is not active is reported before a compromised   *)
(* one.                                                                    *)
DeriveStatusSwapped(b, r) ==
  LET sources == {r.first, r.second} IN
  CASE ~(sources \subseteq Slots) -> "INVALID_SLOT"
    [] sources \subseteq Slots /\ \E s \in sources : b[s].state # "ACTIVE" -> "SLOT_EXPIRED"
    [] OTHER -> "SUCCESS"
DeriveStatus(b, r) ==
  LET sources == {r.first, r.second}
      inState(state) == {s \in sources : b[s].state = state} IN
  CASE ~(sources \subseteq Slots) -> "INVALID_SLOT"
    [] sources \subseteq Slots /\ inState("COMPROMISED") # {} -> "KEY_COMPROMISED"
    [] /\ sources \subseteq Slots
       /\ inState("COMPROMISED") = {} /\ inState("ACTIVE") # sources -> "SLOT_EXPIRED"
    [] OTHER -> "SUCCESS"

(* What the kernel's copy of the bank gets.  A fault: a derived key gets   *)
(* the epoch after the descriptor's.                                       *)
StoredState(target) ==
  IF target \in {"PRE_ACTIVE", "ACTIVE"} THEN target ELSE "ACTIVE"
Stored(r) ==
  [state |-> StoredState(r.target), type |-> r.type, key |-> r.key, epoch |-> r.epoch]
DerivedNextEpoch(b, r) ==
  [state |-> "ACTIVE", type |-> "DERIVED_SESSION",
   key |-> b[r.first].key \cup b[r.second].key, epoch |-> r.epoch + 1]
Derived(b, r) ==
  [state |-> "ACTIVE", type |-> "DERIVED_SESSION",
   key |-> b[r.first].key \cup b[r.second].key, epoch |-> r.epoch]
Moved(slot, target) ==
  [slot EXCEPT !.state = target, !.key = IF target = "DESTROYED" THEN Zeros ELSE @]

Success(r, slot) == Answer(r, "SUCCESS", slot.state, {slot}, slot.key)

(* What the kernel writes to the result buffer for the bank b.             *)
KernelDerive(b, r) ==
  LET status == DeriveStatus(b, r) IN
  CASE status = "SUCCESS" -> Success(r, Derived(b, r))
    [] status = "INVALID_SLOT" -> Refusal(r, status, "EMPTY")
    [] status = "KEY_COMPROMISED" -> Refusal(r, status, "COMPROMISED")
    [] status = "SLOT_EXPIRED" -> Refusal(r, status, b[r.first].state)

KernelTransition(b, r) ==
  LET slot == b[r.slot] IN
  IF IsValidTransition(slot.state, r.target) THEN Success(r, Moved(slot, r.target))
  ELSE Answer(r, "ILLEGAL_TRANSITION", slot.state, {slot}, Zeros)

KernelAnswer(b, r) ==
  CASE ~r.magic -> Refusal(r, "INVALID_MAGIC", "EMPTY")
    [] r.magic /\ ~InBounds(r) -> Refusal(r, "INVALID_SLOT", "EMPTY")
    [] r.magic /\ InBounds(r) /\ r.op = "STORE" -> Success(r, Stored(r))
    [] r.magic /\ InBounds(r) /\ r.op = "DERIVE" -> KernelDerive(b, r)
    [] r.magic /\ InBounds(r) /\ r.op = "TRANSITION" -> KernelTransition(b, r)
    [] r.magic /\ InBounds(r) /\ r.op = "ZEROIZE" ->
         Answer(r, "SUCCESS", "DESTROYED", {}, Zeros)
    [] r.magic /\ InBounds(r) /\ r.op = "QUERY" -> Success(r, b[r.slot])
    [] OTHER -> Refusal(r, "UNSUPPORTED_OP", "EMPTY")

-----------------------------------------------------------------------------
(* The reference oracle, which does not look at the magic: the next bank   *)
(* and the expected answer.  The kernel is given the same request with the *)
(* bank as it was.  A fault: a deactivated key can be activated again.     *)
ValidTransitionsBack ==
  [EMPTY |-> {"PRE_ACTIVE", "ACTIVE"},
   PRE_ACTIVE |-> {"ACTIVE", "DESTROYED"},
   ACTIVE |-> {"DEACTIVATED", "COMPROMISED", "DESTROYED"},
   DEACTIVATED |-> {"ACTIVE", "COMPROMISED", "DESTROYED"},
   COMPROMISED |-> {"DESTROYED"},
   DESTROYED |-> {}]
ValidTransitions ==
  [EMPTY |-> {"PRE_ACTIVE", "ACTIVE"},
   PRE_ACTIVE |-> {"ACTIVE", "DESTROYED"},
   ACTIVE |-> {"DEACTIVATED", "COMPROMISED", "DESTROYED"},
   DEACTIVATED |-> {"COMPROMISED", "DESTROYED"},
   COMPROMISED |-> {"DESTROYED"},
   DESTROYED |-> {}]

(* A zeroized slot starts anew.  A fault: its key stays.                   *)
ZeroizedStateOnly(slot) == [slot EXCEPT !.state = "DESTROYED"]
Zeroized(slot) == [EmptySlot EXCEPT !.state = "DESTROYED"]

Dispatched(r) == answer' = KernelAnswer(bank, r)
Refused(r, status, state) ==
  /\ expected' = Refusal(r, status, state)
  /\ UNCHANGED bank
Succeeds(r, slot) ==
  /\ bank' = [bank EXCEPT ![r.slot] = slot]
  /\ expected' = Success(r, slot)

Store(r) ==
  /\ r.op = "STORE" /\ r.slot \in Slots
  /\ Succeeds(r, [state |-> IF r.target \in {"PRE_ACTIVE", "ACTIVE"} THEN r.target
                            ELSE "ACTIVE",
                  type |-> r.type, key |-> r.key, epoch |-> r.epoch])
  /\ Dispatched(r)

(* A compromised source is reported before one that is not active.         *)
Derive(r) ==
  /\ r.op = "DERIVE" /\ r.slot \in Slots
  /\ LET first == r.first
         second == r.second IN
     \/ /\ first \notin Slots \/ second \notin Slots
        /\ Refused(r, "INVALID_SLOT", "EMPTY")
     \/ /\ first \in Slots /\ second \in Slots
        /\ "COMPROMISED" \in {bank[first].state, bank[second].state}
        /\ Refused(r, "KEY_COMPROMISED", "COMPROMISED")
     \/ /\ first \in Slots /\ second \in Slots
        /\ "COMPROMISED" \notin {bank[first].state, bank[second].state}
        /\ {bank[first].state, bank[second].state} # {"ACTIVE"}
        /\ Refused(r, "SLOT_EXPIRED", bank[first].state)
     \/ /\ first \in Slots /\ second \in Slots
        /\ {bank[first].state, bank[second].state} = {"ACTIVE"}
        /\ Succeeds(r, [state |-> "ACTIVE", type |-> "DERIVED_SESSION",
                        key |-> bank[first].key \cup bank[second].key,
                        epoch |-> r.epoch])
  /\ Dispatched(r)

Transition(r) ==
  /\ r.op = "TRANSITION" /\ r.slot \in Slots
  /\ LET slot == bank[r.slot] IN
     \/ /\ r.target \notin ValidTransitions[slot.state]
        /\ expected' = Answer(r, "ILLEGAL_TRANSITION", slot.state, {slot}, Zeros)
        /\ UNCHANGED bank
     \/ /\ r.target \in ValidTransitions[slot.state] \ {"DESTROYED"}
        /\ Succeeds(r, [slot EXCEPT !.state = r.target])
     \/ /\ r.target \in ValidTransitions[slot.state] \cap {"DESTROYED"}
        /\ Succeeds(r, [slot EXCEPT !.state = "DESTROYED", !.key = Zeros])
  /\ Dispatched(r)

Zeroize(r) ==
  /\ r.op = "ZEROIZE"
  /\ \/ r.slot \in Slots /\ bank' = [bank EXCEPT ![r.slot] = Zeroized(@)]
     \/ r.slot = AllSlots /\ bank' = [s \in Slots |-> Zeroized(bank[s])]
  /\ expected' = Answer(r, "SUCCESS", "DESTROYED", {}, Zeros)
  /\ Dispatched(r)

Query(r) ==
  /\ r.op = "QUERY" /\ r.slot \in Slots
  /\ Succeeds(r, bank[r.slot])
  /\ Dispatched(r)

(* Neither implementation gets to the operation.                           *)
BadSlot(r) ==
  /\ r.slot = Beyond \/ (r.slot = AllSlots /\ r.op # "ZEROIZE")
  /\ Refused(r, "INVALID_SLOT", "EMPTY")
  /\ Dispatched(r)

UnsupportedOp(r) ==
  /\ r.op \notin Ops /\ r.slot \in Slots
  /\ Refused(r, "UNSUPPORTED_OP", "EMPTY")
  /\ Dispatched(r)

(* A descriptor of another make goes to the kernel alone.                  *)
BadMagic(r) ==
  /\ ~r.magic
  /\ Dispatched(r)
  /\ UNCHANGED <<bank, expected>>

VNext ==
  \E r \in Requests :
    \/ BadMagic(r)
    \/ /\ r.magic
       /\ \/ Store(r) \/ Derive(r) \/ Transition(r) \/ Zeroize(r) \/ Query(r)
          \/ BadSlot(r) \/ UnsupportedOp(r)

VSpec == VInit /\ [][VNext]_vvars

-----------------------------------------------------------------------------
Answers ==
  [op : Ops \cup {"unknown"}, slot : SlotIds, status : Statuses, state : States,
   checksum : SUBSET VaultSlots, key : SUBSET Keys]

(* Every variable has its type: a bank never has a slot in a state or with *)
(* a key that no request could have given it.                              *)
VTypeOK ==
  /\ bank \in [Slots -> VaultSlots]
  /\ answer \in Answers
  /\ expected \in Answers

(* The two implementations agree: whatever the bank has come to, the       *)
(* kernel answers what the oracle expects.                                 *)
KernelAgrees == answer.status # "INVALID_MAGIC" => answer = expected

(* A slot that is destroyed holds no key, and no answer that reports it    *)
(* destroyed, or refuses a request, reveals one.                           *)
DestroyedIsWiped ==
  /\ \A s \in Slots : bank[s].state = "DESTROYED" => bank[s].key = Zeros
  /\ answer.state = "DESTROYED" \/ answer.status # "SUCCESS" => answer.key = Zeros

(* The order of a key's life.                                              *)
Stage ==
  [EMPTY |-> 0, PRE_ACTIVE |-> 1, ACTIVE |-> 2, DEACTIVATED |-> 3, COMPROMISED |-> 4,
   DESTROYED |-> 5]

(* A key's life goes one way: only a new key in its place, stored or       *)
(* derived, brings a slot back.                                            *)
LifeGoesOneWay ==
  [][\A s \in Slots : Stage[bank'[s].state] < Stage[bank[s].state] =>
       /\ expected'.op \in {"STORE", "DERIVE"} /\ expected'.slot = s
       /\ expected'.status = "SUCCESS" /\ bank'[s].state \in {"PRE_ACTIVE", "ACTIVE"}]_vvars
=============================================================================
