--------------------------- MODULE QkmsVaultProofs ---------------------------
(***************************************************************************)
(* Proofs about QkmsVault, for every number of slots and every set of keys *)
(* and epochs: the two implementations agree in every bank the host can    *)
(* come to, and what is destroyed is gone.                                 *)
(***************************************************************************)
EXTENDS QkmsVault, TLAPS

RequestRecords ==
  [magic : BOOLEAN, op : Ops \cup {"unknown"}, slot : SlotIds, target : States,
   first : SlotIds, second : SlotIds, key : SUBSET Keys, type : Types, epoch : Epochs]

(* Every request is a record of these.                                     *)
LEMMA AsksTypes ==
  ASSUME NEW op \in Ops \cup {"unknown"}
  PROVE  Asks(op) \subseteq RequestRecords
<1>1. 0 \in SlotIds /\ 1 \in Epochs
  BY VaultAssumption DEF SlotIds, Slots
<1>2. Defaults \in RequestRecords
  BY <1>1 DEF Defaults, RequestRecords, Ops, States, Types, Zeros
<1> QED BY <1>2 DEF Asks, RequestRecords

LEMMA RequestTypes == Requests \subseteq RequestRecords
<1>1. {"STORE", "DERIVE", "TRANSITION", "ZEROIZE", "QUERY", "unknown"}
        \subseteq Ops \cup {"unknown"}
  BY DEF Ops
<1>2. \A op \in {"STORE", "DERIVE", "TRANSITION", "ZEROIZE", "QUERY", "unknown"} :
        Asks(op) \subseteq RequestRecords
  BY <1>1, AsksTypes
<1>3. StoreRequests \subseteq RequestRecords
  <2> SUFFICES ASSUME NEW q \in StoreRequests PROVE q \in RequestRecords
    OBVIOUS
  <2>1. PICK r \in Asks("STORE"), t \in States, k \in Keys, e \in Epochs :
          q = Storing(r, t, k, e)
    BY DEF StoreRequests
  <2>2. r \in RequestRecords /\ {k} \in SUBSET Keys
    BY <1>2
  <2> QED BY <2>1, <2>2 DEF Storing, RequestRecords
<1>4. DeriveRequests \subseteq RequestRecords
  <2> SUFFICES ASSUME NEW q \in DeriveRequests PROVE q \in RequestRecords
    OBVIOUS
  <2>1. PICK r \in Asks("DERIVE"), a \in SlotIds, b \in SlotIds, e \in Epochs :
          q = Deriving(r, a, b, e)
    BY DEF DeriveRequests
  <2>2. r \in RequestRecords
    BY <1>2
  <2> QED BY <2>1, <2>2 DEF Deriving, RequestRecords
<1>5. TransitionRequests \subseteq RequestRecords
  BY <1>2 DEF TransitionRequests, RequestRecords
<1>6. ForeignRequests \subseteq RequestRecords
  BY <1>2 DEF ForeignRequests, RequestRecords
<1> QED BY <1>2, <1>3, <1>4, <1>5, <1>6 DEF Requests

VInv == VTypeOK /\ KernelAgrees /\ DestroyedIsWiped

(* A slot of the bank, and what the answers are made of.                   *)
LEMMA AnswerTypes ==
  ASSUME NEW r \in RequestRecords, NEW status \in Statuses, NEW state \in States,
         NEW slot \in VaultSlots
  PROVE  /\ Refusal(r, status, state) \in Answers
         /\ Success(r, slot) \in Answers
         /\ Answer(r, status, state, {slot}, Zeros) \in Answers
BY DEF RequestRecords, Answers, Answer, Refusal, Success, VaultSlots, Statuses, Zeros

(* The kernel agrees with the oracle on a store.                           *)
LEMMA StoreAgrees ==
  ASSUME VTypeOK, NEW r \in RequestRecords, r.magic, Store(r)
  PROVE  answer' = expected'
BY DEF Store, Succeeds, Dispatched, KernelAnswer, InBounds, Stored, StoredState

(* It agrees on a derivation, also on which of two failures to report.     *)
LEMMA DeriveAgrees ==
  ASSUME VTypeOK, NEW r \in RequestRecords, r.magic, Derive(r)
  PROVE  answer' = expected'
<1>1. answer' = KernelDerive(bank, r)
  BY DEF Derive, Dispatched, KernelAnswer, InBounds
<1>2. CASE r.first \notin Slots \/ r.second \notin Slots
  <2>1. DeriveStatus(bank, r) = "INVALID_SLOT"
    BY <1>2 DEF DeriveStatus
  <2>2. expected' = Refusal(r, "INVALID_SLOT", "EMPTY")
    BY <1>2 DEF Derive, Refused
  <2> QED BY <1>1, <2>1, <2>2 DEF KernelDerive
<1>3. CASE /\ r.first \in Slots /\ r.second \in Slots
           /\ "COMPROMISED" \in {bank[r.first].state, bank[r.second].state}
  <2>1. DeriveStatus(bank, r) = "KEY_COMPROMISED"
    BY <1>3 DEF DeriveStatus
  <2>2. expected' = Refusal(r, "KEY_COMPROMISED", "COMPROMISED")
    BY <1>3 DEF Derive, Refused
  <2> QED BY <1>1, <2>1, <2>2 DEF KernelDerive
<1>4. CASE /\ r.first \in Slots /\ r.second \in Slots
           /\ "COMPROMISED" \notin {bank[r.first].state, bank[r.second].state}
           /\ {bank[r.first].state, bank[r.second].state} # {"ACTIVE"}
  <2>1. DeriveStatus(bank, r) = "SLOT_EXPIRED"
    BY <1>4 DEF DeriveStatus
  <2>2. expected' = Refusal(r, "SLOT_EXPIRED", bank[r.first].state)
    BY <1>4 DEF Derive, Refused
  <2> QED BY <1>1, <2>1, <2>2 DEF KernelDerive
<1>5. CASE /\ r.first \in Slots /\ r.second \in Slots
           /\ {bank[r.first].state, bank[r.second].state} = {"ACTIVE"}
  <2>1. DeriveStatus(bank, r) = "SUCCESS"
    BY <1>5 DEF DeriveStatus
  <2>2. expected' = Success(r, Derived(bank, r))
    BY <1>5 DEF Derive, Succeeds, Derived
  <2> QED BY <1>1, <2>1, <2>2 DEF KernelDerive
<1> QED BY <1>2, <1>3, <1>4, <1>5

(* The kernel's chain of tests and the oracle's table are one relation.    *)
LEMMA TransitionTables ==
  ASSUME NEW from \in States, NEW to \in States
  PROVE  IsValidTransition(from, to) <=> to \in ValidTransitions[from]
BY DEF IsValidTransition, ValidTransitions, States

(* So the two agree on a transition.                                       *)
LEMMA TransitionAgrees ==
  ASSUME VTypeOK, NEW r \in RequestRecords, r.magic, Transition(r)
  PROVE  answer' = expected'
<1> DEFINE slot == bank[r.slot]
<1>1. slot \in VaultSlots /\ slot.state \in States /\ r.target \in States
  BY DEF VTypeOK, Transition, RequestRecords, VaultSlots
<1>2. answer' = KernelTransition(bank, r)
  BY DEF Transition, Dispatched, KernelAnswer, InBounds
<1>3. CASE r.target \notin ValidTransitions[slot.state]
  BY <1>1, <1>2, <1>3, TransitionTables DEF Transition, KernelTransition
<1>4. CASE r.target \in ValidTransitions[slot.state] \ {"DESTROYED"}
  <2>1. expected' = Success(r, [slot EXCEPT !.state = r.target])
    BY <1>4 DEF Transition, Succeeds
  <2>2. Moved(slot, r.target) = [slot EXCEPT !.state = r.target]
    BY <1>1, <1>4 DEF Moved, VaultSlots
  <2> QED BY <1>1, <1>2, <1>4, <2>1, <2>2, TransitionTables DEF KernelTransition
<1>5. CASE r.target \in ValidTransitions[slot.state] /\ r.target = "DESTROYED"
  <2>1. expected' = Success(r, [slot EXCEPT !.state = "DESTROYED", !.key = Zeros])
    BY <1>5 DEF Transition, Succeeds
  <2>2. Moved(slot, r.target) = [slot EXCEPT !.state = "DESTROYED", !.key = Zeros]
    BY <1>5 DEF Moved
  <2> QED BY <1>1, <1>2, <1>5, <2>1, <2>2, TransitionTables DEF KernelTransition
<1> QED BY <1>3, <1>4, <1>5

(* And on the requests without alternatives.                               *)
LEMMA OthersAgree ==
  ASSUME VTypeOK, NEW r \in RequestRecords, r.magic,
         Zeroize(r) \/ Query(r) \/ BadSlot(r) \/ UnsupportedOp(r)
  PROVE  answer' = expected'
<1>1. NumSlots \notin Slots /\ AllSlots \notin Slots /\ AllSlots # NumSlots
  BY VaultAssumption DEF Slots
<1>2. CASE Zeroize(r)
  BY <1>2 DEF Zeroize, Dispatched, KernelAnswer, InBounds
<1>3. CASE Query(r)
  BY <1>3 DEF Query, Succeeds, Dispatched, KernelAnswer, InBounds
<1>4. CASE BadSlot(r)
  BY <1>1, <1>4 DEF BadSlot, Refused, Dispatched, KernelAnswer, InBounds, Beyond
<1>5. CASE UnsupportedOp(r)
  BY <1>5 DEF UnsupportedOp, Refused, Dispatched, KernelAnswer, InBounds, Ops
<1> QED BY <1>2, <1>3, <1>4, <1>5

-----------------------------------------------------------------------------
(* What a step must establish of the bank it leaves and of its answer.     *)
Gone(slot) == slot.state = "DESTROYED" => slot.key = Zeros
BankOK(b) == b \in [Slots -> VaultSlots] /\ \A s \in Slots : Gone(b[s])
Silent(a) == a.state = "DESTROYED" \/ a.status # "SUCCESS" => a.key = Zeros
AnswerOK(a) == a \in Answers /\ Silent(a)

LEMMA BankIsOK ==
  VTypeOK /\ DestroyedIsWiped => BankOK(bank)
BY DEF VTypeOK, DestroyedIsWiped, BankOK, Gone

(* A success puts a slot in the bank and answers with it.                  *)
LEMMA SuccessIsOK ==
  ASSUME BankOK(bank), NEW r \in RequestRecords, r.slot \in Slots,
         NEW slot \in VaultSlots, Gone(slot), Succeeds(r, slot)
  PROVE  BankOK(bank') /\ AnswerOK(expected')
<1>1. BankOK(bank')
  BY DEF BankOK, Succeeds
<1>2. expected' \in Answers
  BY AnswerTypes DEF Succeeds, Statuses, States
<1>3. Silent(expected')
  BY DEF Succeeds, Success, Answer, Silent, Gone
<1> QED BY <1>1, <1>2, <1>3 DEF AnswerOK

(* A refusal leaves the bank and reveals no key.                           *)
LEMMA RefusalIsOK ==
  ASSUME BankOK(bank), NEW r \in RequestRecords, NEW status \in Statuses,
         NEW state \in States, Refused(r, status, state)
  PROVE  BankOK(bank') /\ AnswerOK(expected')
<1>1. BankOK(bank')
  BY DEF Refused
<1>2. expected' \in Answers
  BY DEF Refused, Refusal, Answer, Answers, RequestRecords, Zeros, VaultSlots
<1>3. Silent(expected')
  BY DEF Refused, Refusal, Answer, Silent
<1> QED BY <1>1, <1>2, <1>3 DEF AnswerOK

LEMMA StoreIsOK ==
  ASSUME BankOK(bank), NEW r \in RequestRecords, Store(r)
  PROVE  BankOK(bank') /\ AnswerOK(expected')
<1> DEFINE slot ==
      [state |-> IF r.target \in {"PRE_ACTIVE", "ACTIVE"} THEN r.target ELSE "ACTIVE",
       type |-> r.type, key |-> r.key, epoch |-> r.epoch]
<1>1. r.slot \in Slots /\ Succeeds(r, slot)
  BY DEF Store
<1>2. slot \in VaultSlots
  BY DEF RequestRecords, VaultSlots, States
<1>3. Gone(slot)
  BY DEF Gone
<1> HIDE DEF slot
<1> QED BY <1>1, <1>2, <1>3, SuccessIsOK

LEMMA DeriveIsOK ==
  ASSUME BankOK(bank), NEW r \in RequestRecords, Derive(r)
  PROVE  BankOK(bank') /\ AnswerOK(expected')
<1> DEFINE slot ==
      [state |-> "ACTIVE", type |-> "DERIVED_SESSION",
       key |-> bank[r.first].key \cup bank[r.second].key, epoch |-> r.epoch]
<1>1. \/ Refused(r, "INVALID_SLOT", "EMPTY")
      \/ Refused(r, "KEY_COMPROMISED", "COMPROMISED")
      \/ r.first \in Slots /\ Refused(r, "SLOT_EXPIRED", bank[r.first].state)
      \/ r.first \in Slots /\ r.second \in Slots /\ Succeeds(r, slot)
  BY DEF Derive
<1>2. {"INVALID_SLOT", "KEY_COMPROMISED", "SLOT_EXPIRED"} \subseteq Statuses
      /\ {"EMPTY", "COMPROMISED"} \subseteq States
  BY DEF Statuses, States
<1>3. CASE Refused(r, "INVALID_SLOT", "EMPTY")
  BY <1>2, <1>3, RefusalIsOK
<1>4. CASE Refused(r, "KEY_COMPROMISED", "COMPROMISED")
  BY <1>2, <1>4, RefusalIsOK
<1>5. CASE r.first \in Slots /\ Refused(r, "SLOT_EXPIRED", bank[r.first].state)
  <2>1. bank[r.first].state \in States
    BY <1>5 DEF BankOK, VaultSlots
  <2> QED BY <1>2, <1>5, <2>1, RefusalIsOK
<1>6. CASE r.first \in Slots /\ r.second \in Slots /\ Succeeds(r, slot)
  <2>1. slot \in VaultSlots
    BY <1>6 DEF BankOK, RequestRecords, VaultSlots, States, Types
  <2>2. Gone(slot)
    BY DEF Gone
  <2>3. r.slot \in Slots
    BY DEF Derive
  <2> HIDE DEF slot
  <2> QED BY <1>6, <2>1, <2>2, <2>3, SuccessIsOK
<1> HIDE DEF slot
<1> QED BY <1>1, <1>3, <1>4, <1>5, <1>6

LEMMA TransitionIsOK ==
  ASSUME BankOK(bank), NEW r \in RequestRecords, Transition(r)
  PROVE  BankOK(bank') /\ AnswerOK(expected')
<1> DEFINE slot == bank[r.slot]
           moved == [slot EXCEPT !.state = r.target]
           wiped == [slot EXCEPT !.state = "DESTROYED", !.key = Zeros]
<1>1. r.slot \in Slots /\ slot \in VaultSlots /\ slot.state \in States
      /\ r.target \in States
  BY DEF Transition, BankOK, VaultSlots, RequestRecords
<1>2. \/ /\ expected' = Answer(r, "ILLEGAL_TRANSITION", slot.state, {slot}, Zeros)
         /\ UNCHANGED bank
      \/ r.target # "DESTROYED" /\ Succeeds(r, moved)
      \/ Succeeds(r, wiped)
  BY DEF Transition
<1>3. CASE /\ expected' = Answer(r, "ILLEGAL_TRANSITION", slot.state, {slot}, Zeros)
           /\ UNCHANGED bank
  <2>1. expected' \in Answers
    BY <1>1, <1>3, AnswerTypes DEF Statuses
  <2>2. Silent(expected')
    BY <1>3 DEF Answer, Silent
  <2> QED BY <1>3, <2>1, <2>2 DEF AnswerOK
<1>4. CASE r.target # "DESTROYED" /\ Succeeds(r, moved)
  <2>1. moved \in VaultSlots /\ Gone(moved)
    BY <1>1, <1>4 DEF VaultSlots, Gone
  <2> HIDE DEF moved
  <2> QED BY <1>1, <1>4, <2>1, SuccessIsOK
<1>5. CASE Succeeds(r, wiped)
  <2>1. wiped \in VaultSlots /\ Gone(wiped)
    BY <1>1 DEF VaultSlots, Gone, States, Zeros
  <2> HIDE DEF wiped
  <2> QED BY <1>1, <1>5, <2>1, SuccessIsOK
<1> QED BY <1>2, <1>3, <1>4, <1>5

LEMMA ZeroizeIsOK ==
  ASSUME BankOK(bank), NEW r \in RequestRecords, Zeroize(r)
  PROVE  BankOK(bank') /\ AnswerOK(expected')
<1>1. \A slot : Zeroized(slot) \in VaultSlots /\ Gone(Zeroized(slot))
  BY DEF Zeroized, EmptySlot, VaultSlots, States, Types, Zeros, Gone
<1>2. BankOK(bank')
  BY <1>1 DEF Zeroize, BankOK
<1>3. expected' = Answer(r, "SUCCESS", "DESTROYED", {}, Zeros)
  BY DEF Zeroize
<1>4. expected' \in Answers
  BY <1>3 DEF Answer, Answers, RequestRecords, Statuses, States, Zeros
<1>5. Silent(expected')
  BY <1>3 DEF Answer, Silent
<1> QED BY <1>2, <1>4, <1>5 DEF AnswerOK

LEMMA QueryIsOK ==
  ASSUME BankOK(bank), NEW r \in RequestRecords, Query(r)
  PROVE  BankOK(bank') /\ AnswerOK(expected')
<1>1. r.slot \in Slots /\ bank[r.slot] \in VaultSlots /\ Gone(bank[r.slot])
      /\ Succeeds(r, bank[r.slot])
  BY DEF Query, BankOK
<1> QED BY <1>1, SuccessIsOK

-----------------------------------------------------------------------------
(* The inductive invariant: types, agreement and wiping hold at first.     *)
LEMMA InitVInv == VInit => VInv
<1> SUFFICES ASSUME VInit PROVE VInv
  OBVIOUS
<1>1. EmptySlot \in VaultSlots /\ EmptySlot.state = "EMPTY"
  BY DEF EmptySlot, VaultSlots, States, Types, Zeros
<1>2. answer = [op |-> "QUERY", slot |-> 0, status |-> "UNSUPPORTED_OP",
                state |-> "EMPTY", checksum |-> {}, key |-> Zeros]
  BY DEF VInit, Refusal, Answer, Defaults
<1>3. answer \in Answers /\ expected = answer
  BY <1>2, VaultAssumption
     DEF VInit, Answers, Ops, SlotIds, Slots, Statuses, States, Zeros
<1>4. VTypeOK
  BY <1>1, <1>3 DEF VInit, VTypeOK
<1>5. DestroyedIsWiped
  BY <1>1, <1>2 DEF VInit, DestroyedIsWiped
<1> QED BY <1>3, <1>4, <1>5 DEF VInv, KernelAgrees

(* Every step preserves it.                                                *)
LEMMA StepVInv == VInv /\ [VNext]_vvars => VInv'
<1> SUFFICES ASSUME VInv, [VNext]_vvars PROVE VInv'
  OBVIOUS
<1>1. VTypeOK /\ DestroyedIsWiped /\ BankOK(bank)
  BY BankIsOK DEF VInv
<1>2. CASE UNCHANGED vvars
  BY <1>2 DEF vvars, VInv, VTypeOK, KernelAgrees, DestroyedIsWiped
<1>3. ASSUME BankOK(bank'), AnswerOK(expected'), answer' = expected'
      PROVE  VInv'
  BY <1>3 DEF VInv, VTypeOK, KernelAgrees, DestroyedIsWiped, BankOK, AnswerOK, Gone, Silent
<1>4. ASSUME NEW r \in Requests, r.magic,
             \/ Store(r) \/ Derive(r) \/ Transition(r) \/ Zeroize(r) \/ Query(r)
             \/ BadSlot(r) \/ UnsupportedOp(r)
      PROVE  VInv'
  <2>1. r \in RequestRecords
    BY RequestTypes
  <2>2. CASE Store(r)
    BY <1>1, <1>3, <1>4, <2>1, <2>2, StoreAgrees, StoreIsOK
  <2>3. CASE Derive(r)
    BY <1>1, <1>3, <1>4, <2>1, <2>3, DeriveAgrees, DeriveIsOK
  <2>4. CASE Transition(r)
    BY <1>1, <1>3, <1>4, <2>1, <2>4, TransitionAgrees, TransitionIsOK
  <2>5. CASE Zeroize(r)
    BY <1>1, <1>3, <1>4, <2>1, <2>5, OthersAgree, ZeroizeIsOK
  <2>6. CASE Query(r)
    BY <1>1, <1>3, <1>4, <2>1, <2>6, OthersAgree, QueryIsOK
  <2>7. CASE BadSlot(r)
    <3>1. Refused(r, "INVALID_SLOT", "EMPTY")
      BY <2>7 DEF BadSlot
    <3>2. "INVALID_SLOT" \in Statuses /\ "EMPTY" \in States
      BY DEF Statuses, States
    <3>3. BankOK(bank') /\ AnswerOK(expected')
      BY <1>1, <2>1, <3>1, <3>2, RefusalIsOK
    <3> QED BY <1>1, <1>3, <1>4, <2>1, <2>7, <3>3, OthersAgree
  <2>8. CASE UnsupportedOp(r)
    <3>1. Refused(r, "UNSUPPORTED_OP", "EMPTY")
      BY <2>8 DEF UnsupportedOp
    <3>2. "UNSUPPORTED_OP" \in Statuses /\ "EMPTY" \in States
      BY DEF Statuses, States
    <3>3. BankOK(bank') /\ AnswerOK(expected')
      BY <1>1, <2>1, <3>1, <3>2, RefusalIsOK
    <3> QED BY <1>1, <1>3, <1>4, <2>1, <2>8, <3>3, OthersAgree
  <2> QED BY <1>4, <2>2, <2>3, <2>4, <2>5, <2>6, <2>7, <2>8
<1>5. ASSUME NEW r \in Requests, BadMagic(r)
      PROVE  VInv'
  <2>1. r \in RequestRecords
    BY RequestTypes
  <2>2. answer' = Refusal(r, "INVALID_MAGIC", "EMPTY") /\ UNCHANGED <<bank, expected>>
    BY <1>5 DEF BadMagic, Dispatched, KernelAnswer
  <2>3. answer' \in Answers /\ answer'.status = "INVALID_MAGIC" /\ answer'.key = Zeros
    BY <2>1, <2>2 DEF Refusal, Answer, Answers, RequestRecords, Statuses, States, Zeros
  <2> QED BY <1>1, <2>2, <2>3 DEF VInv, VTypeOK, KernelAgrees, DestroyedIsWiped
<1> QED BY <1>2, <1>4, <1>5 DEF VNext

THEOREM VaultInvariance == VSpec => []VInv
BY InitVInv, StepVInv, PTL DEF VSpec

(* Every bank and answer has its type.                                     *)
THEOREM VaultTypes == VSpec => []VTypeOK
BY VaultInvariance, PTL DEF VInv

(* Whatever the bank has come to, the kernel answers what the oracle       *)
(* expects.                                                                *)
THEOREM KernelMatchesOracle == VSpec => []KernelAgrees
BY VaultInvariance, PTL DEF VInv

(* What is destroyed holds no key and reveals none.                        *)
THEOREM DestroyedStaysWiped == VSpec => []DestroyedIsWiped
BY VaultInvariance, PTL DEF VInv

-----------------------------------------------------------------------------
(* A transition moves up the order of a key's life, and DESTROYED is last. *)
LEMMA TransitionsGoUp ==
  ASSUME NEW from \in States, NEW to \in ValidTransitions[from]
  PROVE  Stage[from] < Stage[to]
BY DEF States, ValidTransitions, Stage

LEMMA StagesBounded ==
  /\ \A state \in States : Stage[state] \in 0 .. 5
  /\ Stage["DESTROYED"] = 5
BY DEF States, Stage

(* What LifeGoesOneWay allows of one step.                                 *)
OneWay ==
  \A s \in Slots : Stage[bank'[s].state] < Stage[bank[s].state] =>
    /\ expected'.op \in {"STORE", "DERIVE"} /\ expected'.slot = s
    /\ expected'.status = "SUCCESS" /\ bank'[s].state \in {"PRE_ACTIVE", "ACTIVE"}

LEMMA UnchangedIsOneWay ==
  ASSUME BankOK(bank), UNCHANGED bank PROVE OneWay
<1> SUFFICES ASSUME NEW s \in Slots PROVE ~(Stage[bank[s].state] < Stage[bank[s].state])
  BY DEF OneWay
<1>1. Stage[bank[s].state] \in 0 .. 5
  BY StagesBounded DEF BankOK, VaultSlots
<1> QED BY <1>1

(* A success disturbs the slot it names only.                              *)
LEMMA SuccessIsOneWay ==
  ASSUME BankOK(bank), NEW r \in RequestRecords, r.slot \in Slots,
         NEW slot \in VaultSlots, Succeeds(r, slot),
         \/ Stage[bank[r.slot].state] <= Stage[slot.state]
         \/ r.op \in {"STORE", "DERIVE"} /\ slot.state \in {"PRE_ACTIVE", "ACTIVE"}
  PROVE  OneWay
<1> SUFFICES ASSUME NEW s \in Slots, Stage[bank'[s].state] < Stage[bank[s].state]
             PROVE  /\ expected'.op \in {"STORE", "DERIVE"} /\ expected'.slot = s
                    /\ expected'.status = "SUCCESS"
                    /\ bank'[s].state \in {"PRE_ACTIVE", "ACTIVE"}
  BY DEF OneWay
<1>1. bank' = [bank EXCEPT ![r.slot] = slot]
      /\ expected'.op = r.op /\ expected'.slot = r.slot /\ expected'.status = "SUCCESS"
  BY DEF Succeeds, Success, Answer
<1>2. bank \in [Slots -> VaultSlots] /\ Stage[bank[s].state] \in 0 .. 5
      /\ Stage[slot.state] \in 0 .. 5
  BY StagesBounded DEF BankOK, VaultSlots
<1>3. s = r.slot
  BY <1>1, <1>2
<1>4. bank'[s] = slot
  BY <1>1, <1>2, <1>3
<1>5. r.op \in {"STORE", "DERIVE"} /\ slot.state \in {"PRE_ACTIVE", "ACTIVE"}
  BY <1>2, <1>3, <1>4
<1> QED BY <1>1, <1>3, <1>4, <1>5

LEMMA StoreIsOneWay ==
  ASSUME BankOK(bank), NEW r \in RequestRecords, Store(r) PROVE OneWay
<1> DEFINE slot ==
      [state |-> IF r.target \in {"PRE_ACTIVE", "ACTIVE"} THEN r.target ELSE "ACTIVE",
       type |-> r.type, key |-> r.key, epoch |-> r.epoch]
<1>1. r.op = "STORE" /\ r.slot \in Slots /\ Succeeds(r, slot)
  BY DEF Store
<1>2. slot \in VaultSlots /\ slot.state \in {"PRE_ACTIVE", "ACTIVE"}
  BY DEF RequestRecords, VaultSlots, States
<1> HIDE DEF slot
<1> QED BY <1>1, <1>2, SuccessIsOneWay

LEMMA DeriveIsOneWay ==
  ASSUME BankOK(bank), NEW r \in RequestRecords, Derive(r) PROVE OneWay
<1> DEFINE slot ==
      [state |-> "ACTIVE", type |-> "DERIVED_SESSION",
       key |-> bank[r.first].key \cup bank[r.second].key, epoch |-> r.epoch]
<1>1. r.op = "DERIVE" /\ r.slot \in Slots
  BY DEF Derive
<1>2. \/ UNCHANGED bank
      \/ r.first \in Slots /\ r.second \in Slots /\ Succeeds(r, slot)
  BY DEF Derive, Refused
<1>3. CASE r.first \in Slots /\ r.second \in Slots /\ Succeeds(r, slot)
  <2>1. slot \in VaultSlots /\ slot.state = "ACTIVE"
    BY <1>3 DEF BankOK, RequestRecords, VaultSlots, States, Types
  <2> HIDE DEF slot
  <2> QED BY <1>1, <1>3, <2>1, SuccessIsOneWay
<1> HIDE DEF slot
<1> QED BY <1>2, <1>3, UnchangedIsOneWay

LEMMA TransitionIsOneWay ==
  ASSUME BankOK(bank), NEW r \in RequestRecords, Transition(r) PROVE OneWay
<1> DEFINE slot == bank[r.slot]
           moved == [slot EXCEPT !.state = r.target]
           wiped == [slot EXCEPT !.state = "DESTROYED", !.key = Zeros]
<1>1. r.slot \in Slots /\ slot \in VaultSlots /\ slot.state \in States
      /\ r.target \in States
  BY DEF Transition, BankOK, VaultSlots, RequestRecords
<1>2. \/ UNCHANGED bank
      \/ r.target \in ValidTransitions[slot.state] /\ Succeeds(r, moved)
      \/ "DESTROYED" \in ValidTransitions[slot.state] /\ Succeeds(r, wiped)
  BY DEF Transition
<1>3. Stage[slot.state] \in 0 .. 5 /\ Stage[r.target] \in 0 .. 5
      /\ Stage["DESTROYED"] = 5
  BY <1>1, StagesBounded
<1>4. CASE r.target \in ValidTransitions[slot.state] /\ Succeeds(r, moved)
  <2>1. moved \in VaultSlots /\ moved.state = r.target
    BY <1>1 DEF VaultSlots
  <2>2. Stage[slot.state] <= Stage[moved.state]
    BY <1>1, <1>3, <1>4, <2>1, TransitionsGoUp
  <2> HIDE DEF moved
  <2> QED BY <1>1, <1>4, <2>1, <2>2, SuccessIsOneWay
<1>5. CASE "DESTROYED" \in ValidTransitions[slot.state] /\ Succeeds(r, wiped)
  <2>1. wiped \in VaultSlots /\ wiped.state = "DESTROYED"
    BY <1>1 DEF VaultSlots, States, Zeros
  <2>2. Stage[slot.state] <= Stage[wiped.state]
    BY <1>3, <2>1
  <2> HIDE DEF wiped
  <2> QED BY <1>1, <1>5, <2>1, <2>2, SuccessIsOneWay
<1> QED BY <1>2, <1>4, <1>5, UnchangedIsOneWay

LEMMA ZeroizeIsOneWay ==
  ASSUME BankOK(bank), NEW r \in RequestRecords, Zeroize(r) PROVE OneWay
<1> SUFFICES ASSUME NEW s \in Slots
             PROVE  ~(Stage[bank'[s].state] < Stage[bank[s].state])
  BY DEF OneWay
<1>1. bank'[s] = bank[s] \/ bank'[s].state = "DESTROYED"
  BY DEF Zeroize, Zeroized, BankOK, EmptySlot
<1>2. Stage[bank[s].state] \in 0 .. 5 /\ Stage["DESTROYED"] = 5
  BY StagesBounded DEF BankOK, VaultSlots
<1> QED BY <1>1, <1>2

(* A key's life goes one way: only a new key in its place brings a slot    *)
(* back.                                                                   *)
THEOREM LivesGoOneWay == VSpec => LifeGoesOneWay
<1>1. ASSUME VInv, [VNext]_vvars PROVE [OneWay]_vvars
  <2>1. BankOK(bank)
    BY <1>1, BankIsOK DEF VInv
  <2>2. CASE UNCHANGED vvars
    BY <2>2
  <2>3. CASE VNext
    <3>1. PICK r \in Requests :
            \/ BadMagic(r)
            \/ Store(r) \/ Derive(r) \/ Transition(r) \/ Zeroize(r) \/ Query(r)
            \/ BadSlot(r) \/ UnsupportedOp(r)
      BY <2>3 DEF VNext
    <3>2. r \in RequestRecords
      BY RequestTypes
    <3>3. CASE Query(r)
      <4>1. UNCHANGED bank
        BY <2>1, <3>3 DEF Query, Succeeds, BankOK
      <4> QED BY <2>1, <4>1, UnchangedIsOneWay
    <3>4. CASE BadMagic(r) \/ BadSlot(r) \/ UnsupportedOp(r)
      <4>1. UNCHANGED bank
        BY <3>4 DEF BadMagic, BadSlot, UnsupportedOp, Refused
      <4> QED BY <2>1, <4>1, UnchangedIsOneWay
    <3> QED BY <2>1, <3>1, <3>2, <3>3, <3>4, StoreIsOneWay, DeriveIsOneWay,
               TransitionIsOneWay, ZeroizeIsOneWay
  <2> QED BY <1>1, <2>2, <2>3
<1>2. VSpec => [][OneWay]_vvars
  BY <1>1, VaultInvariance, PTL DEF VSpec
<1> QED BY <1>2, PTL DEF LifeGoesOneWay, OneWay
=============================================================================
