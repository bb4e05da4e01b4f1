------------------------- MODULE QrngReservoirProofs -------------------------
(***************************************************************************)
(* For every capacity, every pair of water marks and every set of clients: *)
(* the ring buffer of the DR27 reservoir leaves no residue, duplicates no  *)
(* block, keeps its mode in step with the water marks, never flaps, and    *)
(* implements a first-in first-out queue.                                  *)
(***************************************************************************)
EXTENDS QrngReservoir, TLAPS

(* The inductive invariant: the ring's shape ties the head pointer to the  *)
(* window that NoResidue speaks of, and the swing count to the mode.       *)
IInv ==
  /\ TypeOK
  /\ RingShape
  /\ NoResidue
  /\ SingleHolder
  /\ ModeMatchesMarks
  /\ SwingCovers

-----------------------------------------------------------------------------
(* Reduction modulo the capacity, for an index less than two turns away.   *)
LEMMA WrapAround ==
  ASSUME NEW i \in 0 .. 2 * RESERVOIR_CAPACITY - 1
  PROVE  i % RESERVOIR_CAPACITY
           = IF i < RESERVOIR_CAPACITY THEN i ELSE i - RESERVOIR_CAPACITY
  BY MarksAssumption

(* The same for an index that is reached from another by so many steps.    *)
LEMMA WrapSum ==
  ASSUME NEW i \in Nat, NEW n \in Nat, i + n < 2 * RESERVOIR_CAPACITY
  PROVE  (i + n) % RESERVOIR_CAPACITY
           = IF i + n < RESERVOIR_CAPACITY THEN i + n ELSE i + n - RESERVOIR_CAPACITY
  BY MarksAssumption

(* The index after a slot is a slot: the next one, or the first.           *)
LEMMA AdvanceSlot ==
  ASSUME NEW i \in Slots
  PROVE  /\ Advance(i) \in Slots
         /\ Advance(i) = IF i = RESERVOIR_CAPACITY - 1 THEN 0 ELSE i + 1
  BY MarksAssumption, WrapAround DEF Advance, Slots

(* A sample that is in a client's hands is of a block.                     *)
LEMMA FetchedBlock ==
  ASSUME TypeOK, NEW c \in Clients, NEW s \in fetched[c]
  PROVE  s.block \in Blocks
  BY DEF TypeOK, Samples

-----------------------------------------------------------------------------
(* The empty reservoir, every client without a block, satisfies it.        *)
LEMMA InitIInv == Init => IInv
<1> SUFFICES ASSUME Init PROVE IInv
  OBVIOUS
<1>1. TypeOK
  BY MarksAssumption DEF Init, TypeOK, Slots, Modes, Statuses, Span
<1>2. RingShape
  BY MarksAssumption, WrapAround DEF Init, RingShape
<1>3. NoResidue
  BY MarksAssumption DEF Init, NoResidue, Live, Slots
<1>4. SingleHolder
  BY DataAssumption DEF Init, SingleHolder, Slots
<1>5. ModeMatchesMarks /\ SwingCovers
  BY MarksAssumption DEF Init, ModeMatchesMarks, SwingCovers
<1> QED
  BY <1>1, <1>2, <1>3, <1>4, <1>5 DEF IInv

(* An accepted block: the head slot, which is not live, receives it.       *)
LEMMA StoredIInv ==
  ASSUME IInv, NEW c \in Clients, IngressStored(c)
  PROVE  IInv'
<1>1. PICK s \in fetched[c], status \in {"SUCCESS", "EXCEPTION"} :
        /\ HasRoom(fill)
        /\ reservoir' = [reservoir EXCEPT ![head] = s.block]
        /\ head' = Advance(head)
        /\ fill' = fill + 1
        /\ mode' = ModeAfterIngress(fill + 1)
        /\ swing' = Swung(mode')
        /\ Answer(c, status, Zero)
        /\ fetched' = [fetched EXCEPT ![c] = {}]
        /\ tail' = tail
  BY DEF IngressStored
<1>2. s.block \in Blocks /\ s.block # Zero
  BY FetchedBlock, DataAssumption DEF IInv
<1>3. /\ fill \in Nat /\ fill < RESERVOIR_CAPACITY /\ tail \in Slots /\ head \in Slots
      /\ fill' \in 1 .. RESERVOIR_CAPACITY
  BY <1>1, MarksAssumption DEF IInv, TypeOK, HasRoom
<1>4. /\ head = IF tail + fill < RESERVOIR_CAPACITY THEN tail + fill
                ELSE tail + fill - RESERVOIR_CAPACITY
      /\ ~Live(head)
  BY <1>3, WrapAround, MarksAssumption DEF IInv, RingShape, Live, Slots
<1>5. TypeOK'
  <2>1. reservoir' \in [Slots -> Blocks \cup {Zero}]
    BY <1>1, <1>2 DEF IInv, TypeOK
  <2>2. head' \in Slots /\ tail' \in Slots /\ fill' \in 0 .. RESERVOIR_CAPACITY
    BY <1>1, <1>3, AdvanceSlot
  <2>3. mode' \in Modes
    BY <1>1 DEF IInv, TypeOK, ModeAfterIngress, Modes
  <2>4. swing' \in 0 .. Span
    BY <1>1, MarksAssumption DEF IInv, TypeOK, Swung, Span
  <2>5. fetched' \in [Clients -> SUBSET Samples]
    BY <1>1 DEF IInv, TypeOK
  <2>6. reply' \in [Clients -> [status : Statuses, payload : Blocks \cup {Zero}]]
    BY <1>1 DEF IInv, TypeOK, Answer, Statuses
  <2> QED BY <2>1, <2>2, <2>3, <2>4, <2>5, <2>6 DEF TypeOK
<1>6. RingShape'
  <2>1. tail + fill + 1 \in 0 .. 2 * RESERVOIR_CAPACITY - 1
    BY <1>3, MarksAssumption DEF Slots
  <2>2. (tail + fill + 1) % RESERVOIR_CAPACITY
          = IF tail + fill + 1 < RESERVOIR_CAPACITY THEN tail + fill + 1
            ELSE tail + fill + 1 - RESERVOIR_CAPACITY
    BY <1>3, <2>1, WrapAround, MarksAssumption DEF Slots
  <2>3. head' = (tail + fill + 1) % RESERVOIR_CAPACITY
    BY <1>1, <1>3, <1>4, <2>2, AdvanceSlot, MarksAssumption DEF Slots
  <2>4. tail' + fill' = tail + fill + 1
    BY <1>1, <1>3, MarksAssumption DEF Slots
  <2> QED BY <2>3, <2>4 DEF RingShape
<1>7. NoResidue'
  <2> SUFFICES ASSUME NEW i \in Slots PROVE reservoir'[i] # Zero <=> Live(i)'
    BY DEF NoResidue
  <2>1. Live(i)' <=> Live(i) \/ i = head
    BY <1>1, <1>3, <1>4, MarksAssumption DEF Live, Slots
  <2>2. reservoir'[i] # Zero <=> reservoir[i] # Zero \/ i = head
    BY <1>1, <1>2 DEF IInv, TypeOK
  <2> QED BY <2>1, <2>2 DEF IInv, NoResidue
<1>8. SingleHolder'
  <2>1. \A i \in Slots : reservoir[i] # s.block
    BY <1>1 DEF IInv, SingleHolder
  <2>2. \A d \in Clients : reply[d].payload # s.block
    BY <1>1 DEF IInv, SingleHolder
  <2>3. \A d \in Clients : \A t \in fetched'[d] : t \in fetched[d] /\ d # c
    BY <1>1 DEF IInv, TypeOK
  <2>4. \A d \in Clients :
          reply'[d].payload = IF d = c THEN Zero ELSE reply[d].payload
    BY <1>1 DEF IInv, TypeOK, Answer
  <2>5. \A i \in Slots : reservoir'[i] = IF i = head THEN s.block ELSE reservoir[i]
    BY <1>1 DEF IInv, TypeOK
  <2>6. \A i, j \in Slots :
          reservoir'[i] = reservoir'[j] /\ reservoir'[i] # Zero => i = j
    BY <2>1, <2>5 DEF IInv, SingleHolder
  <2>7. \A d \in Clients, i \in Slots :
          reply'[d].payload = reservoir'[i] => reservoir'[i] = Zero
    BY <1>2, <2>2, <2>4, <2>5 DEF IInv, SingleHolder
  <2>8. \A d, e \in Clients :
          reply'[d].payload = reply'[e].payload /\ reply'[d].payload # Zero => d = e
    BY <2>4 DEF IInv, SingleHolder
  <2>9. \A d \in Clients : \A t \in fetched'[d] :
          /\ \A i \in Slots : reservoir'[i] # t.block
          /\ \A e \in Clients : reply'[e].payload # t.block
          /\ \A e \in Clients : \A u \in fetched'[e] : u.block = t.block => d = e
    <3> SUFFICES ASSUME NEW d \in Clients, NEW t \in fetched'[d]
                 PROVE  /\ \A i \in Slots : reservoir'[i] # t.block
                        /\ \A e \in Clients : reply'[e].payload # t.block
                        /\ \A e \in Clients : \A u \in fetched'[e] :
                             u.block = t.block => d = e
      OBVIOUS
    <3>1. t \in fetched[d] /\ d # c
      BY <2>3
    <3>2. t.block # s.block /\ t.block # Zero
      BY <3>1, <1>1, FetchedBlock, DataAssumption DEF IInv, SingleHolder
    <3>3. \A i \in Slots : reservoir'[i] # t.block
      BY <3>1, <3>2, <2>5 DEF IInv, SingleHolder
    <3>4. \A e \in Clients : reply'[e].payload # t.block
      BY <3>1, <3>2, <2>4 DEF IInv, SingleHolder
    <3>5. \A e \in Clients : \A u \in fetched'[e] : u.block = t.block => d = e
      BY <3>1, <2>3 DEF IInv, SingleHolder
    <3> QED BY <3>3, <3>4, <3>5
  <2> QED BY <2>6, <2>7, <2>8, <2>9 DEF SingleHolder
<1>9. ModeMatchesMarks'
  BY <1>1, <1>3, MarksAssumption
     DEF IInv, TypeOK, Modes, ModeMatchesMarks, ModeAfterIngress
<1>10. SwingCovers'
  BY <1>1, <1>3, MarksAssumption
     DEF IInv, TypeOK, Modes, Span, ModeMatchesMarks, SwingCovers, ModeAfterIngress, Swung
<1> QED BY <1>5, <1>6, <1>7, <1>8, <1>9, <1>10 DEF IInv

(* A drained block: the tail slot, which is live, is scrubbed.             *)
LEMMA DrainIInv ==
  ASSUME IInv, NEW c \in Clients, DrainBlock(c)
  PROVE  IInv'
<1>1. PICK status \in {"SUCCESS", "EXCEPTION"}, given \in {reservoir[tail], Zero} :
      /\ fill # 0
      /\ Answer(c, status, given)
      /\ reservoir' = [reservoir EXCEPT ![tail] = Zero]
      /\ tail' = Advance(tail)
      /\ fill' = fill - 1
      /\ mode' = ModeAfterDrain(fill - 1)
      /\ swing' = Swung(mode')
      /\ head' = head /\ fetched' = fetched
  BY DEF DrainBlock, Scrub
<1>2. /\ fill \in 1 .. RESERVOIR_CAPACITY /\ tail \in Slots /\ head \in Slots
      /\ fill' \in 0 .. RESERVOIR_CAPACITY - 1
  BY <1>1, MarksAssumption DEF IInv, TypeOK
<1>3. Live(tail) /\ reservoir[tail] \in Blocks
  BY <1>2, MarksAssumption DEF IInv, TypeOK, NoResidue, Live, Slots
<1>4. TypeOK'
  <2>1. reservoir' \in [Slots -> Blocks \cup {Zero}]
    BY <1>1 DEF IInv, TypeOK
  <2>2. head' \in Slots /\ tail' \in Slots /\ fill' \in 0 .. RESERVOIR_CAPACITY
    BY <1>1, <1>2, AdvanceSlot, MarksAssumption
  <2>3. mode' \in Modes
    BY <1>1 DEF IInv, TypeOK, ModeAfterDrain, Modes
  <2>4. swing' \in 0 .. Span
    BY <1>1, MarksAssumption DEF IInv, TypeOK, Swung, Span
  <2>5. fetched' \in [Clients -> SUBSET Samples]
    BY <1>1 DEF IInv, TypeOK
  <2>6. reply' \in [Clients -> [status : Statuses, payload : Blocks \cup {Zero}]]
    BY <1>1, <1>3 DEF IInv, TypeOK, Answer, Statuses
  <2> QED BY <2>1, <2>2, <2>3, <2>4, <2>5, <2>6 DEF TypeOK
<1>5. RingShape'
  <2>1. /\ tail \in Nat /\ fill \in Nat /\ tail + fill < 2 * RESERVOIR_CAPACITY
        /\ tail' \in Nat /\ fill' \in Nat
    BY <1>1, <1>2, AdvanceSlot, MarksAssumption DEF Slots
  <2>2. (tail + fill) % RESERVOIR_CAPACITY
          = IF tail + fill < RESERVOIR_CAPACITY THEN tail + fill
            ELSE tail + fill - RESERVOIR_CAPACITY
    BY <2>1, WrapSum
  <2>3. (tail' + fill') % RESERVOIR_CAPACITY
          = IF tail' + fill' < RESERVOIR_CAPACITY THEN tail' + fill'
            ELSE tail' + fill' - RESERVOIR_CAPACITY
    <3>1. tail' + fill' < 2 * RESERVOIR_CAPACITY
      BY <1>1, <1>2, AdvanceSlot, MarksAssumption DEF Slots
    <3> QED BY <2>1, <3>1, WrapSum
  <2>4. head = (tail + fill) % RESERVOIR_CAPACITY
    BY DEF IInv, RingShape
  <2>5. head' = (tail' + fill') % RESERVOIR_CAPACITY
    BY <1>1, <1>2, <2>2, <2>3, <2>4, AdvanceSlot, MarksAssumption DEF Slots
  <2> QED BY <2>5 DEF RingShape
<1>6. NoResidue'
  <2> SUFFICES ASSUME NEW i \in Slots PROVE reservoir'[i] # Zero <=> Live(i)'
    BY DEF NoResidue
  <2>1. Live(i)' <=> Live(i) /\ i # tail
    BY <1>1, <1>2, AdvanceSlot, MarksAssumption DEF Live, Slots
  <2>2. reservoir'[i] # Zero <=> reservoir[i] # Zero /\ i # tail
    BY <1>1 DEF IInv, TypeOK
  <2> QED BY <2>1, <2>2 DEF IInv, NoResidue
<1>7. SingleHolder'
  <2>1. \A i \in Slots : reservoir'[i] = IF i = tail THEN Zero ELSE reservoir[i]
    BY <1>1 DEF IInv, TypeOK
  <2>2. \A d \in Clients :
          reply'[d].payload = IF d = c THEN given ELSE reply[d].payload
    BY <1>1 DEF IInv, TypeOK, Answer
  <2>3. reservoir[tail] # Zero
    BY <1>3, DataAssumption
  <2>4. \A i, j \in Slots :
          reservoir'[i] = reservoir'[j] /\ reservoir'[i] # Zero => i = j
    BY <2>1 DEF IInv, SingleHolder
  <2>5. \A d \in Clients, i \in Slots :
          reply'[d].payload = reservoir'[i] => reservoir'[i] = Zero
    BY <1>2, <2>1, <2>2, <2>3 DEF IInv, SingleHolder
  <2>6. \A d, e \in Clients :
          reply'[d].payload = reply'[e].payload /\ reply'[d].payload # Zero => d = e
    BY <1>2, <2>2, <2>3 DEF IInv, SingleHolder
  <2>7. \A d \in Clients : \A t \in fetched'[d] :
          /\ \A i \in Slots : reservoir'[i] # t.block
          /\ \A e \in Clients : reply'[e].payload # t.block
          /\ \A e \in Clients : \A u \in fetched'[e] : u.block = t.block => d = e
    <3> SUFFICES ASSUME NEW d \in Clients, NEW t \in fetched[d]
                 PROVE  /\ \A i \in Slots : reservoir'[i] # t.block
                        /\ \A e \in Clients : reply'[e].payload # t.block
                        /\ \A e \in Clients : \A u \in fetched[e] :
                             u.block = t.block => d = e
      BY <1>1
    <3>1. t.block # Zero
      BY FetchedBlock, DataAssumption DEF IInv
    <3>2. \A i \in Slots : reservoir'[i] # t.block
      BY <3>1, <2>1 DEF IInv, SingleHolder
    <3>3. \A e \in Clients : reply'[e].payload # t.block
      BY <1>2, <2>2, <3>1 DEF IInv, SingleHolder
    <3>4. \A e \in Clients : \A u \in fetched[e] : u.block = t.block => d = e
      BY DEF IInv, SingleHolder
    <3> QED BY <3>2, <3>3, <3>4
  <2> QED BY <2>4, <2>5, <2>6, <2>7 DEF SingleHolder
<1>8. ModeMatchesMarks'
  BY <1>1, <1>2, MarksAssumption
     DEF IInv, TypeOK, Modes, ModeMatchesMarks, ModeAfterDrain
<1>9. SwingCovers'
  BY <1>1, <1>2, MarksAssumption
     DEF IInv, TypeOK, Modes, Span, ModeMatchesMarks, SwingCovers, ModeAfterDrain, Swung
<1> QED BY <1>4, <1>5, <1>6, <1>7, <1>8, <1>9 DEF IInv

(* A wiped tile satisfies every conjunct that is about the tile.           *)
LEMMA WipedIInv ==
  ASSUME IInv, Wiped, fetched' = fetched,
         reply' \in [Clients -> [status : Statuses, payload : Blocks \cup {Zero}]],
         \A d \in Clients : reply'[d].payload \in {Zero, reply[d].payload}
  PROVE  IInv'
<1>1. TypeOK'
  BY MarksAssumption DEF IInv, TypeOK, Wiped, Slots, Modes, Span
<1>2. RingShape'
  BY MarksAssumption, WrapAround DEF RingShape, Wiped
<1>3. NoResidue'
  BY MarksAssumption DEF NoResidue, Live, Slots, Wiped
<1>4. SingleHolder'
  <2>1. \A i \in Slots : reservoir'[i] = Zero
    BY DEF Wiped
  <2>2. \A d \in Clients : \A t \in fetched[d] : t.block # Zero
    BY FetchedBlock, DataAssumption DEF IInv
  <2> QED BY <2>1, <2>2 DEF IInv, SingleHolder
<1>5. ModeMatchesMarks' /\ SwingCovers'
  BY MarksAssumption DEF ModeMatchesMarks, SwingCovers, Wiped
<1> QED BY <1>1, <1>2, <1>3, <1>4, <1>5 DEF IInv

(* An operation that leaves the tile alone and answers without a block.    *)
LEMMA QuietIInv ==
  ASSUME IInv, UNCHANGED <<tile, swing>>, NEW c \in Clients, NEW st \in Statuses,
         Answer(c, st, Zero),
         fetched' = fetched \/ fetched' = [fetched EXCEPT ![c] = {}]
  PROVE  IInv'
<1>1. /\ reservoir' = reservoir /\ head' = head /\ tail' = tail /\ fill' = fill
      /\ mode' = mode /\ swing' = swing
  BY DEF tile
<1>2. \A d \in Clients : reply'[d].payload \in {Zero, reply[d].payload}
  BY DEF Answer, IInv, TypeOK
<1>3. \A d \in Clients : fetched'[d] \subseteq fetched[d]
  BY DEF IInv, TypeOK
<1>4. TypeOK'
  BY <1>1 DEF IInv, TypeOK, Answer
<1>5. SingleHolder'
  <2>1. \A d \in Clients : \A t \in fetched[d] : t.block # Zero
    BY FetchedBlock, DataAssumption DEF IInv
  <2>2. \A i, j \in Slots : reservoir'[i] = reservoir'[j] /\ reservoir'[i] # Zero => i = j
    BY <1>1 DEF IInv, SingleHolder
  <2>3. \A d \in Clients, i \in Slots :
          reply'[d].payload = reservoir'[i] => reservoir'[i] = Zero
    BY <1>1, <1>2 DEF IInv, SingleHolder
  <2>4. \A d, e \in Clients :
          reply'[d].payload = reply'[e].payload /\ reply'[d].payload # Zero => d = e
    BY <1>2 DEF IInv, SingleHolder
  <2>5. \A d \in Clients : \A t \in fetched'[d] :
          /\ \A i \in Slots : reservoir'[i] # t.block
          /\ \A e \in Clients : reply'[e].payload # t.block
          /\ \A e \in Clients : \A u \in fetched'[e] : u.block = t.block => d = e
    BY <1>1, <1>2, <1>3, <2>1 DEF IInv, SingleHolder
  <2> QED BY <2>2, <2>3, <2>4, <2>5 DEF SingleHolder
<1>6. RingShape' /\ NoResidue' /\ ModeMatchesMarks' /\ SwingCovers'
  BY <1>1 DEF IInv, RingShape, NoResidue, Live, ModeMatchesMarks, SwingCovers
<1> QED BY <1>4, <1>5, <1>6 DEF IInv

(* A fetched block is fresh, so it has no holder but its client.           *)
LEMMA FetchIInv ==
  ASSUME IInv, NEW c \in Clients, Fetch(c)
  PROVE  IInv'
<1>1. PICK b \in Blocks \ InUse, shape \in Shapes :
        fetched' = [fetched EXCEPT ![c] = {[block |-> b, shape |-> shape]}]
  BY DEF Fetch
<1>2. UNCHANGED <<tile, reply, swing>>
  BY DEF Fetch
<1>3. /\ reservoir' = reservoir /\ head' = head /\ tail' = tail /\ fill' = fill
      /\ mode' = mode /\ swing' = swing /\ reply' = reply
  BY <1>2 DEF tile
<1>4. TypeOK'
  BY <1>1, <1>3 DEF IInv, TypeOK, Samples
<1>5. SingleHolder'
  <2>1. \A i \in Slots : reservoir[i] # b
    BY <1>1 DEF InUse
  <2>2. \A d \in Clients : reply[d].payload # b
    BY <1>1 DEF InUse
  <2>3. \A d \in Clients : \A t \in fetched[d] : t.block # b
    BY <1>1 DEF InUse
  <2>4. \A d \in Clients : \A t \in fetched'[d] :
          \/ d # c /\ t \in fetched[d]
          \/ d = c /\ t = [block |-> b, shape |-> shape]
    BY <1>1 DEF IInv, TypeOK
  <2>5. \A d \in Clients : \A t \in fetched'[d] :
          /\ \A i \in Slots : reservoir'[i] # t.block
          /\ \A e \in Clients : reply'[e].payload # t.block
          /\ \A e \in Clients : \A u \in fetched'[e] : u.block = t.block => d = e
    <3> SUFFICES ASSUME NEW d \in Clients, NEW t \in fetched'[d]
                 PROVE  /\ \A i \in Slots : reservoir[i] # t.block
                        /\ \A e \in Clients : reply[e].payload # t.block
                        /\ \A e \in Clients : \A u \in fetched'[e] :
                             u.block = t.block => d = e
      BY <1>3
    <3>1. CASE d # c /\ t \in fetched[d]
      <4>1. \A e \in Clients : \A u \in fetched'[e] : u.block = t.block => d = e
        BY <3>1, <2>3, <2>4 DEF IInv, SingleHolder
      <4> QED BY <3>1, <4>1 DEF IInv, SingleHolder
    <3>2. CASE d = c /\ t = [block |-> b, shape |-> shape]
      <4>1. \A e \in Clients : \A u \in fetched'[e] : u.block = t.block => d = e
        BY <3>2, <2>3, <2>4
      <4> QED BY <3>2, <4>1, <2>1, <2>2
    <3> QED BY <3>1, <3>2, <2>4
  <2> QED BY <1>3, <2>5 DEF IInv, SingleHolder
<1>6. RingShape' /\ NoResidue' /\ ModeMatchesMarks' /\ SwingCovers'
  BY <1>3 DEF IInv, RingShape, NoResidue, Live, ModeMatchesMarks, SwingCovers
<1> QED BY <1>4, <1>5, <1>6 DEF IInv

(* Every step of the reservoir and its clients preserves the invariant.    *)
LEMMA StepIInv == IInv /\ [Next]_vars => IInv'
<1> SUFFICES ASSUME IInv, [Next]_vars PROVE IInv'
  OBVIOUS
<1>1. ASSUME NEW c \in Clients, Fetch(c) PROVE IInv'
  BY <1>1, FetchIInv
<1>2. ASSUME NEW c \in Clients, IngressRaises(c) PROVE IInv'
  BY <1>2, QuietIInv DEF IngressRaises, Statuses
<1>3. ASSUME NEW c \in Clients, IngressRefused(c) PROVE IInv'
  BY <1>3, QuietIInv DEF IngressRefused, Statuses
<1>4. ASSUME NEW c \in Clients, IngressStored(c) PROVE IInv'
  BY <1>4, StoredIInv
<1>5. ASSUME NEW c \in Clients, DrainEmpty(c) PROVE IInv'
  <2>1. UNCHANGED <<tile, swing>> /\ fetched' = fetched
    BY <1>5 DEF DrainEmpty
  <2> QED BY <1>5, <2>1, QuietIInv DEF DrainEmpty, Statuses
<1>6. ASSUME NEW c \in Clients, DrainBlock(c) PROVE IInv'
  BY <1>6, DrainIInv
<1>7. ASSUME NEW c \in Clients, Status(c) PROVE IInv'
  <2>1. UNCHANGED <<tile, swing>> /\ fetched' = fetched
    BY <1>7 DEF Status
  <2> QED BY <1>7, <2>1, QuietIInv DEF Status, Statuses
<1>8. ASSUME NEW c \in Clients, Zeroize(c) PROVE IInv'
  <2>1. /\ reply' \in [Clients -> [status : Statuses, payload : Blocks \cup {Zero}]]
        /\ \A d \in Clients : reply'[d].payload \in {Zero, reply[d].payload}
    BY <1>8 DEF Zeroize, Answer, IInv, TypeOK, Statuses
  <2> QED BY <1>8, <2>1, WipedIInv DEF Zeroize
<1>9. ASSUME Reload PROVE IInv'
  <2>1. /\ reply' \in [Clients -> [status : Statuses, payload : Blocks \cup {Zero}]]
        /\ \A d \in Clients : reply'[d].payload \in {Zero, reply[d].payload}
    BY <1>9 DEF Reload, IInv, TypeOK
  <2> QED BY <1>9, <2>1, WipedIInv DEF Reload
<1>10. CASE UNCHANGED vars
  BY <1>10 DEF vars, tile, IInv, TypeOK, RingShape, NoResidue, Live, SingleHolder,
               ModeMatchesMarks, SwingCovers
<1> QED
  BY <1>1, <1>2, <1>3, <1>4, <1>5, <1>6, <1>7, <1>8, <1>9, <1>10 DEF Next, Operation

(* The inductive invariant holds of every behaviour.                       *)
THEOREM Invariance == Spec => []IInv
  BY InitIInv, StepIInv, PTL DEF Spec

(* The state keeps its types: pointers inside the ring, the fill count     *)
(* between empty and full, replies that carry a block or nothing.          *)
THEOREM TypeCorrect == Spec => []TypeOK
  BY Invariance, PTL DEF IInv

(* Zeroization: tile memory holds entropy in exactly the slots between the *)
(* tail and the head, so drained and wiped blocks are gone.                *)
THEOREM ZeroResidue == Spec => []NoResidue
  BY Invariance, PTL DEF IInv

(* No block of entropy is ever in two places, so no two drains, of one     *)
(* process or of two, hand out the same block.                             *)
THEOREM SingleHolding == Spec => []SingleHolder
  BY Invariance, PTL DEF IInv

(* Outside the hysteresis band the mode is the one its water mark calls    *)
(* for.                                                                    *)
THEOREM ModeCorrect == Spec => []ModeMatchesMarks
  BY Invariance, PTL DEF IInv

-----------------------------------------------------------------------------
(* A transfer that flips the mode is at the far side of the band: all its  *)
(* width has moved since the last flip.                                    *)
LEMMA FlipAcrossBand ==
  ASSUME IInv, [Next]_vars, mode' # mode, fill' = fill + 1 \/ fill' = fill - 1
  PROVE  swing + 1 >= Span
<1>1. /\ fill \in 0 .. RESERVOIR_CAPACITY /\ swing \in 0 .. Span
      /\ mode \in {"FULL_HYBRID", "DEGRADED_A"}
  BY DEF IInv, TypeOK, Modes
<1>2. CASE \E c \in Clients : IngressStored(c)
  BY <1>1, <1>2, MarksAssumption
     DEF IngressStored, ModeAfterIngress, IInv, SwingCovers, Span
<1>3. CASE \E c \in Clients : DrainBlock(c)
  BY <1>1, <1>3, MarksAssumption
     DEF DrainBlock, ModeAfterDrain, IInv, SwingCovers, Span
<1>4. CASE Wiped
  BY <1>1, <1>4, MarksAssumption
     DEF Wiped, IInv, SwingCovers, Span
<1>5. CASE UNCHANGED tile
  BY <1>5 DEF tile
<1> QED
  BY <1>2, <1>3, <1>4, <1>5
     DEF Next, Operation, Fetch, IngressRaises, IngressRefused, DrainEmpty, Status,
         Zeroize, Reload, vars

(* Between two mode changes made by transfers the fill crosses the whole   *)
(* band, for every pair of water marks.                                    *)
THEOREM AntiFlapping == Spec => NoFlapping
<1>1. IInv /\ [Next]_vars
        => [mode' # mode /\ (fill' = fill + 1 \/ fill' = fill - 1) => swing + 1 >= Span]_vars
  BY FlipAcrossBand
<1> QED BY <1>1, Invariance, PTL DEF Spec, NoFlapping

-----------------------------------------------------------------------------
(* What the refinement mapping shows of the ring: the blocks held.         *)
ContentsOK ==
  /\ Contents \in Seq(Blocks)
  /\ Len(Contents) = fill
  /\ \A k \in 1 .. fill :
       Contents[k] = reservoir[(tail + k - 1) % RESERVOIR_CAPACITY]

(* The mapping gives a sequence of blocks, as long as the fill count, that *)
(* starts at the tail.                                                     *)
LEMMA ContentsSeq == IInv => ContentsOK
<1> SUFFICES ASSUME IInv PROVE ContentsOK
  OBVIOUS
<1>1. fill \in Nat /\ fill <= RESERVOIR_CAPACITY /\ tail \in Slots
  BY MarksAssumption DEF IInv, TypeOK
<1>2. ASSUME NEW k \in 1 .. fill
      PROVE  reservoir[(tail + k - 1) % RESERVOIR_CAPACITY] \in Blocks
  <2>1. /\ tail \in Nat /\ k - 1 \in Nat /\ tail + (k - 1) < 2 * RESERVOIR_CAPACITY
        /\ tail + (k - 1) = tail + k - 1
    BY <1>1, MarksAssumption DEF Slots
  <2>2. (tail + (k - 1)) % RESERVOIR_CAPACITY
          = IF tail + (k - 1) < RESERVOIR_CAPACITY THEN tail + (k - 1)
            ELSE tail + (k - 1) - RESERVOIR_CAPACITY
    BY <2>1, WrapSum
  <2> DEFINE i == (tail + k - 1) % RESERVOIR_CAPACITY
  <2>3. i \in Slots /\ Live(i)
    BY <1>1, <2>1, <2>2, MarksAssumption DEF Slots, Live
  <2> QED BY <2>3 DEF IInv, TypeOK, NoResidue
<1> QED BY <1>1, <1>2 DEF Contents, ContentsOK

(* The slot a block of the queue lies in moves neither when a block is     *)
(* appended behind it nor, counted from the new tail, when one is taken.   *)
LEMMA StoredAppends ==
  ASSUME IInv, NEW c \in Clients, IngressStored(c)
  PROVE  Queue!Offer(c)
<1>1. PICK s \in fetched[c], status \in {"SUCCESS", "EXCEPTION"} :
        /\ HasRoom(fill)
        /\ reservoir' = [reservoir EXCEPT ![head] = s.block]
        /\ fill' = fill + 1
        /\ Answer(c, status, Zero)
        /\ tail' = tail
  BY DEF IngressStored
<1>2. s.block \in Blocks
  BY FetchedBlock DEF IInv
<1>3. fill \in Nat /\ fill < RESERVOIR_CAPACITY /\ tail \in Slots /\ head \in Slots
  BY <1>1, MarksAssumption DEF IInv, TypeOK, HasRoom
<1>4. IInv'
  BY StoredIInv
<1>5. /\ Contents' \in Seq(Blocks)
      /\ Len(Contents') = fill + 1
      /\ \A k \in 1 .. fill + 1 :
           Contents'[k] = reservoir'[(tail + k - 1) % RESERVOIR_CAPACITY]
  <2>1. /\ Contents' \in Seq(Blocks)
        /\ Len(Contents') = fill'
        /\ \A k \in 1 .. fill' :
             Contents'[k] = reservoir'[(tail' + k - 1) % RESERVOIR_CAPACITY]
    <3>1. ContentsOK'
      BY <1>4, ContentsSeq, PTL
    <3> QED BY <3>1 DEF ContentsOK
  <2> QED BY <1>1, <2>1
<1>6. ASSUME NEW k \in 1 .. fill
      PROVE  /\ (tail + k - 1) % RESERVOIR_CAPACITY \in Slots
             /\ (tail + k - 1) % RESERVOIR_CAPACITY # head
  <2>1. /\ tail \in Nat /\ k - 1 \in Nat /\ tail + (k - 1) < 2 * RESERVOIR_CAPACITY
        /\ tail + (k - 1) = tail + k - 1
    BY <1>3, MarksAssumption DEF Slots
  <2>2. (tail + (k - 1)) % RESERVOIR_CAPACITY
          = IF tail + (k - 1) < RESERVOIR_CAPACITY THEN tail + (k - 1)
            ELSE tail + (k - 1) - RESERVOIR_CAPACITY
    BY <2>1, WrapSum
  <2>3. tail + fill < 2 * RESERVOIR_CAPACITY /\ tail \in Nat
    BY <1>3, MarksAssumption DEF Slots
  <2>4. head = IF tail + fill < RESERVOIR_CAPACITY THEN tail + fill
               ELSE tail + fill - RESERVOIR_CAPACITY
    BY <1>3, <2>3, WrapSum DEF IInv, RingShape
  <2> QED BY <1>3, <2>1, <2>2, <2>4, MarksAssumption DEF Slots
<1>7. Contents' = Append(Contents, s.block)
  <2>1. /\ Contents \in Seq(Blocks) /\ Len(Contents) = fill
        /\ \A k \in 1 .. fill :
              Contents[k] = reservoir[(tail + k - 1) % RESERVOIR_CAPACITY]
    BY ContentsSeq DEF ContentsOK
  <2>2. \A k \in 1 .. fill : Contents'[k] = Contents[k]
    BY <1>1, <1>3, <1>5, <1>6, <2>1 DEF IInv, TypeOK
  <2>3. Contents'[fill + 1] = s.block
    <3>1. (tail + (fill + 1) - 1) % RESERVOIR_CAPACITY = head
      BY <1>3, MarksAssumption DEF IInv, RingShape, Slots
    <3> QED BY <1>1, <1>3, <1>5, <3>1 DEF IInv, TypeOK
  <2> QED BY <1>2, <1>3, <1>5, <2>1, <2>2, <2>3
<1>8. Len(Contents) < RESERVOIR_CAPACITY
  BY <1>3, ContentsSeq DEF ContentsOK
<1>9. [d \in Clients |-> reply[d].payload]'
        = [[d \in Clients |-> reply[d].payload] EXCEPT ![c] = Zero]
  BY <1>1 DEF Answer, IInv, TypeOK
<1> QED BY <1>2, <1>7, <1>8, <1>9 DEF Queue!Offer

(* A drain takes the first block of the queue and hands it to its client.  *)
LEMMA DrainTakes ==
  ASSUME IInv, NEW c \in Clients, DrainBlock(c)
  PROVE  Queue!Take(c)
<1>1. PICK status \in {"SUCCESS", "EXCEPTION"}, given \in {reservoir[tail], Zero} :
      /\ fill # 0
      /\ Answer(c, status, given)
      /\ reservoir' = [reservoir EXCEPT ![tail] = Zero]
      /\ tail' = Advance(tail)
      /\ fill' = fill - 1
  BY DEF DrainBlock, Scrub
<1>2. fill \in Nat /\ 1 <= fill /\ fill <= RESERVOIR_CAPACITY /\ tail \in Slots
  BY <1>1, MarksAssumption DEF IInv, TypeOK
<1>3. IInv'
  BY DrainIInv
<1>4. /\ Contents \in Seq(Blocks) /\ Len(Contents) = fill
      /\ \A k \in 1 .. fill :
            Contents[k] = reservoir[(tail + k - 1) % RESERVOIR_CAPACITY]
  BY ContentsSeq DEF ContentsOK
<1>5. /\ Contents' \in Seq(Blocks)
      /\ Len(Contents') = fill'
      /\ \A k \in 1 .. fill' :
           Contents'[k] = reservoir'[(tail' + k - 1) % RESERVOIR_CAPACITY]
  <2>1. ContentsOK'
    BY <1>3, ContentsSeq, PTL
  <2> QED BY <2>1 DEF ContentsOK
<1>6. ASSUME NEW k \in 1 .. fill - 1
      PROVE  /\ (tail' + k - 1) % RESERVOIR_CAPACITY
                   = (tail + (k + 1) - 1) % RESERVOIR_CAPACITY
             /\ (tail' + k - 1) % RESERVOIR_CAPACITY \in Slots
             /\ (tail' + k - 1) % RESERVOIR_CAPACITY # tail
  <2>1. /\ tail' \in Nat /\ tail \in Nat /\ k - 1 \in Nat /\ k \in Nat
        /\ tail' + (k - 1) < 2 * RESERVOIR_CAPACITY
        /\ tail + k < 2 * RESERVOIR_CAPACITY
        /\ tail' + (k - 1) = tail' + k - 1
        /\ tail + k = tail + (k + 1) - 1
    BY <1>1, <1>2, AdvanceSlot, MarksAssumption DEF Slots
  <2>2. (tail' + (k - 1)) % RESERVOIR_CAPACITY
          = IF tail' + (k - 1) < RESERVOIR_CAPACITY THEN tail' + (k - 1)
            ELSE tail' + (k - 1) - RESERVOIR_CAPACITY
    BY <2>1, WrapSum
  <2>3. (tail + k) % RESERVOIR_CAPACITY
          = IF tail + k < RESERVOIR_CAPACITY THEN tail + k ELSE tail + k - RESERVOIR_CAPACITY
    BY <2>1, WrapSum
  <2> QED
    BY <1>1, <1>2, <2>1, <2>2, <2>3, AdvanceSlot, MarksAssumption DEF Slots
<1>7. Contents' = Tail(Contents)
  <2>1. \A k \in 1 .. fill - 1 : Contents'[k] = Contents[k + 1]
    <3> SUFFICES ASSUME NEW k \in 1 .. fill - 1 PROVE Contents'[k] = Contents[k + 1]
      OBVIOUS
    <3>1. Contents'[k] = reservoir'[(tail' + k - 1) % RESERVOIR_CAPACITY]
      BY <1>1, <1>5
    <3>2. k + 1 \in 1 .. fill
      BY <1>2
    <3>3. Contents[k + 1] = reservoir[(tail + (k + 1) - 1) % RESERVOIR_CAPACITY]
      BY <1>4, <3>2
    <3> QED BY <1>1, <1>6, <3>1, <3>3 DEF IInv, TypeOK
  <2> QED BY <1>1, <1>2, <1>4, <1>5, <2>1
<1>8. Head(Contents) = reservoir[tail]
  <2>1. (tail + 1 - 1) % RESERVOIR_CAPACITY = tail
    BY <1>2, WrapAround, MarksAssumption DEF Slots
  <2> QED BY <1>2, <1>4, <2>1
<1>9. Contents # <<>>
  BY <1>1, <1>4
<1>10. [d \in Clients |-> reply[d].payload]'
        = [[d \in Clients |-> reply[d].payload] EXCEPT ![c] = given]
  BY <1>1, <1>8 DEF Answer, IInv, TypeOK
<1>11. given \in {Head(Contents), Zero}
  BY <1>8
<1> QED BY <1>7, <1>9, <1>10, <1>11 DEF Queue!Take

(* Every step of the reservoir is a step of the queue or leaves it alone.  *)
LEMMA StepRefines ==
  ASSUME IInv, [Next]_vars
  PROVE  [Queue!QNext]_(Queue!qvars)
<1> DEFINE got == [d \in Clients |-> reply[d].payload]
<1>1. ASSUME UNCHANGED <<reservoir, tail, fill>> PROVE Contents' = Contents
  BY <1>1 DEF Contents
<1>2. ASSUME NEW c \in Clients, NEW st, Answer(c, st, Zero),
             UNCHANGED <<reservoir, tail, fill>>
      PROVE  Queue!Pass(c)
  <2>1. got' = [got EXCEPT ![c] = Zero]
    BY <1>2 DEF Answer, IInv, TypeOK
  <2> QED BY <1>1, <1>2, <2>1 DEF Queue!Pass
<1>3. ASSUME Wiped PROVE Contents' = <<>>
  <2>1. fill' = 0
    BY <1>3 DEF Wiped
  <2>2. Contents' = [k \in 1 .. fill' |-> reservoir'[(tail' + k - 1) % RESERVOIR_CAPACITY]]
    BY DEF Contents
  <2> QED BY <2>1, <2>2
<1>4. ASSUME NEW c \in Clients, Fetch(c) PROVE UNCHANGED Queue!qvars
  BY <1>1, <1>4 DEF Fetch, tile, Queue!qvars
<1>5. ASSUME NEW c \in Clients,
             IngressRaises(c) \/ IngressRefused(c) \/ DrainEmpty(c) \/ Status(c)
      PROVE  Queue!Pass(c)
  <2>1. UNCHANGED <<reservoir, tail, fill>>
    BY <1>5 DEF IngressRaises, IngressRefused, DrainEmpty, Status, tile
  <2>2. \E st \in Statuses : Answer(c, st, Zero)
    BY <1>5 DEF IngressRaises, IngressRefused, DrainEmpty, Status, Statuses
  <2> QED BY <1>2, <2>1, <2>2
<1>6. ASSUME NEW c \in Clients, Zeroize(c) PROVE Queue!Wipe(c)
  <2>1. PICK status \in {"TAMPER_ZEROIZED", "EXCEPTION"} : Answer(c, status, Zero)
    BY <1>6 DEF Zeroize
  <2>2. got' = [got EXCEPT ![c] = Zero]
    BY <2>1 DEF Answer, IInv, TypeOK
  <2> QED BY <1>3, <1>6, <2>2 DEF Zeroize, Queue!Wipe
<1>7. ASSUME Reload PROVE Queue!Lose
  BY <1>3, <1>7 DEF Reload, Queue!Lose
<1>8. ASSUME UNCHANGED vars PROVE UNCHANGED Queue!qvars
  BY <1>1, <1>8 DEF vars, tile, Queue!qvars
<1> QED
  BY <1>4, <1>5, <1>6, <1>7, <1>8, StoredAppends, DrainTakes
     DEF Next, Operation, Queue!QNext

(* The ring buffer, its pointers and its wrap-around implement the bounded *)
(* first-in first-out queue, for every capacity.                           *)
THEOREM RefinesQueue == Spec => ImplementsQueue
<1>1. Init => Queue!QInit
  BY DEF Init, Queue!QInit, Contents
<1>2. IInv /\ [Next]_vars => [Queue!QNext]_(Queue!qvars)
  BY StepRefines
<1> QED BY <1>1, <1>2, Invariance, PTL DEF Spec, ImplementsQueue, Queue!QSpec
=============================================================================
