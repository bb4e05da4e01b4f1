--------------------------- MODULE QkdKeyRingProofs ---------------------------
(***************************************************************************)
(* Proofs about QkdKeyRing, for every set of processes and of keys and     *)
(* every range of epochs: what the ring holds, and which epochs it has     *)
(* taken.                                                                  *)
(***************************************************************************)
EXTENDS QkdKeyRing, TLAPS

(* The counter and the last epoch are those of the keys accepted.          *)
CounterCounts == active_slot = Len(accepted) % RingSize
LastIsLast ==
  last_epoch = IF accepted = <<>> THEN 0 ELSE accepted[Len(accepted)].epoch
QInv == QTypeOK /\ CounterCounts /\ LastIsLast /\ RingHoldsTheLast /\ EpochsGoUp

Accepted == [epoch : Epochs, key : Keys]

(* Numbers less than four apart have different remainders.                 *)
LEMMA OwnSlot ==
  ASSUME NEW a \in Nat, NEW b \in Nat, a < b, b - a < 4
  PROVE  a % 4 # b % 4
OBVIOUS

LEMMA NextSlot ==
  ASSUME NEW n \in Nat
  PROVE  /\ n % 4 \in 0 .. 3
         /\ (n + 1) % 4 = ((n % 4) + 1) % 4
         /\ n < 4 => n % 4 = n
OBVIOUS

(* Steps that leave the kernel alone.                                      *)
LEMMA KernelAlone ==
  ASSUME QInv, QTypeOK', UNCHANGED kernel
  PROVE  QInv'
BY DEF QInv, CounterCounts, LastIsLast, RingHoldsTheLast, EpochsGoUp, kernel

(* What a client is told is an answer.                                     *)
LEMMA AnsweredTypes ==
  ASSUME QTypeOK, NEW c \in Clients, NEW answer \in Replies, Answered(c, answer)
  PROVE  /\ reply' \in [Clients -> Replies]
         /\ fetched' \in [Clients -> Keys \cup {Zeros}]
         /\ key_store' \subseteq Keys
<1>1. Reply("EXCEPTION", 0, Zeros) \in Replies
  BY DEF Reply, Replies, QStatuses, RingSlots, RingSize
<1> QED BY <1>1 DEF Answered, QTypeOK

LEMMA InitInv == QInit => QInv
<1> SUFFICES ASSUME QInit PROVE QInv
  OBVIOUS
<1>1. Reply("NONE", 0, Zeros) \in Replies
  BY DEF Reply, Replies, QStatuses, RingSlots, RingSize
<1>2. QTypeOK
  BY <1>1 DEF QInit, QTypeOK, RingSlots, RingSize
<1>3. Len(accepted) = 0 /\ accepted = <<>>
  BY DEF QInit
<1>4. CounterCounts /\ LastIsLast
  BY <1>3 DEF QInit, CounterCounts, LastIsLast, RingSize
<1>5. RingHoldsTheLast /\ EpochsGoUp
  BY <1>3 DEF QInit, RingHoldsTheLast, EpochsGoUp
<1> QED BY <1>2, <1>4, <1>5 DEF QInv

LEMMA ReloadKeepsInv ==
  ASSUME QInv, QReload
  PROVE  QInv'
<1>1. QTypeOK'
  BY DEF QInv, QReload, QTypeOK, RingSlots, RingSize
<1>2. Len(accepted') = 0 /\ accepted' = <<>>
  BY DEF QReload
<1>3. CounterCounts' /\ LastIsLast'
  BY <1>2 DEF QReload, CounterCounts, LastIsLast, RingSize
<1>4. RingHoldsTheLast' /\ EpochsGoUp'
  BY <1>2 DEF QReload, RingHoldsTheLast, EpochsGoUp
<1> QED BY <1>1, <1>3, <1>4 DEF QInv

-----------------------------------------------------------------------------
(* A key is accepted: it takes the place of the oldest of four, under an   *)
(* epoch above the last, or 0 when that was 0.                             *)
LEMMA AcceptedKeepsInv ==
  ASSUME MaxEpoch \in Nat, QInv, NEW c \in Clients, NEW epoch \in Epochs,
         IngressAccepted(c, epoch)
  PROVE  QInv'
<1> DEFINE n == Len(accepted)
           e == Envelope(epoch, fetched[c])
<1>1. QTypeOK /\ CounterCounts /\ LastIsLast /\ RingHoldsTheLast /\ EpochsGoUp
  BY DEF QInv
<1>2. fetched[c] \in Keys /\ e \in Accepted /\ e.epoch = epoch /\ e.key = fetched[c]
  BY <1>1 DEF IngressAccepted, QTypeOK, Envelope, Accepted
<1>3. accepted \in Seq(Accepted) /\ accepted' = Append(accepted, e)
  BY <1>1 DEF QTypeOK, Accepted, IngressAccepted
<1> HIDE DEF e
<1>4. /\ n \in Nat /\ Len(accepted') = n + 1
      /\ accepted'[n + 1] = e
      /\ \A i \in 1 .. n : accepted'[i] = accepted[i] /\ accepted[i] \in Accepted
  BY <1>2, <1>3
<1>5. active_slot = n % 4 /\ active_slot \in 0 .. 3 /\ active_slot' = (n + 1) % 4
  BY <1>1, <1>4, NextSlot DEF CounterCounts, RingSize, IngressAccepted
<1>6. active_slot' \in RingSlots
  BY <1>4, <1>5, NextSlot DEF RingSlots, RingSize
<1>7. ring' = [ring EXCEPT ![n % 4] = e.key] /\ ring \in [0 .. 3 -> Keys \cup {Zeros}]
  BY <1>1, <1>2, <1>5 DEF IngressAccepted, QTypeOK, RingSlots, RingSize
<1>8. QTypeOK'
  <2>1. Reply("SUCCESS", active_slot', fetched[c]) \in Replies
    BY <1>2, <1>6 DEF Reply, Replies, QStatuses
  <2>2. /\ reply' \in [Clients -> Replies]
        /\ fetched' \in [Clients -> Keys \cup {Zeros}]
        /\ key_store' \subseteq Keys
    BY <1>1, <2>1, AnsweredTypes DEF IngressAccepted
  <2>3. ring' \in [RingSlots -> Keys \cup {Zeros}]
    BY <1>2, <1>7 DEF RingSlots, RingSize
  <2>4. accepted' \in Seq([epoch : Epochs, key : Keys])
    BY <1>2, <1>3 DEF Accepted
  <2>5. last_epoch' \in Epochs \cup {0}
    BY DEF IngressAccepted
  <2> QED BY <1>6, <2>2, <2>3, <2>4, <2>5 DEF QTypeOK
<1>9. CounterCounts' /\ LastIsLast'
  <2>1. CounterCounts'
    BY <1>4, <1>5 DEF CounterCounts, RingSize
  <2>2. last_epoch' = epoch /\ accepted' # <<>>
    BY <1>3, <1>4 DEF IngressAccepted
  <2> QED BY <1>2, <1>4, <2>1, <2>2 DEF LastIsLast
<1>10. RingHoldsTheLast'
  <2>1. ASSUME NEW i \in 1 .. n + 1, n + 1 - i < 4
        PROVE  ring'[(i - 1) % 4] = accepted'[i].key
    <3>1. CASE i = n + 1
      BY <1>4, <1>7, <3>1, NextSlot
    <3>2. CASE i \in 1 .. n
      <4>1. i - 1 \in Nat /\ i - 1 < n /\ n - (i - 1) < 4
        BY <1>4, <2>1, <3>2
      <4>2. (i - 1) % 4 # n % 4 /\ (i - 1) % 4 \in 0 .. 3
        BY <1>4, <4>1, OwnSlot, NextSlot
      <4>3. ring[(i - 1) % 4] = accepted[i].key
        BY <1>1, <1>4, <2>1, <3>2 DEF RingHoldsTheLast, RingSize
      <4> QED BY <1>4, <1>7, <3>2, <4>2, <4>3
    <3> QED BY <1>4, <2>1, <3>1, <3>2
  <2>2. ASSUME NEW s \in 0 .. 3, s >= n + 1
        PROVE  ring'[s] = Zeros
    <3>1. s # n % 4 /\ s >= n
      BY <1>4, <2>2, NextSlot
    <3>2. ring[s] = Zeros
      BY <1>1, <3>1 DEF RingHoldsTheLast, RingSlots, RingSize
    <3> QED BY <1>7, <3>1, <3>2
  <2> QED BY <1>4, <2>1, <2>2 DEF RingHoldsTheLast, RingSlots, RingSize
<1>11. EpochsGoUp'
  <2> SUFFICES ASSUME NEW i \in 1 .. n + 1, NEW j \in 1 .. n + 1, i < j
               PROVE  \/ accepted'[i].epoch < accepted'[j].epoch
                      \/ accepted'[i].epoch = 0 /\ accepted'[j].epoch = 0
    BY <1>4 DEF EpochsGoUp
  <2>1. i \in 1 .. n
    BY <1>4
  <2>2. CASE j \in 1 .. n
    BY <1>1, <1>4, <2>1, <2>2 DEF EpochsGoUp
  <2>3. CASE j = n + 1
    <3>1. last_epoch = accepted[n].epoch /\ n \in 1 .. n
      BY <1>1, <1>4, <2>1 DEF LastIsLast
    <3>2. \A x \in Accepted : x.epoch \in Nat
      BY DEF Accepted, Epochs
    <3>3. accepted[i].epoch \in Nat /\ last_epoch \in Nat /\ epoch \in Nat
      BY <1>4, <2>1, <3>1, <3>2 DEF Epochs
    <3>4. accepted[i].epoch <= last_epoch
      BY <1>1, <2>1, <3>1, <3>3, <1>4 DEF EpochsGoUp
    <3>5. epoch > last_epoch \/ last_epoch = 0
      BY <3>3 DEF IngressAccepted, Stale
    <3> QED BY <1>2, <1>4, <2>1, <2>3, <3>3, <3>4, <3>5
  <2> QED BY <1>4, <2>2, <2>3
<1> QED BY <1>8, <1>9, <1>10, <1>11 DEF QInv

-----------------------------------------------------------------------------
LEMMA NextKeepsInv ==
  ASSUME MaxEpoch \in Nat, QInv, [QNext]_qvars
  PROVE  QInv'
<1> USE DEF QInv
<1>1. CASE UNCHANGED qvars
  <2>1. QTypeOK' /\ UNCHANGED kernel
    BY <1>1 DEF QTypeOK, qvars, kernel
  <2> QED BY <2>1, KernelAlone
<1>2. CASE QReload
  BY <1>2, ReloadKeepsInv
<1>3. ASSUME NEW c \in Clients, GetEncKey(c) \/ EncKeyTimesOut(c) \/ GetDecKey(c)
      PROVE  QInv'
  <2>1. QTypeOK' /\ UNCHANGED kernel
    BY <1>3 DEF GetEncKey, EncKeyTimesOut, GetDecKey, QTypeOK, kernel
  <2> QED BY <2>1, KernelAlone
<1>4. ASSUME NEW c \in Clients, NEW status \in QStatuses,
             Answered(c, Reply(status, 0, Zeros)), UNCHANGED kernel
      PROVE  QInv'
  <2>1. Reply(status, 0, Zeros) \in Replies
    BY DEF Reply, Replies, RingSlots, RingSize
  <2>2. QTypeOK'
    BY <1>4, <2>1, AnsweredTypes DEF QTypeOK, kernel
  <2> QED BY <1>4, <2>2, KernelAlone
<1>5. ASSUME NEW c \in Clients, IngressForeign(c) \/ IngressRaises(c)
      PROVE  QInv'
  BY <1>4, <1>5 DEF IngressForeign, IngressRaises, QStatuses
<1>6. ASSUME NEW c \in Clients, NEW epoch \in Epochs, IngressStale(c, epoch)
      PROVE  QInv'
  BY <1>4, <1>6 DEF IngressStale, QStatuses
<1>7. ASSUME NEW c \in Clients, NEW epoch \in Epochs, IngressAccepted(c, epoch)
      PROVE  QInv'
  BY <1>7, AcceptedKeepsInv
<1> QED BY <1>1, <1>2, <1>3, <1>5, <1>6, <1>7 DEF QNext

LEMMA AlwaysQInv ==
  ASSUME MaxEpoch \in Nat
  PROVE  QSpec => []QInv
BY InitInv, NextKeepsInv, PTL DEF QSpec

(* The kernel's statics and what clients hold are of their types.          *)
THEOREM QTypesHold ==
  ASSUME MaxEpoch \in Nat
  PROVE  QSpec => []QTypeOK
<1>1. QInv => QTypeOK
  BY DEF QInv
<1> QED BY <1>1, AlwaysQInv, PTL

(* The ring always has the last four keys accepted, in their turn.         *)
THEOREM RingIsAWindow ==
  ASSUME MaxEpoch \in Nat
  PROVE  QSpec => []RingHoldsTheLast
<1>1. QInv => RingHoldsTheLast
  BY DEF QInv
<1> QED BY <1>1, AlwaysQInv, PTL

(* No positive epoch is accepted twice in one context, and no epoch after  *)
(* a larger one.                                                           *)
THEOREM NoEpochTwice ==
  ASSUME MaxEpoch \in Nat
  PROVE  QSpec => []EpochsGoUp
<1>1. QInv => EpochsGoUp
  BY DEF QInv
<1> QED BY <1>1, AlwaysQInv, PTL
=============================================================================
