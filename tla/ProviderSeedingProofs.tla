------------------------ MODULE ProviderSeedingProofs ------------------------
(***************************************************************************)
(* For every set of clients, every reservoir and every number of outputs:  *)
(* the provider's calls are behaviours of the reservoir, so its theorems   *)
(* hold under them; no entropy block becomes a seed twice; and a seed is   *)
(* 32 zero bytes exactly when its drain answered RESERVOIR_EMPTY.          *)
(***************************************************************************)
EXTENDS ProviderSeeding, QrngReservoirProofs, SequenceTheorems

-----------------------------------------------------------------------------
(* The places of block b: seed k of output i, and seed k of c's call.      *)
InOutput(i, k, b) == k \in DOMAIN outputs[i] /\ outputs[i][k].bytes = b
InCall(c, k, b) == k \in DOMAIN job[c].seeds /\ job[c].seeds[k].bytes = b

(* A block has one place at most.                                          *)
OnePlace ==
  \A b \in Blocks :
    /\ \A i, j \in DOMAIN outputs : \A k, l \in 1 .. 2 :
         InOutput(i, k, b) /\ InOutput(j, l, b) => i = j /\ k = l
    /\ \A c, d \in Clients : \A k, l \in 1 .. 2 :
         InCall(c, k, b) /\ InCall(d, l, b) => c = d /\ k = l
    /\ \A i \in DOMAIN outputs, c \in Clients : \A k, l \in 1 .. 2 :
         ~(InOutput(i, k, b) /\ InCall(c, l, b))

(* A block that is a seed is not on the tile, and in no container that a   *)
(* client has still to push: this is what keeps it from coming back.       *)
Spent(b) ==
  \/ \E i \in DOMAIN outputs : \E k \in 1 .. 2 : InOutput(i, k, b)
  \/ \E c \in Clients : \E k \in 1 .. 2 : InCall(c, k, b)

SpentIsGone ==
  \A b \in Blocks :
    Spent(b) =>
      /\ \A i \in Slots : reservoir[i] # b
      /\ \A c \in Clients : \A s \in fetched[c] : s.block # b

(* Seeds whose status tells the zero ones apart.                           *)
Honest(seeds) ==
  \A k \in DOMAIN seeds : seeds[k].bytes = Zero <=> seeds[k].status = "RESERVOIR_EMPTY"

AllHonest ==
  /\ \A i \in DOMAIN outputs : Honest(outputs[i])
  /\ \A c \in Clients : Honest(job[c].seeds)

(* The inductive invariant of the provider over the reservoir's.           *)
SeedInv ==
  /\ IInv
  /\ PTypeOK
  /\ OnePlace
  /\ SpentIsGone
  /\ AllHonest

-----------------------------------------------------------------------------
(* A sequence of at most two seeds, by its length and its members.         *)
SeedRecords == [bytes : SeedBytes, status : Statuses]

LEMMA SeedSequencesChar ==
  ASSUME NEW s
  PROVE  s \in SeedSequences <=> s \in Seq(SeedRecords) /\ Len(s) <= 2
<1>1. ASSUME s \in SeedSequences PROVE s \in Seq(SeedRecords) /\ Len(s) <= 2
  <2>1. PICK n \in 0 .. 2 : s \in [1 .. n -> SeedRecords]
    BY <1>1 DEF SeedSequences, SeedRecords
  <2> QED BY <2>1
<1>2. ASSUME s \in Seq(SeedRecords), Len(s) <= 2 PROVE s \in SeedSequences
  <2>1. Len(s) \in 0 .. 2 /\ s \in [1 .. Len(s) -> SeedRecords]
    <3>1. Len(s) \in Nat /\ s \in [1 .. Len(s) -> SeedRecords]
      BY <1>2, LenProperties
    <3> QED BY <1>2, <3>1
  <2> QED BY <2>1 DEF SeedSequences, SeedRecords
<1> QED BY <1>1, <1>2

(* The positions and the members of such a sequence.                       *)
LEMMA SeedPositions ==
  ASSUME NEW s \in SeedSequences
  PROVE  /\ Len(s) \in 0 .. 2
         /\ DOMAIN s = 1 .. Len(s)
         /\ \A k \in DOMAIN s : k \in 1 .. 2 /\ s[k].bytes \in SeedBytes
<1>1. s \in Seq(SeedRecords) /\ Len(s) <= 2
  BY SeedSequencesChar
<1>2. /\ Len(s) \in Nat /\ DOMAIN s = 1 .. Len(s)
      /\ \A k \in DOMAIN s : s[k] \in SeedRecords
  BY <1>1, LenProperties
<1> QED BY <1>1, <1>2 DEF SeedRecords

(* All seeds of one kind, as os.urandom and the caller give them.          *)
LEMMA UniformSeeds ==
  ASSUME NEW n \in 0 .. 2, NEW b \in SeedBytes, NEW st \in Statuses
  PROVE  [i \in 1 .. n |-> Seed(b, st)] \in SeedSequences
  BY DEF SeedSequences, Seed

(* The places in an output or a call are the first and the second.         *)
LEMMA PlaceBounds ==
  ASSUME PTypeOK
  PROVE  /\ \A i \in DOMAIN outputs : outputs[i] \in SeedSequences
         /\ \A c \in Clients : job[c].seeds \in SeedSequences /\ job[c].need \in 0 .. 2
  BY DEF PTypeOK

(* The entropy blocks among the seeds, by their places.                    *)
LEMMA HeldIsSpent ==
  ASSUME PTypeOK, NEW b
  PROVE  b \in SeedsHeld <=> Spent(b)
<1>1. ASSUME NEW c \in Clients
      PROVE  b \in BlocksIn(job[c].seeds) <=> \E k \in 1 .. 2 : InCall(c, k, b)
  BY PlaceBounds, SeedPositions DEF BlocksIn, InCall
<1>2. ASSUME NEW i \in DOMAIN outputs
      PROVE  b \in BlocksIn(outputs[i]) <=> \E k \in 1 .. 2 : InOutput(i, k, b)
  BY PlaceBounds, SeedPositions DEF BlocksIn, InOutput
<1>3. b \in SeedsHeld <=> (\E c \in Clients : b \in BlocksIn(job[c].seeds))
                           \/ (\E i \in DOMAIN outputs : b \in BlocksIn(outputs[i]))
  BY Zenon DEF SeedsHeld
<1> QED BY <1>1, <1>2, <1>3 DEF Spent

-----------------------------------------------------------------------------
(* Every step of the provider is a step of the reservoir or leaves it      *)
(* alone.                                                                  *)
LEMMA StepIsReservoirStep ==
  ASSUME [PNext]_pvars
  PROVE  [Next]_vars
<1>1. CASE Reload
  BY <1>1 DEF Next
<1>2. ASSUME NEW c \in Clients, Direct(c) PROVE Next
  BY <1>2 DEF Direct, Next
<1>3. ASSUME NEW c \in Clients, DrainSeed(c) PROVE Next
  BY <1>3 DEF DrainSeed, Next, Operation
<1>4. ASSUME NEW c \in Clients, DrainRaises(c) PROVE [Next]_vars
  BY <1>4 DEF DrainRaises, Next, Operation
<1> QED
  BY <1>1, <1>2, <1>3, <1>4
     DEF PNext, pvars, Call, CallWithSeeds, Produce, ProduceRaises

(* The provider and its clients, seen from the tile, are clients of the    *)
(* reservoir: every theorem about the reservoir holds under the provider.  *)
THEOREM ProviderIsClient == PSpec => Spec
<1>1. PInit => Init
  BY DEF PInit
<1>2. [PNext]_pvars => [Next]_vars
  BY StepIsReservoirStep
<1> QED BY <1>1, <1>2, PTL DEF PSpec, Spec

(* In particular the ring stays a first-in first-out queue, whatever calls *)
(* drain it.                                                               *)
THEOREM ProviderQueue == PSpec => ImplementsQueue
  BY ProviderIsClient, RefinesQueue

-----------------------------------------------------------------------------
(* What a step of the reservoir may put in a slot: what was there, zeros,  *)
(* or a container that a client has fetched.                               *)
LEMMA SlotsMove ==
  ASSUME IInv, [Next]_vars, NEW i \in Slots
  PROVE  \/ reservoir'[i] \in {reservoir[i], Zero}
         \/ \E c \in Clients : \E s \in fetched[c] : reservoir'[i] = s.block
<1>1. reservoir \in [Slots -> Blocks \cup {Zero}] /\ head \in Slots /\ tail \in Slots
  BY DEF IInv, TypeOK
<1>2. ASSUME NEW c \in Clients, IngressStored(c)
      PROVE  \/ reservoir'[i] = reservoir[i]
             \/ \E s \in fetched[c] : reservoir'[i] = s.block
  BY <1>1, <1>2 DEF IngressStored
<1>3. ASSUME NEW c \in Clients, DrainBlock(c) PROVE reservoir'[i] \in {reservoir[i], Zero}
  BY <1>1, <1>3 DEF DrainBlock, Scrub
<1>4. CASE Wiped
  BY <1>4 DEF Wiped
<1>5. CASE UNCHANGED tile
  BY <1>5 DEF tile
<1> QED
  BY <1>2, <1>3, <1>4, <1>5
     DEF Next, Operation, Fetch, IngressRaises, IngressRefused, DrainEmpty, Status,
         Zeroize, Reload, vars

(* The block that a drain hands out comes from the tile and leaves it.     *)
LEMMA DrainedBlock ==
  ASSUME IInv, NEW c \in Clients, DrainBlock(c), reply'[c].status # "EXCEPTION"
  PROVE  /\ reply'[c].status = "SUCCESS"
         /\ reply'[c].payload = reservoir[tail]
         /\ tail \in Slots
         /\ reservoir[tail] \in Blocks
         /\ \A i \in Slots : reservoir'[i] # reservoir[tail]
         /\ \A d \in Clients : \A s \in fetched'[d] : s.block # reservoir[tail]
<1>1. /\ fill \in 1 .. RESERVOIR_CAPACITY /\ tail \in Slots
      /\ reservoir \in [Slots -> Blocks \cup {Zero}]
      /\ c \in DOMAIN reply
  BY MarksAssumption DEF IInv, TypeOK, DrainBlock
<1>2. reservoir[tail] \in Blocks
  BY <1>1, MarksAssumption DEF IInv, NoResidue, Live, Slots
<1>3. reply'[c].status = "SUCCESS" /\ reply'[c].payload = reservoir[tail]
  BY <1>1 DEF DrainBlock, Answer
<1>4. \A i \in Slots : reservoir'[i] # reservoir[tail]
  BY <1>1, <1>2, DataAssumption DEF DrainBlock, Scrub, IInv, SingleHolder
<1>5. \A d \in Clients : \A s \in fetched'[d] : s.block # reservoir[tail]
  BY <1>1 DEF DrainBlock, IInv, SingleHolder
<1> QED BY <1>1, <1>2, <1>3, <1>4, <1>5

-----------------------------------------------------------------------------
(* A call keeps its need and has as many seeds as it needs at most.        *)
LEMMA CallTypes ==
  ASSUME PTypeOK, NEW c \in Clients, NEW n \in 0 .. 2, NEW seeds \in SeedSequences,
         job' = [job EXCEPT ![c] = [need |-> n, seeds |-> seeds]]
  PROVE  /\ job' \in [Clients -> [need : 0 .. 2, seeds : SeedSequences]]
         /\ job'[c].seeds = seeds
         /\ \A d \in Clients \ {c} : job'[d] = job[d]
  BY DEF PTypeOK

(* The empty sequence of seeds, which every call starts with.              *)
LEMMA NoSeeds == <<>> \in SeedSequences
<1>1. <<>> \in Seq(SeedRecords) /\ Len(<<>>) <= 2
  OBVIOUS
<1> QED BY <1>1, SeedSequencesChar

(* What DrainSeed appends is one seed more.                                *)
LEMMA CollectedTypes ==
  ASSUME PTypeOK, NEW c \in Clients, Collecting(c),
         NEW b \in SeedBytes, NEW st \in Statuses
  PROVE  /\ Collected(job[c], Seed(b, st))
              = [need |-> job[c].need, seeds |-> Append(job[c].seeds, Seed(b, st))]
         /\ Append(job[c].seeds, Seed(b, st)) \in SeedSequences
         /\ DOMAIN Append(job[c].seeds, Seed(b, st)) = 1 .. Len(job[c].seeds) + 1
         /\ Append(job[c].seeds, Seed(b, st))[Len(job[c].seeds) + 1] = Seed(b, st)
         /\ \A k \in DOMAIN job[c].seeds :
              Append(job[c].seeds, Seed(b, st))[k] = job[c].seeds[k]
<1> DEFINE old == job[c].seeds
           new == Append(old, Seed(b, st))
<1>1. job[c] \in [need : 0 .. 2, seeds : SeedSequences] /\ job[c].need \in 0 .. 2
  BY DEF PTypeOK
<1>2. old \in Seq(SeedRecords) /\ Len(old) \in Nat /\ Len(old) < 2
  BY <1>1, SeedSequencesChar, SeedPositions DEF Collecting
<1>3. Seed(b, st) \in SeedRecords
  BY DEF Seed, SeedRecords
<1>4. /\ new \in Seq(SeedRecords) /\ Len(new) = Len(old) + 1
      /\ new[Len(old) + 1] = Seed(b, st)
      /\ \A k \in 1 .. Len(old) : new[k] = old[k]
  BY <1>2, <1>3, AppendProperties
<1>5. DOMAIN new = 1 .. Len(new) /\ DOMAIN old = 1 .. Len(old)
  BY <1>2, <1>4, LenProperties
<1>6. new \in SeedSequences
  <2>1. new \in Seq(SeedRecords) /\ Len(new) <= 2
    BY <1>2, <1>4
  <2> HIDE DEF new
  <2> QED BY <2>1, SeedSequencesChar
<1>7. Collected(job[c], Seed(b, st)) = [need |-> job[c].need, seeds |-> new]
  BY <1>1 DEF Collected
<1> QED BY <1>4, <1>5, <1>6, <1>7

-----------------------------------------------------------------------------
(* A step that gives no block a new place and lets no spent block be       *)
(* fetched keeps every block in one place.                                 *)
LEMMA PlacesKept ==
  ASSUME SeedInv, [Next]_vars,
         DOMAIN outputs' = DOMAIN outputs,
         \A b \in Blocks : \A k \in 1 .. 2 :
           /\ \A i \in DOMAIN outputs : InOutput(i, k, b)' => InOutput(i, k, b)
           /\ \A c \in Clients : InCall(c, k, b)' => InCall(c, k, b),
         \A c \in Clients : \A s \in fetched'[c] : s \in fetched[c] \/ ~Spent(s.block)
  PROVE  OnePlace' /\ SpentIsGone'
<1>1. OnePlace'
  BY DEF SeedInv, OnePlace
<1>2. ASSUME NEW b \in Blocks, Spent(b)' PROVE Spent(b)
  BY <1>2 DEF Spent
<1>3. ASSUME NEW b \in Blocks, Spent(b)
      PROVE  /\ \A i \in Slots : reservoir'[i] # b
             /\ \A c \in Clients : \A s \in fetched'[c] : s.block # b
  <2>1. /\ \A i \in Slots : reservoir[i] # b
        /\ \A c \in Clients : \A s \in fetched[c] : s.block # b
    BY <1>3 DEF SeedInv, SpentIsGone
  <2>2. \A i \in Slots : reservoir'[i] # b
    BY <2>1, SlotsMove, DataAssumption DEF SeedInv
  <2>3. \A c \in Clients : \A s \in fetched'[c] : s.block # b
    BY <1>3, <2>1
  <2> QED BY <2>2, <2>3
<1>4. SpentIsGone'
  BY <1>2, <1>3 DEF SpentIsGone
<1> QED BY <1>1, <1>4

(* The reservoir used directly, with its containers new to the provider.   *)
LEMMA DirectInv ==
  ASSUME SeedInv, NEW c \in Clients, Direct(c)
  PROVE  SeedInv'
<1>1. Operation(c) /\ job' = job /\ outputs' = outputs
  BY DEF Direct
<1>2. [Next]_vars
  BY <1>1 DEF Next
<1>3. IInv'
  BY <1>2, StepIInv DEF SeedInv
<1>4. PTypeOK'
  BY <1>1, <1>3 DEF SeedInv, PTypeOK, IInv
<1>5. \A d \in Clients : \A s \in fetched'[d] : s \in fetched[d] \/ ~Spent(s.block)
  <2>1. \A s \in fetched'[c] : s \in fetched[c] \/ ~Spent(s.block)
    BY HeldIsSpent DEF Direct, SeedInv
  <2>2. \A d \in Clients \ {c} : fetched'[d] = fetched[d]
    BY <1>1 DEF Operation, Fetch, IngressRaises, IngressRefused, IngressStored,
                DrainEmpty, DrainBlock, Status, Zeroize, SeedInv, IInv, TypeOK
  <2> QED BY <2>1, <2>2
<1>6. OnePlace' /\ SpentIsGone'
  BY <1>1, <1>2, <1>5, PlacesKept DEF InOutput, InCall
<1>7. AllHonest'
  BY <1>1 DEF SeedInv, AllHonest
<1> QED BY <1>3, <1>4, <1>6, <1>7 DEF SeedInv

(* A step in which one call gets seeds that are no entropy blocks, or      *)
(* none, as the start, the end and the fallback of a call are.             *)
LEMMA ReseededInv ==
  ASSUME SeedInv, [Next]_vars, fetched' = fetched, outputs' = outputs,
         NEW c \in Clients, NEW n \in 0 .. 2, NEW seeds \in SeedSequences,
         job' = [job EXCEPT ![c] = [need |-> n, seeds |-> seeds]],
         \A k \in DOMAIN seeds : seeds[k].bytes \notin Blocks,
         Honest(seeds)
  PROVE  SeedInv'
<1>1. IInv'
  BY StepIInv DEF SeedInv
<1>2. /\ job' \in [Clients -> [need : 0 .. 2, seeds : SeedSequences]]
      /\ job'[c].seeds = seeds
      /\ \A d \in Clients \ {c} : job'[d] = job[d]
  BY CallTypes DEF SeedInv
<1>3. PTypeOK'
  BY <1>1, <1>2 DEF SeedInv, PTypeOK, IInv
<1>4. \A b \in Blocks : \A k \in 1 .. 2 :
        /\ \A i \in DOMAIN outputs : InOutput(i, k, b)' => InOutput(i, k, b)
        /\ \A d \in Clients : InCall(d, k, b)' => InCall(d, k, b)
  BY <1>2 DEF InOutput, InCall
<1>5. OnePlace' /\ SpentIsGone'
  BY <1>4, PlacesKept
<1>6. AllHonest'
  BY <1>2 DEF SeedInv, AllHonest, Honest
<1> QED BY <1>1, <1>3, <1>5, <1>6 DEF SeedInv

(* All seeds from os.urandom, or all from the caller, are such seeds.      *)
LEMMA UniformAreSafe ==
  ASSUME NEW n \in 0 .. 2, NEW b \in {Urandom, Caller}, NEW st \in {"EXCEPTION", "NONE"}
  PROVE  /\ [i \in 1 .. n |-> Seed(b, st)] \in SeedSequences
         /\ \A k \in DOMAIN [i \in 1 .. n |-> Seed(b, st)] :
              [i \in 1 .. n |-> Seed(b, st)][k].bytes \notin Blocks
         /\ Honest([i \in 1 .. n |-> Seed(b, st)])
<1>1. b \in SeedBytes /\ st \in Statuses
  BY DEF SeedBytes, Statuses
<1>2. b \notin Blocks /\ b # Zero
  BY SourcesAssumption
<1>3. st # "RESERVOIR_EMPTY"
  OBVIOUS
<1> QED BY <1>1, <1>2, <1>3, UniformSeeds DEF Honest, Seed

(* A drain that answers: RESERVOIR_EMPTY gives a zero seed, and SUCCESS a  *)
(* block that leaves the tile as it becomes a seed.                        *)
LEMMA DrainSeedInv ==
  ASSUME SeedInv, NEW c \in Clients, DrainSeed(c)
  PROVE  SeedInv'
<1> DEFINE b == reply'[c].payload
           st == reply'[c].status
           new == Append(job[c].seeds, Seed(b, st))
           last == Len(job[c].seeds) + 1
<1>1. /\ Collecting(c) /\ outputs' = outputs /\ fetched' = fetched
      /\ st # "EXCEPTION"
      /\ job' = [job EXCEPT ![c] = Collected(job[c], Seed(b, st))]
  BY DEF DrainSeed, DrainEmpty, DrainBlock
<1>2. [Next]_vars
  BY DEF DrainSeed, Next, Operation
<1>3. IInv'
  BY <1>2, StepIInv DEF SeedInv
<1>4. b \in SeedBytes /\ st \in Statuses
  BY <1>3 DEF IInv, TypeOK, SeedBytes
<1>5. \/ DrainEmpty(c) /\ b = Zero /\ st = "RESERVOIR_EMPTY"
      \/ /\ DrainBlock(c) /\ st = "SUCCESS" /\ b \in Blocks
         /\ \E i \in Slots : reservoir[i] = b
         /\ \A i \in Slots : reservoir'[i] # b
         /\ \A d \in Clients : \A s \in fetched'[d] : s.block # b
  <2>1. CASE DrainEmpty(c)
    BY <2>1 DEF DrainEmpty, Answer, SeedInv, IInv, TypeOK
  <2>2. CASE DrainBlock(c)
    BY <1>1, <2>2, DrainedBlock DEF SeedInv
  <2> QED BY <2>1, <2>2 DEF DrainSeed
<1>6. b \in Blocks => ~Spent(b)
  BY <1>5, DataAssumption DEF SeedInv, SpentIsGone
<1>7. /\ Collected(job[c], Seed(b, st)) = [need |-> job[c].need, seeds |-> new]
      /\ new \in SeedSequences
      /\ DOMAIN new = 1 .. last
      /\ new[last] = Seed(b, st)
      /\ \A k \in DOMAIN job[c].seeds : new[k] = job[c].seeds[k]
  BY <1>1, <1>4, CollectedTypes DEF SeedInv
<1>8. DOMAIN job[c].seeds = 1 .. last - 1 /\ last \in 1 .. 2 /\ job[c].need \in 0 .. 2
  BY <1>1, PlaceBounds, SeedPositions DEF SeedInv, Collecting
<1> HIDE DEF b, st, new, last
<1>9. /\ job' \in [Clients -> [need : 0 .. 2, seeds : SeedSequences]]
      /\ job'[c].seeds = new
      /\ \A d \in Clients \ {c} : job'[d] = job[d]
  BY <1>1, <1>7, <1>8, CallTypes DEF SeedInv
<1>10. PTypeOK'
  BY <1>1, <1>3, <1>9 DEF SeedInv, PTypeOK, IInv
<1>11. \A e \in Blocks, i \in DOMAIN outputs : \A k \in 1 .. 2 :
         InOutput(i, k, e)' <=> InOutput(i, k, e)
  BY <1>1 DEF InOutput
<1>12. \A e \in Blocks, d \in Clients : \A k \in 1 .. 2 :
         InCall(d, k, e)' <=> InCall(d, k, e) \/ (d = c /\ k = last /\ e = b)
  <2> SUFFICES ASSUME NEW e \in Blocks, NEW d \in Clients, NEW k \in 1 .. 2
               PROVE  InCall(d, k, e)' <=> InCall(d, k, e) \/ (d = c /\ k = last /\ e = b)
    OBVIOUS
  <2>1. CASE d # c
    BY <1>9, <2>1 DEF InCall
  <2>2. CASE d = c /\ k = last
    <3>1. InCall(d, k, e)' <=> e = b
      BY <1>7, <1>8, <1>9, <2>2 DEF InCall, Seed
    <3>2. ~InCall(d, k, e)
      BY <1>8, <2>2 DEF InCall
    <3> QED BY <2>2, <3>1, <3>2
  <2>3. CASE d = c /\ k # last
    BY <1>7, <1>8, <1>9, <2>3 DEF InCall
  <2> QED BY <2>1, <2>2, <2>3
<1>13. OnePlace'
  <2> SUFFICES ASSUME NEW e \in Blocks
               PROVE  /\ \A i, j \in DOMAIN outputs : \A k, l \in 1 .. 2 :
                           InOutput(i, k, e)' /\ InOutput(j, l, e)' => i = j /\ k = l
                      /\ \A d, f \in Clients : \A k, l \in 1 .. 2 :
                           InCall(d, k, e)' /\ InCall(f, l, e)' => d = f /\ k = l
                      /\ \A i \in DOMAIN outputs, d \in Clients : \A k, l \in 1 .. 2 :
                           ~(InOutput(i, k, e)' /\ InCall(d, l, e)')
    BY <1>1 DEF OnePlace
  <2> QED BY <1>6, <1>8, <1>11, <1>12 DEF SeedInv, OnePlace, Spent
<1>14. SpentIsGone'
  <2> SUFFICES ASSUME NEW e \in Blocks, Spent(e)'
               PROVE  /\ \A i \in Slots : reservoir'[i] # e
                      /\ \A d \in Clients : \A s \in fetched'[d] : s.block # e
    BY DEF SpentIsGone
  <2>1. Spent(e) \/ e = b
    BY <1>1, <1>11, <1>12 DEF Spent
  <2>2. CASE Spent(e)
    <3>1. /\ \A i \in Slots : reservoir[i] # e
          /\ \A d \in Clients : \A s \in fetched[d] : s.block # e
      BY <2>2 DEF SeedInv, SpentIsGone
    <3> QED BY <1>1, <1>2, <3>1, SlotsMove, DataAssumption DEF SeedInv
  <2>3. CASE e = b
    BY <1>5, <2>3, DataAssumption
  <2> QED BY <2>1, <2>2, <2>3
<1>15. AllHonest'
  <2>1. b = Zero <=> st = "RESERVOIR_EMPTY"
    BY <1>5, DataAssumption
  <2>2. \A k \in DOMAIN new : new[k] = Seed(b, st) \/ k \in DOMAIN job[c].seeds
    BY <1>7, <1>8
  <2>3. Honest(new)
    BY <1>7, <2>1, <2>2 DEF Honest, SeedInv, AllHonest, Seed
  <2> QED BY <1>1, <1>9, <2>3 DEF SeedInv, AllHonest
<1> QED BY <1>3, <1>10, <1>13, <1>14, <1>15 DEF SeedInv

(* A finished call: its seeds move into the new output.                    *)
LEMMA ProduceInv ==
  ASSUME SeedInv, NEW c \in Clients, Produce(c)
  PROVE  SeedInv'
<1> DEFINE n == Len(outputs)
<1>1. /\ outputs' = Append(outputs, job[c].seeds) /\ UNCHANGED vars
      /\ job' = [job EXCEPT ![c] = [need |-> 0, seeds |-> <<>>]]
  BY DEF Produce, Idle
<1>2. IInv'
  BY <1>1, StepIInv DEF SeedInv
<1>3. /\ outputs \in Seq(SeedSequences) /\ n \in Nat /\ DOMAIN outputs = 1 .. n
      /\ job[c].seeds \in SeedSequences
  BY PlaceBounds DEF SeedInv, PTypeOK
<1>4. /\ outputs' \in Seq(SeedSequences) /\ DOMAIN outputs' = 1 .. n + 1
      /\ outputs'[n + 1] = job[c].seeds
      /\ \A i \in 1 .. n : outputs'[i] = outputs[i]
  BY <1>1, <1>3
<1>5. /\ job' \in [Clients -> [need : 0 .. 2, seeds : SeedSequences]]
      /\ job'[c].seeds = <<>>
      /\ \A d \in Clients \ {c} : job'[d] = job[d]
  BY <1>1, NoSeeds DEF SeedInv, PTypeOK
<1> HIDE DEF n
<1>6. PTypeOK'
  BY <1>2, <1>4, <1>5 DEF SeedInv, PTypeOK, IInv
<1>7. \A e \in Blocks, i \in DOMAIN outputs' : \A k \in 1 .. 2 :
        InOutput(i, k, e)' <=> \/ i \in DOMAIN outputs /\ InOutput(i, k, e)
                               \/ i = n + 1 /\ InCall(c, k, e)
  BY <1>3, <1>4 DEF InOutput, InCall
<1>8. \A e \in Blocks, d \in Clients : \A k \in 1 .. 2 :
        InCall(d, k, e)' <=> d # c /\ InCall(d, k, e)
  BY <1>5 DEF InCall
<1>9. OnePlace'
  <2> SUFFICES ASSUME NEW e \in Blocks
               PROVE  /\ \A i, j \in DOMAIN outputs' : \A k, l \in 1 .. 2 :
                           InOutput(i, k, e)' /\ InOutput(j, l, e)' => i = j /\ k = l
                      /\ \A d, f \in Clients : \A k, l \in 1 .. 2 :
                           InCall(d, k, e)' /\ InCall(f, l, e)' => d = f /\ k = l
                      /\ \A i \in DOMAIN outputs', d \in Clients : \A k, l \in 1 .. 2 :
                           ~(InOutput(i, k, e)' /\ InCall(d, l, e)')
    BY DEF OnePlace
  <2> QED BY <1>7, <1>8 DEF SeedInv, OnePlace
<1>10. SpentIsGone'
  <2>1. \A e \in Blocks : Spent(e)' => Spent(e)
    BY <1>7, <1>8 DEF Spent
  <2> QED BY <1>1, <2>1 DEF SeedInv, SpentIsGone, vars, tile
<1>11. AllHonest'
  BY <1>3, <1>4, <1>5 DEF SeedInv, AllHonest, Honest
<1> QED BY <1>2, <1>6, <1>9, <1>10, <1>11 DEF SeedInv

-----------------------------------------------------------------------------
(* At the start there are no calls and no outputs.                         *)
LEMMA InitSeedInv == PInit => SeedInv
<1> SUFFICES ASSUME PInit PROVE SeedInv
  OBVIOUS
<1>1. IInv
  BY InitIInv DEF PInit
<1>2. job = [c \in Clients |-> [need |-> 0, seeds |-> <<>>]] /\ outputs = <<>>
  BY DEF PInit, Idle
<1>3. PTypeOK
  BY <1>1, <1>2, NoSeeds DEF IInv, PTypeOK
<1>4. OnePlace /\ SpentIsGone
  BY <1>2 DEF OnePlace, SpentIsGone, Spent, InOutput, InCall
<1>5. AllHonest
  BY <1>2 DEF AllHonest, Honest
<1> QED BY <1>1, <1>3, <1>4, <1>5 DEF SeedInv

(* Every step of the provider, its clients and the tile keeps it.          *)
LEMMA StepSeedInv ==
  ASSUME SeedInv, [PNext]_pvars
  PROVE  SeedInv'
<1>1. CASE Reload /\ UNCHANGED <<job, outputs>>
  <2>1. [Next]_vars
    BY <1>1 DEF Next
  <2>2. IInv'
    BY <2>1, StepIInv DEF SeedInv
  <2>3. PTypeOK' /\ AllHonest'
    BY <1>1, <2>2 DEF SeedInv, PTypeOK, AllHonest, IInv
  <2>4. OnePlace' /\ SpentIsGone'
    BY <1>1, <2>1, PlacesKept DEF Reload, InOutput, InCall
  <2> QED BY <2>2, <2>3, <2>4 DEF SeedInv
<1>2. ASSUME NEW c \in Clients, Call(c) \/ ProduceRaises(c) PROVE SeedInv'
  <2>1. PICK n \in 0 .. 2 : job' = [job EXCEPT ![c] = [need |-> n, seeds |-> <<>>]]
    BY <1>2 DEF Call, ProduceRaises, Idle
  <2>2. UNCHANGED <<vars, outputs>>
    BY <1>2 DEF Call, ProduceRaises
  <2>3. \A k \in DOMAIN <<>> : <<>>[k].bytes \notin Blocks
    OBVIOUS
  <2>4. Honest(<<>>)
    BY DEF Honest
  <2> QED BY <2>1, <2>2, <2>3, <2>4, NoSeeds, ReseededInv DEF vars
<1>3. ASSUME NEW c \in Clients, CallWithSeeds(c) PROVE SeedInv'
  <2>1. PICK n \in {1, 2} :
          job' = [job EXCEPT ![c] =
                    [need |-> n, seeds |-> [i \in 1 .. n |-> Seed(Caller, "NONE")]]]
    BY <1>3 DEF CallWithSeeds
  <2>2. UNCHANGED <<vars, outputs>> /\ n \in 0 .. 2
    BY <1>3 DEF CallWithSeeds
  <2> DEFINE seeds == [i \in 1 .. n |-> Seed(Caller, "NONE")]
  <2>3. /\ seeds \in SeedSequences /\ Honest(seeds)
        /\ \A k \in DOMAIN seeds : seeds[k].bytes \notin Blocks
    BY <2>2, UniformAreSafe
  <2> HIDE DEF seeds
  <2> QED BY <2>1, <2>2, <2>3, ReseededInv DEF vars, seeds
<1>4. ASSUME NEW c \in Clients, DrainRaises(c) PROVE SeedInv'
  <2> DEFINE n == job[c].need
             seeds == [i \in 1 .. n |-> Seed(Urandom, "EXCEPTION")]
  <2>1. n \in 0 .. 2 /\ job[c] = [need |-> n, seeds |-> job[c].seeds]
    BY DEF SeedInv, PTypeOK
  <2>2. job' = [job EXCEPT ![c].seeds = seeds]
    BY <1>4 DEF DrainRaises
  <2>3. [Next]_vars /\ fetched' = fetched /\ outputs' = outputs
    BY <1>4 DEF DrainRaises, DrainBlock, Next, Operation, vars
  <2>4. /\ seeds \in SeedSequences /\ Honest(seeds)
        /\ \A k \in DOMAIN seeds : seeds[k].bytes \notin Blocks
    BY <2>1, UniformAreSafe
  <2> HIDE DEF seeds
  <2>5. job' = [job EXCEPT ![c] = [need |-> n, seeds |-> seeds]]
    <3>1. job[c] \in [need : 0 .. 2, seeds : SeedSequences]
      BY DEF SeedInv, PTypeOK
    <3>2. [job[c] EXCEPT !.seeds = seeds] = [need |-> n, seeds |-> seeds]
      BY <3>1
    <3> QED BY <2>2, <3>2
  <2> QED BY <2>1, <2>3, <2>4, <2>5, ReseededInv
<1>5. CASE UNCHANGED pvars
  <2>1. UNCHANGED vars /\ job' = job /\ outputs' = outputs
    BY <1>5 DEF pvars
  <2>2. IInv'
    BY <2>1, StepIInv DEF SeedInv
  <2>3. PTypeOK' /\ AllHonest'
    BY <2>1, <2>2 DEF SeedInv, PTypeOK, AllHonest, IInv
  <2>4. OnePlace' /\ SpentIsGone'
    BY <2>1, PlacesKept DEF vars, InOutput, InCall
  <2> QED BY <2>2, <2>3, <2>4 DEF SeedInv
<1> QED
  BY <1>1, <1>2, <1>3, <1>4, <1>5, DirectInv, DrainSeedInv, ProduceInv DEF PNext

(* The inductive invariant holds of every behaviour.                       *)
THEOREM SeedInvariance == PSpec => []SeedInv
  BY InitSeedInv, StepSeedInv, PTL DEF PSpec

(* A call holds at most the two seeds that it needs, an output has no more.*)
THEOREM ProviderTypes == PSpec => []PTypeOK
  BY SeedInvariance, PTL DEF SeedInv

-----------------------------------------------------------------------------
(* The places in their tagged form, which the two properties quantify over.*)
LEMMA PlaceCases ==
  ASSUME SeedInv, NEW p \in Places, p[3] \in DOMAIN SeedsOf(p)
  PROVE  \/ /\ p[1] = "output" /\ p[2] \in DOMAIN outputs /\ p[3] \in 1 .. 2
            /\ p = <<"output", p[2], p[3]>> /\ SeedsOf(p) = outputs[p[2]]
            /\ InOutput(p[2], p[3], SeedsOf(p)[p[3]].bytes)
         \/ /\ p[1] = "call" /\ p[2] \in Clients /\ p[3] \in 1 .. 2
            /\ p = <<"call", p[2], p[3]>> /\ SeedsOf(p) = job[p[2]].seeds
            /\ InCall(p[2], p[3], SeedsOf(p)[p[3]].bytes)
<1>1. CASE \E i \in DOMAIN outputs, k \in 1 .. 2 : p = <<"output", i, k>>
  BY <1>1 DEF SeedsOf, InOutput
<1>2. CASE \E c \in Clients, k \in 1 .. 2 : p = <<"call", c, k>>
  BY <1>2 DEF SeedsOf, InCall
<1> QED BY <1>1, <1>2 DEF Places

(* The invariant gives each block of entropy one place, off the tile.      *)
LEMMA NeverShared == SeedInv => SeedsNeverShared
<1> SUFFICES ASSUME SeedInv, NEW p \in Places, p[3] \in DOMAIN SeedsOf(p),
                    SeedsOf(p)[p[3]].bytes \in Blocks
             PROVE  /\ \A i \in Slots : reservoir[i] # SeedsOf(p)[p[3]].bytes
                    /\ \A q \in Places :
                         /\ q[3] \in DOMAIN SeedsOf(q)
                         /\ SeedsOf(q)[q[3]].bytes = SeedsOf(p)[p[3]].bytes
                         => p = q
  BY DEF SeedsNeverShared
<1> DEFINE b == SeedsOf(p)[p[3]].bytes
<1>1. Spent(b)
  BY PlaceCases DEF Spent
<1>2. \A i \in Slots : reservoir[i] # b
  BY <1>1 DEF SeedInv, SpentIsGone
<1>3. ASSUME NEW q \in Places, q[3] \in DOMAIN SeedsOf(q), SeedsOf(q)[q[3]].bytes = b
      PROVE  p = q
  <2>1. \/ /\ p[1] = "output" /\ p[2] \in DOMAIN outputs /\ p[3] \in 1 .. 2
           /\ p = <<"output", p[2], p[3]>> /\ InOutput(p[2], p[3], b)
        \/ /\ p[1] = "call" /\ p[2] \in Clients /\ p[3] \in 1 .. 2
           /\ p = <<"call", p[2], p[3]>> /\ InCall(p[2], p[3], b)
    BY PlaceCases
  <2>2. \/ /\ q[1] = "output" /\ q[2] \in DOMAIN outputs /\ q[3] \in 1 .. 2
           /\ q = <<"output", q[2], q[3]>> /\ InOutput(q[2], q[3], b)
        \/ /\ q[1] = "call" /\ q[2] \in Clients /\ q[3] \in 1 .. 2
           /\ q = <<"call", q[2], q[3]>> /\ InCall(q[2], q[3], b)
    BY <1>3, PlaceCases
  <2> HIDE DEF b
  <2>3. b \in Blocks
    BY DEF b
  <2>4. p[1] = q[1] /\ p[2] = q[2] /\ p[3] = q[3]
    BY <2>1, <2>2, <2>3 DEF SeedInv, OnePlace
  <2> QED BY <2>1, <2>2, <2>4
<1> QED BY <1>2, <1>3

(* Whatever the clients interleave, and wherever calls fail, a block of    *)
(* entropy is one seed of one key pair or ciphertext.                      *)
THEOREM NoSeedTwice == PSpec => []SeedsNeverShared
  BY SeedInvariance, NeverShared, PTL

(* The result that the provider drops would tell every zero seed.          *)
THEOREM ZeroSeedsAreTold == PSpec => []StatusTellsZeroSeeds
<1>1. SeedInv => StatusTellsZeroSeeds
  BY PlaceCases DEF StatusTellsZeroSeeds, SeedInv, AllHonest, Honest
<1> QED BY <1>1, SeedInvariance, PTL
=============================================================================
