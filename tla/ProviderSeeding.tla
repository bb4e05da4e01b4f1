--------------------------- MODULE ProviderSeeding ---------------------------
(***************************************************************************)
(* The OpenSSL provider (DR23) on top of the entropy reservoir (DR27):     *)
(* key generation and encapsulation take their seeds from the reservoir,   *)
(* one dispatch per seed, while other processes push, drain and zeroize it *)
(* between the dispatches.  kem_keygen takes two seeds (d, z),             *)
(* kem_encapsulate (m) and signature_keygen (xi) take one.                 *)
(*                                                                         *)
(* A key pair or a ciphertext is a function of its seeds, so an output is  *)
(* represented by the seeds it was made from.                              *)
(***************************************************************************)
EXTENDS QrngReservoir

CONSTANTS
  Urandom,     \* 32 fresh bytes of os.urandom: never equal to anything else
  Caller,      \* 32 bytes that the caller passed in
  MaxOutputs   \* bound on the outputs made, for model checking

ASSUME SourcesAssumption ==
  /\ Urandom \notin Blocks \cup {Zero, Caller}
  /\ Caller \notin Blocks \cup {Zero}
  /\ MaxOutputs \in Nat

VARIABLES
  job,       \* per client, the provider call in progress
  outputs    \* the seeds of every output made so far

pvars == <<vars, job, outputs>>

Idle == [need |-> 0, seeds |-> <<>>]
Seed(bytes, status) == [bytes |-> bytes, status |-> status]
SeedBytes == Blocks \cup {Zero, Urandom, Caller}
SeedSequences == UNION {[1 .. n -> [bytes : SeedBytes, status : Statuses]] : n \in 0 .. 2}

BlocksIn(seeds) == {seeds[i].bytes : i \in DOMAIN seeds}

(* Entropy blocks that became seeds: the appliance does not send them again.*)
SeedsHeld ==
  (UNION {BlocksIn(job[c].seeds) : c \in Clients})
    \cup (UNION {BlocksIn(outputs[i]) : i \in DOMAIN outputs})

PInit ==
  /\ Init
  /\ job = [c \in Clients |-> Idle]
  /\ outputs = <<>>

-----------------------------------------------------------------------------
(* A fault: one drained block serves as both seeds.                        *)
CollectedTwice(j, seed) == [j EXCEPT !.seeds = [i \in 1 .. j.need |-> seed]]

(* What a call holds after one more drain.                                 *)
Collected(j, seed) == [j EXCEPT !.seeds = Append(j.seeds, seed)]

(* A client that is not inside a provider call uses the reservoir directly.*)
Direct(c) ==
  /\ job[c] = Idle
  /\ Operation(c)
  /\ \A s \in fetched'[c] : s \in fetched[c] \/ s.block \notin SeedsHeld
  /\ UNCHANGED <<job, outputs>>

(* The client calls kem_keygen, kem_encapsulate or signature_keygen without *)
(* seeds, or kem_keygen with only one of its two, which is then ignored.   *)
Call(c) ==
  /\ job[c] = Idle
  /\ Len(outputs) < MaxOutputs
  /\ \E n \in {1, 2} : job' = [job EXCEPT ![c] = [need |-> n, seeds |-> <<>>]]
  /\ UNCHANGED <<vars, outputs>>

(* The client passes every seed itself: no drain takes place.              *)
CallWithSeeds(c) ==
  /\ job[c] = Idle
  /\ Len(outputs) < MaxOutputs
  /\ \E n \in {1, 2} :
       job' = [job EXCEPT ![c] =
                 [need |-> n, seeds |-> [i \in 1 .. n |-> Seed(Caller, "NONE")]]]
  /\ UNCHANGED <<vars, outputs>>

Collecting(c) == Len(job[c].seeds) < job[c].need

(* drain_entropy returns a payload and a result; the provider keeps the    *)
(* payload and drops the result with its status.                           *)
DrainSeed(c) ==
  /\ Collecting(c)
  /\ DrainEmpty(c) \/ DrainBlock(c)
  /\ reply'[c].status # "EXCEPTION"
  /\ job' = [job EXCEPT ![c] =
               Collected(job[c], Seed(reply'[c].payload, reply'[c].status))]
  /\ UNCHANGED outputs

(* A drain raises, with or without taking a block from the tile: every     *)
(* seed, drained ones included, becomes os.urandom.                        *)
DrainRaises(c) ==
  /\ Collecting(c)
  /\ \/ UNCHANGED vars
     \/ DrainBlock(c) /\ reply'[c].status = "EXCEPTION"
  /\ job' = [job EXCEPT ![c].seeds =
               [i \in 1 .. job[c].need |-> Seed(Urandom, "EXCEPTION")]]
  /\ UNCHANGED outputs

(* The silicon graph makes the key pair or the ciphertext from the seeds.  *)
Produce(c) ==
  /\ job[c] # Idle
  /\ ~Collecting(c)
  /\ outputs' = Append(outputs, job[c].seeds)
  /\ job' = [job EXCEPT ![c] = Idle]
  /\ UNCHANGED vars

(* The algorithm is not supported or the graph raises: there is no output. *)
ProduceRaises(c) ==
  /\ job[c] # Idle
  /\ ~Collecting(c)
  /\ job' = [job EXCEPT ![c] = Idle]
  /\ UNCHANGED <<vars, outputs>>

PNext ==
  \/ Reload /\ UNCHANGED <<job, outputs>>
  \/ \E c \in Clients :
       \/ Direct(c)
       \/ Call(c)
       \/ CallWithSeeds(c)
       \/ DrainSeed(c)
       \/ DrainRaises(c)
       \/ Produce(c)
       \/ ProduceRaises(c)

PSpec == PInit /\ [][PNext]_pvars

-----------------------------------------------------------------------------
(* Every variable has its type: a provider call holds at most the two      *)
(* seeds that it needs, and the reservoir under it keeps its own types.    *)
PTypeOK ==
  /\ TypeOK
  /\ job \in [Clients -> [need : 0 .. 2, seeds : SeedSequences]]
  /\ outputs \in Seq(SeedSequences)

(* Every seed in use, with its place: in an output or in a call.           *)
Places ==
  {<<"output", i, k>> : i \in DOMAIN outputs, k \in 1 .. 2}
    \cup {<<"call", c, k>> : c \in Clients, k \in 1 .. 2}

SeedsOf(p) == IF p[1] = "output" THEN outputs[p[2]] ELSE job[p[2]].seeds

(* No entropy is spent twice: an entropy block is one seed of one output,  *)
(* however the dispatches of several clients interleave, and none is still *)
(* on the tile.                                                            *)
SeedsNeverShared ==
  \A p \in Places :
    p[3] \in DOMAIN SeedsOf(p) /\ SeedsOf(p)[p[3]].bytes \in Blocks =>
      /\ \A i \in Slots : reservoir[i] # SeedsOf(p)[p[3]].bytes
      /\ \A q \in Places :
           q[3] \in DOMAIN SeedsOf(q) /\ SeedsOf(q)[q[3]].bytes = SeedsOf(p)[p[3]].bytes => p = q

(* The status that the provider drops is exact: a seed is 32 zero bytes if *)
(* and only if its drain answered RESERVOIR_EMPTY, so a caller that looked *)
(* at it would never use one.                                              *)
StatusTellsZeroSeeds ==
  \A p \in Places :
    p[3] \in DOMAIN SeedsOf(p) =>
      (SeedsOf(p)[p[3]].bytes = Zero <=> SeedsOf(p)[p[3]].status = "RESERVOIR_EMPTY")

(* The provider's claim: seeds are entropy from the reservoir if there is  *)
(* some, otherwise os.urandom.  No output is made from 32 zero bytes.      *)
SeedsHaveEntropy ==
  \A i \in DOMAIN outputs : Zero \notin BlocksIn(outputs[i])
=============================================================================
