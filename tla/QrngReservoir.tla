---------------------------- MODULE QrngReservoir ----------------------------
(***************************************************************************)
(* The DR27 entropy reservoir: a ring buffer of 32-byte blocks and a       *)
(* two-state hysteresis mode, both static in AIE2 tile memory, and the     *)
(* host processes that fetch entropy over QRNG-OPENAPI, test its health,   *)
(* push it into the reservoir, drain it, ask for its status and zeroize it.*)
(*                                                                         *)
(* One dispatch (fill the request, fill the descriptor, run the kernel,    *)
(* drain the result) is one action: the tile runs one request at a time.   *)
(* The fetch from the appliance and the dispatch that pushes what it       *)
(* returned are two actions, so other processes run in between.            *)
(***************************************************************************)
EXTENDS Integers, Sequences

CONSTANTS
  Clients,                  \* host processes
  Blocks,                   \* identities of 32-byte entropy blocks
  Zero,                     \* a slot or a payload of 32 zero bytes
  RESERVOIR_CAPACITY,       \* slots of the ring buffer
  LOW_WATER_MARK,           \* at this fill or below the mode is degraded
  HIGH_WATER_MARK,          \* at this fill or above the mode is full hybrid
  SLOT_SIZE,                \* bytes of a slot
  MaxDescriptorLen,         \* largest entropy_len the u16 descriptor field holds
  RCT_CUTOFF, APT_CUTOFF,   \* SP 800-90B cutoffs of host and kernel
  Shapes                    \* shapes of the data an appliance may answer with

ASSUME MarksAssumption ==
  /\ RESERVOIR_CAPACITY \in Nat \ {0}
  /\ LOW_WATER_MARK \in Nat
  /\ HIGH_WATER_MARK \in Nat
  /\ LOW_WATER_MARK < HIGH_WATER_MARK
  /\ HIGH_WATER_MARK <= RESERVOIR_CAPACITY

ASSUME DataAssumption ==
  /\ Zero \notin Blocks
  /\ SLOT_SIZE \in Nat \ {0}
  /\ MaxDescriptorLen \in Nat
  /\ RCT_CUTOFF \in Nat \ {0}
  /\ APT_CUTOFF \in Nat \ {0}
  /\ Shapes \subseteq [len : Nat, rct : Nat, apt : Nat]

VARIABLES
  reservoir,   \* g_entropy_reservoir
  head,        \* g_head_ptr
  tail,        \* g_tail_ptr
  fill,        \* g_fill_count
  mode,        \* g_current_mode
  fetched,     \* per client, the containers fetched and not yet pushed
  reply,       \* per client, status and payload of its last operation
  swing        \* history: blocks moved since the mode last changed

tile == <<reservoir, head, tail, fill, mode>>
vars == <<tile, fetched, reply, swing>>

Slots == 0 .. RESERVOIR_CAPACITY - 1
Modes == {"FULL_HYBRID", "DEGRADED_A"}
Statuses == {"SUCCESS", "INVALID_MAGIC", "HEALTH_CHECK_FAILED", "RESERVOIR_FULL",
             "RESERVOIR_EMPTY", "TAMPER_ZEROIZED", "EXCEPTION", "NONE"}
Samples == [block : Blocks, shape : Shapes]
Span == HIGH_WATER_MARK - LOW_WATER_MARK

(* The next index of the ring.  A fault: the index does not wrap.          *)
AdvanceNoWrap(i) == i + 1
Advance(i) == (i + 1) % RESERVOIR_CAPACITY

(* OP_INGRESS refuses a block once fill_count reaches the capacity.  A     *)
(* fault: one block more is taken.                                         *)
HasRoomOffByOne(n) == n <= RESERVOIR_CAPACITY
HasRoom(n) == n < RESERVOIR_CAPACITY

(* Draining a slot overwrites it with zeros.  A fault: it does not.        *)
ScrubForgotten(i) == reservoir
Scrub(i) == [reservoir EXCEPT ![i] = Zero]

(* The hysteresis, with n blocks left after a drain or held after an       *)
(* ingress.  Faults: one water mark serves both ways, the low mark itself  *)
(* does not count.                                                         *)
ModeAfterDrainNoBand(n) == IF n < HIGH_WATER_MARK THEN "DEGRADED_A" ELSE mode
ModeAfterDrainLate(n) == IF n < LOW_WATER_MARK THEN "DEGRADED_A" ELSE mode
ModeAfterDrain(n) == IF n <= LOW_WATER_MARK THEN "DEGRADED_A" ELSE mode
ModeAfterIngress(n) == IF n >= HIGH_WATER_MARK THEN "FULL_HYBRID" ELSE mode

(* A mode change restarts the count of moved blocks; the count saturates.  *)
Swung(newMode) == IF newMode # mode THEN 0 ELSE IF swing < Span THEN swing + 1 ELSE swing

(* eval_sp800_90b_health: an empty sample reports zero counts, a sample    *)
(* that fails the repetition count test never has its proportion counted.  *)
HealthCounts(shape) ==
  IF shape.len = 0 THEN [rct |-> 0, apt |-> 0]
  ELSE IF shape.rct >= RCT_CUTOFF THEN [rct |-> shape.rct, apt |-> 0]
  ELSE [rct |-> shape.rct, apt |-> shape.apt]

(* The preflight of OP_INGRESS on the counts and the length of the         *)
(* descriptor.                                                             *)
PreflightOK(shape) ==
  LET counts == HealthCounts(shape)
  IN /\ counts.rct < RCT_CUTOFF
     /\ counts.apt < APT_CUTOFF
     /\ shape.len >= SLOT_SIZE

(* Blocks that are somewhere: on the tile, in a host's hands, in a reply.  *)
InUse ==
  {reservoir[i] : i \in Slots} \cup {s.block : s \in UNION {fetched[c] : c \in Clients}}
    \cup {reply[c].payload : c \in Clients}

Answer(c, status, payload) ==
  reply' = [reply EXCEPT ![c] = [status |-> status, payload |-> payload]]

(* A fault: zeroization resets the ring and leaves its slots.              *)
WipedPointersOnly ==
  /\ head' = 0
  /\ tail' = 0
  /\ fill' = 0
  /\ mode' = "DEGRADED_A"
  /\ swing' = 0
  /\ UNCHANGED reservoir

(* Every slot wiped, the ring and the mode back to their first values.     *)
Wiped ==
  /\ reservoir' = [i \in Slots |-> Zero]
  /\ head' = 0
  /\ tail' = 0
  /\ fill' = 0
  /\ mode' = "DEGRADED_A"
  /\ swing' = 0

Init ==
  /\ reservoir = [i \in Slots |-> Zero]
  /\ head = 0
  /\ tail = 0
  /\ fill = 0
  /\ mode = "DEGRADED_A"
  /\ fetched = [c \in Clients |-> {}]
  /\ reply = [c \in Clients |-> [status |-> "NONE", payload |-> Zero]]
  /\ swing = 0

-----------------------------------------------------------------------------
(* POST /v1/entropy answers a client with fresh random bytes.              *)
Fetch(c) ==
  /\ fetched[c] = {}
  /\ \E b \in Blocks \ InUse, shape \in Shapes :
       fetched' = [fetched EXCEPT ![c] = {[block |-> b, shape |-> shape]}]
  /\ UNCHANGED <<tile, reply, swing>>

(* A dispatch may raise before the tile has the request; pack_descriptor   *)
(* always does on a length that its u16 field cannot hold.                 *)
IngressRaises(c) ==
  \E s \in fetched[c] :
    /\ Answer(c, "EXCEPTION", Zero)
    /\ fetched' = [fetched EXCEPT ![c] = {}]
    /\ UNCHANGED <<tile, swing>>

(* OP_INGRESS refuses an unhealthy or short block, or has no slot for it.  *)
IngressRefused(c) ==
  \E s \in fetched[c] :
    /\ s.shape.len <= MaxDescriptorLen
    /\ \/ ~PreflightOK(s.shape) /\ Answer(c, "HEALTH_CHECK_FAILED", Zero)
       \/ /\ PreflightOK(s.shape)
          /\ ~HasRoom(fill)
          /\ Answer(c, "RESERVOIR_FULL", Zero)
    /\ fetched' = [fetched EXCEPT ![c] = {}]
    /\ UNCHANGED <<tile, swing>>

(* OP_INGRESS stores the block; reaching the high-water mark restores the  *)
(* full hybrid mode.  The host may lose the answer to an exception.        *)
IngressStored(c) ==
  \E s \in fetched[c] :
    /\ s.shape.len <= MaxDescriptorLen
    /\ PreflightOK(s.shape)
    /\ HasRoom(fill)
    /\ reservoir' = [reservoir EXCEPT ![head] = s.block]
    /\ head' = Advance(head)
    /\ fill' = fill + 1
    /\ mode' = ModeAfterIngress(fill + 1)
    /\ swing' = Swung(mode')
    /\ \E status \in {"SUCCESS", "EXCEPTION"} : Answer(c, status, Zero)
    /\ fetched' = [fetched EXCEPT ![c] = {}]
    /\ UNCHANGED tail

(* OP_DRAIN finds nothing to hand out and answers 32 zero bytes.           *)
DrainEmpty(c) ==
  /\ fill = 0
  /\ Answer(c, "RESERVOIR_EMPTY", Zero)
  /\ UNCHANGED <<tile, fetched, swing>>

(* OP_DRAIN hands out the oldest block and zeroizes its slot; at the       *)
(* low-water mark the mode drops to degraded.  When the dispatch raises    *)
(* after the kernel has run, the block is lost with the answer.            *)
DrainBlock(c) ==
  /\ fill # 0
  /\ \/ Answer(c, "SUCCESS", reservoir[tail])
     \/ Answer(c, "EXCEPTION", Zero)
  /\ reservoir' = Scrub(tail)
  /\ tail' = Advance(tail)
  /\ fill' = fill - 1
  /\ mode' = ModeAfterDrain(fill - 1)
  /\ swing' = Swung(mode')
  /\ UNCHANGED <<head, fetched>>

(* OP_STATUS reads and changes nothing, an unknown operation is refused,   *)
(* and a dispatch may raise before the tile has the request.               *)
Status(c) ==
  /\ \E status \in {"SUCCESS", "INVALID_MAGIC", "EXCEPTION"} : Answer(c, status, Zero)
  /\ UNCHANGED <<tile, fetched, swing>>

(* OP_ZEROIZE wipes every slot and restarts the ring and the mode.         *)
Zeroize(c) ==
  /\ Wiped
  /\ \E status \in {"TAMPER_ZEROIZED", "EXCEPTION"} : Answer(c, status, Zero)
  /\ UNCHANGED fetched

(* The hardware context is reloaded: the statics start anew.               *)
Reload ==
  /\ Wiped
  /\ UNCHANGED <<fetched, reply>>

Operation(c) ==
  \/ Fetch(c)
  \/ IngressRaises(c)
  \/ IngressRefused(c)
  \/ IngressStored(c)
  \/ DrainEmpty(c)
  \/ DrainBlock(c)
  \/ Status(c)
  \/ Zeroize(c)

Next == Reload \/ \E c \in Clients : Operation(c)

Spec == Init /\ [][Next]_vars

-----------------------------------------------------------------------------
(* The slots between tail and head hold blocks: the window may wrap.       *)
Live(i) ==
  IF tail + fill <= RESERVOIR_CAPACITY
  THEN tail <= i /\ i < tail + fill
  ELSE tail <= i \/ i < tail + fill - RESERVOIR_CAPACITY

(* Every variable has its type: both pointers stay inside the ring and the *)
(* fill count between empty and the capacity, whatever is pushed, drained  *)
(* and wiped.                                                              *)
TypeOK ==
  /\ reservoir \in [Slots -> Blocks \cup {Zero}]
  /\ head \in Slots
  /\ tail \in Slots
  /\ fill \in 0 .. RESERVOIR_CAPACITY
  /\ mode \in Modes
  /\ fetched \in [Clients -> SUBSET Samples]
  /\ reply \in [Clients -> [status : Statuses, payload : Blocks \cup {Zero}]]
  /\ swing \in 0 .. Span

(* Zeroization leaves no residue and loses nothing: a slot holds entropy   *)
(* exactly when it lies in the window between the tail and the head, so a  *)
(* drained or wiped block is gone from tile memory and a stored one is     *)
(* still there whatever the ring's wrap-around.                            *)
NoResidue == \A i \in Slots : reservoir[i] # Zero <=> Live(i)

(* The head pointer is where the tail pointer and the fill count say.      *)
RingShape == head = (tail + fill) % RESERVOIR_CAPACITY

(* Entropy is never duplicated: a block sits in one slot only, and one     *)
(* that a client was handed, or has not pushed yet, is nowhere else.       *)
SingleHolder ==
  /\ \A i, j \in Slots : reservoir[i] = reservoir[j] /\ reservoir[i] # Zero => i = j
  /\ \A c \in Clients, i \in Slots : reply[c].payload = reservoir[i] => reservoir[i] = Zero
  /\ \A c, d \in Clients :
       reply[c].payload = reply[d].payload /\ reply[c].payload # Zero => c = d
  /\ \A c \in Clients : \A s \in fetched[c] :
       /\ \A i \in Slots : reservoir[i] # s.block
       /\ \A d \in Clients : reply[d].payload # s.block
       /\ \A d \in Clients : \A t \in fetched[d] : t.block = s.block => c = d

(* The mode a downstream key schedule reads agrees with the water marks    *)
(* outside the hysteresis band, whichever way the fill count got there.    *)
ModeMatchesMarks ==
  /\ fill <= LOW_WATER_MARK => mode = "DEGRADED_A"
  /\ fill >= HIGH_WATER_MARK => mode = "FULL_HYBRID"

(* The band of the hysteresis: since its last change the mode has seen at  *)
(* least as many blocks move as separate the fill from the mark it left.   *)
SwingCovers ==
  /\ mode = "FULL_HYBRID" => fill + swing >= HIGH_WATER_MARK
  /\ mode = "DEGRADED_A" => fill <= LOW_WATER_MARK + swing

(* No flapping: a transfer changes the mode only when at least             *)
(* HIGH_WATER_MARK - LOW_WATER_MARK blocks, itself included, have moved    *)
(* since the previous change; bursts inside the band never toggle it.      *)
NoFlapping ==
  [][mode' # mode /\ (fill' = fill + 1 \/ fill' = fill - 1) => swing + 1 >= Span]_vars

(* The blocks held, oldest first: the refinement mapping of the ring.      *)
Contents ==
  [k \in 1 .. fill |-> reservoir[(tail + k - 1) % RESERVOIR_CAPACITY]]

Queue == INSTANCE EntropyQueue
           WITH Capacity <- RESERVOIR_CAPACITY,
                queue <- Contents,
                got <- [c \in Clients |-> reply[c].payload]

(* The ring buffer is a first-in first-out queue to all its clients.       *)
ImplementsQueue == Queue!QSpec
=============================================================================
