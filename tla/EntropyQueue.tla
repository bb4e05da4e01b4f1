---------------------------- MODULE EntropyQueue ----------------------------
(***************************************************************************)
(* What the entropy reservoir (milestone DR27) promises to the processes   *)
(* that share it: a bounded first-in first-out queue of entropy blocks.  A *)
(* block that is taken leaves the queue in the same step and is handed to  *)
(* the process that asked or to none; a wipe empties the queue at once.    *)
(* QrngReservoir implements this with a ring buffer in tile memory.        *)
(***************************************************************************)
EXTENDS Integers, Sequences

CONSTANTS
  Clients,   \* host processes that use the reservoir
  Blocks,    \* identities of 32-byte entropy blocks
  Zero,      \* 32 zero bytes: no entropy
  Capacity   \* most blocks the queue holds

VARIABLES
  queue,     \* the blocks held, oldest first
  got        \* the block each client was handed by its last operation, or Zero

qvars == <<queue, got>>

QInit ==
  /\ queue = <<>>
  /\ got = [c \in Clients |-> Zero]

(* A client adds one block at the end of a queue that is not full.         *)
Offer(c) ==
  \E b \in Blocks :
    /\ Len(queue) < Capacity
    /\ queue' = Append(queue, b)
    /\ got' = [got EXCEPT ![c] = Zero]

(* A client is handed the oldest block, or nothing when the answer is      *)
(* lost; the block leaves the queue either way.                            *)
Take(c) ==
  /\ queue # <<>>
  /\ \E given \in {Head(queue), Zero} : got' = [got EXCEPT ![c] = given]
  /\ queue' = Tail(queue)

(* An operation that moves no block: a refusal or a status inquiry.        *)
Pass(c) ==
  /\ got' = [got EXCEPT ![c] = Zero]
  /\ UNCHANGED queue

(* A client has every block destroyed.                                     *)
Wipe(c) ==
  /\ queue' = <<>>
  /\ got' = [got EXCEPT ![c] = Zero]

(* The hardware loses its contents.                                        *)
Lose ==
  /\ queue' = <<>>
  /\ UNCHANGED got

QNext ==
  \/ \E c \in Clients : Offer(c) \/ Take(c) \/ Pass(c) \/ Wipe(c)
  \/ Lose

QSpec == QInit /\ [][QNext]_qvars
=============================================================================
