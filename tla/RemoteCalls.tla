----------------------------- MODULE RemoteCalls -----------------------------
(***************************************************************************)
(* What a tile graph promises to the threads that call it, without the     *)
(* tiles: calls are served one at a time in the order they were submitted, *)
(* and the requests they bring in stand in one line from which replies are *)
(* given, whosever turn it is.  A call that fails may leave its request in *)
(* the line.  TileGraphs implements this with workers and ObjectFifos.     *)
(***************************************************************************)
EXTENDS Sequences

CONSTANTS
  Callers,   \* threads that call
  Requests,  \* the inputs of a call; a result is named by its request
  Nothing    \* an empty result, or the request of a caller that never called

VARIABLES
  queue,     \* the callers that wait, in the order of their calls
  busy,      \* whether the first of them has brought its request in
  line,      \* what is to be given out, the oldest first
  request,   \* what each caller last asked
  reply      \* what it was given: a result, "raised", or "none" so far

rvars == <<queue, busy, line, request, reply>>

RInit ==
  /\ queue = <<>>
  /\ busy = FALSE
  /\ line = <<>>
  /\ request = [c \in Callers |-> Nothing]
  /\ reply = [c \in Callers |-> "none"]

Queued(c) == \E j \in DOMAIN queue : queue[j] = c

(* A call that is refused at once.                                         *)
Refuse(c) ==
  /\ ~Queued(c)
  /\ reply' = [reply EXCEPT ![c] = "raised"]
  /\ UNCHANGED <<queue, busy, line, request>>

Submit(c) ==
  /\ ~Queued(c)
  /\ \E r \in Requests : request' = [request EXCEPT ![c] = r]
  /\ reply' = [reply EXCEPT ![c] = "none"]
  /\ queue' = Append(queue, c)
  /\ UNCHANGED <<busy, line>>

(* The call that has waited longest brings its request in.                 *)
Begin ==
  /\ queue # <<>> /\ ~busy
  /\ line' = Append(line, request[Head(queue)])
  /\ busy' = TRUE
  /\ UNCHANGED <<queue, request, reply>>

(* It ends.                                                                *)
End(given) ==
  /\ reply' = [reply EXCEPT ![Head(queue)] = given]
  /\ queue' = Tail(queue)
  /\ busy' = FALSE
  /\ UNCHANGED request

(* It is given what stands first in the line, or finds it unsound.         *)
Serve ==
  /\ busy /\ line # <<>>
  /\ line' = Tail(line)
  /\ \E given \in {Head(line), "raised"} : End(given)

(* It fails: what it has brought in stays in the line, the line is lost or *)
(* its first place is.                                                     *)
Fail ==
  /\ queue # <<>>
  /\ \/ UNCHANGED line
     \/ busy /\ line' = <<>>
     \/ busy /\ line # <<>> /\ line' = Tail(line)
  /\ End("raised")

(* A request in the line turns out to have no result.                      *)
Spoil ==
  /\ \E j \in DOMAIN line : line' = [line EXCEPT ![j] = Nothing]
  /\ UNCHANGED <<queue, busy, request, reply>>

RNext ==
  \/ Begin \/ Serve \/ Fail \/ Spoil
  \/ \E c \in Callers : Refuse(c) \/ Submit(c)

RSpec == RInit /\ [][RNext]_rvars
=============================================================================
