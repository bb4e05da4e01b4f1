----------------------------- MODULE TileGraphs ------------------------------
(***************************************************************************)
(* What the tile graphs of dr0 to dr42 have in common: a chain of workers  *)
(* joined by ObjectFifos, and host calls that fill a request and its       *)
(* descriptor, wait for the terminal result and take an answer from it.    *)
(*                                                                         *)
(* A graph is a record: its stages, the hosts it refuses and what its host *)
(* call compares in a result.  GraphTable and ServiceTable have one for    *)
(* each graph of the repository.                                           *)
(*                                                                         *)
(* A worker's iteration (acquire, kernel, release) is one action.  The     *)
(* runtime executes the host's sequences one at a time in submission       *)
(* order; a dispatch that fails while the host waits leaves the workers    *)
(* running, or takes the tile state down with it.  A payload is named by   *)
(* the request it was computed from.                                       *)
(***************************************************************************)
EXTENDS Integers, Sequences

CONSTANTS
  Callers,      \* threads that call into the graph
  Requests,     \* the inputs of a call
  Ids,          \* request identifiers; every call defaults to the same one
  NoId,         \* the identifier of a token that lost its header
  Nothing,      \* a payload of zero bytes, or one that answers no request
  Depth,        \* buffers of an ObjectFifo
  Graphs,       \* the graphs
  Failing,      \* pairs <<request, stage>>: if the stage can give up, it does
  Builds        \* sets of stages that a build may give an unaligned buffer

VARIABLES
  graph,     \* the graph that is loaded
  host,      \* what the host has: a device, an emulator, packages
  unaligned, \* the stages with an unaligned buffer, fixed by the build
  fifo,      \* fifo[k] has what stage k gives to stage k + 1; fifo[0] requests
  asked,     \* per caller the identifier and the request of its current call
  answer,    \* per caller what its last call gave
  pending,   \* callers in submission order, each waiting for its sequence
  running    \* whether the first pending sequence has been started

setup == <<graph, host, unaligned>>
vars == <<graph, host, unaligned, fifo, asked, answer, pending, running>>

Guards == {"aligned", "forwards", "keeps", "none", "misplaced"}
Works == {"computes", "samples", "serves", "masks"}
Hosts == {"device", "emulator", "no_device", "no_packages"}
GraphRecords ==
  [stages : Seq([guard : Guards, work : Works]), refuses : SUBSET Hosts,
   compares : SUBSET {"id", "status"}]

Errors == {"none", "raised"}
Statuses == {"Ok", "LimitExceeded", "BadToken", "Refused"}
Tokens == [id : Ids \cup {NoId}, status : Statuses, of : Requests \cup {Nothing}]

ASSUME TilesAssumption ==
  /\ Depth \in Nat \ {0}
  /\ NoId \notin Ids
  /\ Requests \cap (Errors \cup {Nothing}) = {}
  /\ Nothing \notin Errors
  /\ Graphs \subseteq GraphRecords
  /\ \A g \in Graphs : g.stages # <<>> /\ "device" \notin g.refuses

Last == Len(graph.stages)
Stages == 1 .. Last

Blank == [id |-> NoId, status |-> "Ok", of |-> Nothing]

(* An ObjectFifo: the tokens in its full buffers, oldest first.            *)
HasToken(k) == fifo[k] # <<>>
HasBuffer(k) == Len(fifo[k]) < Depth
Oldest(k) == Head(fifo[k])

(* Only the kernels that test their buffers can see an unaligned one.      *)
Tests(stage) == stage.guard \in {"aligned", "misplaced"}

Init ==
  /\ graph \in Graphs
  /\ host \in Hosts
  /\ unaligned \in {b \in Builds : \A k \in b : k \in Stages /\ Tests(graph.stages[k])}
  /\ fifo = [k \in 0 .. Last |-> <<>>]
  /\ asked = [c \in Callers |-> [id |-> NoId, request |-> Nothing]]
  /\ answer = [c \in Callers |-> "none"]
  /\ pending = <<>>
  /\ running = FALSE

-----------------------------------------------------------------------------
(* What a kernel does with a token that nothing has gone wrong with.  A    *)
(* matrix sampler that reaches its block cap leaves the payload in the     *)
(* token, a service that refuses writes a status and no payload, and the   *)
(* masking kernel that runs out of attempts overwrites the identifier and  *)
(* goes on.                                                                *)
GivesUp(k, token) ==
  graph.stages[k].work # "computes" /\ <<token.of, k>> \in Failing

Worked(k, token) ==
  LET work == graph.stages[k].work IN
  CASE ~GivesUp(k, token) -> token
    [] GivesUp(k, token) /\ work = "samples" -> [token EXCEPT !.status = "LimitExceeded"]
    [] GivesUp(k, token) /\ work = "masks" -> Blank
    [] OTHER -> [token EXCEPT !.status = "Refused", !.of = Nothing]

(* A token that an earlier stage failed: forwarded with its status, with   *)
(* or without its payload, or not noticed.                                 *)
Passed(k, token) ==
  CASE graph.stages[k].guard = "none" -> Worked(k, token)
    [] graph.stages[k].guard = "keeps" -> token
    [] OTHER -> [token EXCEPT !.of = Nothing]

(* An unaligned buffer loses the header.  A misplaced error word stands in *)
(* another field than the status the host reads: the last stages of        *)
(* ML-KEM-512 decapsulation and of ML-KEM-768 and ML-KEM-1024, FIPS 202,   *)
(* SLH-DSA and FN-DSA.                                                     *)
Lost(k) ==
  IF graph.stages[k].guard = "misplaced" THEN Blank
  ELSE [Blank EXCEPT !.status = "BadToken"]

(* A fault: a failed token is worked on and comes out as a sound one.      *)
ProcessedUnchecked(k, token) ==
  IF k \in unaligned THEN Lost(k) ELSE [Worked(k, token) EXCEPT !.status = "Ok"]
Processed(k, token) ==
  CASE k \in unaligned -> Lost(k)
    [] k \notin unaligned /\ token.status = "Ok" -> Worked(k, token)
    [] OTHER -> Passed(k, token)

(* One token from one ObjectFifo to the next.  The first worker hands back *)
(* both the request and its descriptor.  A fault: a failed token is        *)
(* dropped instead of forwarded.                                           *)
WorkerDropsFailed(k) ==
  /\ HasToken(k - 1) /\ HasBuffer(k)
  /\ LET token == Processed(k, Oldest(k - 1)) IN
     fifo' = [fifo EXCEPT ![k] = IF token.status = "Ok" THEN Append(@, token) ELSE @,
                          ![k - 1] = Tail(@)]
  /\ UNCHANGED <<setup, asked, answer, pending, running>>
Worker(k) ==
  /\ HasToken(k - 1) /\ HasBuffer(k)
  /\ fifo' = [fifo EXCEPT ![k] = Append(@, Processed(k, Oldest(k - 1))),
                          ![k - 1] = Tail(@)]
  /\ UNCHANGED <<setup, asked, answer, pending, running>>

-----------------------------------------------------------------------------
Waiting(c) == \E j \in DOMAIN pending : pending[j] = c

(* Bad lengths and missing packages are found before anything is           *)
(* submitted, and so is a host the graph refuses.                          *)
CallRefused(c) ==
  /\ ~Waiting(c)
  /\ answer' = [answer EXCEPT ![c] = "raised"]
  /\ UNCHANGED <<setup, fifo, asked, pending, running>>

(* A caller takes any identifier: the default, the one of an earlier call  *)
(* or one of its own.                                                      *)
CallStarts(c) ==
  /\ ~Waiting(c)
  /\ host \notin graph.refuses
  /\ \E id \in Ids, r \in Requests :
       asked' = [asked EXCEPT ![c] = [id |-> id, request |-> r]]
  /\ answer' = [answer EXCEPT ![c] = "none"]
  /\ pending' = Append(pending, c)
  /\ UNCHANGED <<setup, fifo, running>>

(* The sequence of the first caller fills the request and the descriptor.  *)
(* A fault: it waits until nothing is left on the tiles.                   *)
FillWhenIdle ==
  /\ pending # <<>> /\ ~running /\ host # "no_device"
  /\ \A k \in 0 .. Last : ~HasToken(k)
  /\ LET call == asked[Head(pending)] IN
     fifo' = [fifo EXCEPT
       ![0] = Append(@, [id |-> call.id, status |-> "Ok", of |-> call.request])]
  /\ running' = TRUE
  /\ UNCHANGED <<setup, asked, answer, pending>>
Fill ==
  /\ pending # <<>> /\ ~running /\ host # "no_device"
  /\ HasBuffer(0)
  /\ LET call == asked[Head(pending)] IN
     fifo' = [fifo EXCEPT
       ![0] = Append(@, [id |-> call.id, status |-> "Ok", of |-> call.request])]
  /\ running' = TRUE
  /\ UNCHANGED <<setup, asked, answer, pending>>

(* The first caller's call ends with an answer.  A fault: its sequence is  *)
(* taken to run still.                                                     *)
ReturnsStillRunning(a) ==
  /\ answer' = [answer EXCEPT ![Head(pending)] = a]
  /\ pending' = Tail(pending)
  /\ UNCHANGED running
Returns(a) ==
  /\ answer' = [answer EXCEPT ![Head(pending)] = a]
  /\ pending' = Tail(pending)
  /\ running' = FALSE

(* What the host makes of a result: the fields it compares must be right.  *)
Unpacked(token, id) ==
  IF /\ "id" \in graph.compares => token.id = id
     /\ "status" \in graph.compares => token.status = "Ok"
  THEN token.of ELSE "raised"

(* The drain completes and the host unpacks the oldest terminal result.    *)
(* Nothing says which call it belongs to.  A fault: the buffer is not      *)
(* handed back to the last worker.                                         *)
DrainUnreleased ==
  /\ running /\ HasToken(Last)
  /\ Returns(Unpacked(Oldest(Last), asked[Head(pending)].id))
  /\ UNCHANGED <<setup, fifo, asked>>
Drain ==
  /\ running /\ HasToken(Last)
  /\ fifo' = [fifo EXCEPT ![Last] = Tail(@)]
  /\ Returns(Unpacked(Oldest(Last), asked[Head(pending)].id))
  /\ UNCHANGED <<setup, asked>>

(* The dispatch raises: before it fills anything, while the host waits     *)
(* with the tokens going on through the workers or lost with the context,  *)
(* or with the result drained, as it is brought to the host.               *)
LaunchFails ==
  /\ pending # <<>> /\ ~running
  /\ Returns("raised")
  /\ UNCHANGED <<setup, fifo, asked>>

DispatchFails ==
  /\ running
  /\ \/ UNCHANGED fifo
     \/ fifo' = [k \in 0 .. Last |-> <<>>]
     \/ HasToken(Last) /\ fifo' = [fifo EXCEPT ![Last] = Tail(@)]
  /\ Returns("raised")
  /\ UNCHANGED <<setup, asked>>

(* Without a device a launch can only fail.                                *)
NoDevice == host = "no_device" /\ LaunchFails

Next ==
  \/ \E k \in Stages : Worker(k)
  \/ Fill \/ Drain \/ LaunchFails \/ DispatchFails
  \/ \E c \in Callers : CallRefused(c) \/ CallStarts(c)

(* Each worker loops forever on its own tile, the runtime goes on with the *)
(* sequence it is in and reports a missing device.  Nobody has to call,    *)
(* and nothing else has to fail.                                           *)
AllStages == UNION {DOMAIN g.stages : g \in Graphs}
Fairness ==
  /\ \A k \in AllStages : WF_vars(k \in Stages /\ Worker(k))
  /\ WF_vars(Fill) /\ WF_vars(Drain) /\ WF_vars(NoDevice)

Spec == Init /\ [][Next]_vars /\ Fairness

-----------------------------------------------------------------------------
(* Every variable has its type: no ObjectFifo holds more tokens than it    *)
(* has buffers, and a sequence runs only for a caller that waits.          *)
TileTypeOK ==
  /\ graph \in Graphs
  /\ host \in Hosts
  /\ unaligned \subseteq Stages
  /\ fifo \in [0 .. Last -> Seq(Tokens)]
  /\ \A k \in 0 .. Last : Len(fifo[k]) <= Depth
  /\ asked \in [Callers -> [id : Ids \cup {NoId}, request : Requests \cup {Nothing}]]
  /\ answer \in [Callers -> Requests \cup Errors \cup {Nothing}]
  /\ pending \in Seq(Callers)
  /\ running => pending # <<>>

(* "Return device-produced byte-exact K (32 B) or fail closed": a call     *)
(* returns the result of its own request or raises.  The identifier that   *)
(* run_mlkem512_decaps compares is the same for every call that does not   *)
(* choose one.                                                             *)
OwnAnswer ==
  \A c \in Callers : answer[c] \in Requests => answer[c] = asked[c].request

(* A foreign result never ends the matter: the call that gets one leaves a *)
(* token behind, its own, so a graph with empty FIFOs has given its last   *)
(* caller the result of its own request.  The chain neither loses, doubles *)
(* nor reorders tokens, whatever dispatches have failed before.            *)
ForeignLeavesOwn ==
  [][\A c \in Callers :
       /\ answer'[c] # answer[c] /\ answer'[c] \in Requests
       /\ \A k \in 0 .. Last : fifo'[k] = <<>>
       => answer'[c] = asked[c].request]_vars

(* The payloads on the tiles, the oldest first.                            *)
PayloadsFrom[k \in 0 .. Last] ==
  LET here == [j \in DOMAIN fifo[k] |-> fifo[k][j].of] IN
  IF k = Last THEN here ELSE PayloadsFrom[k + 1] \o here

(* The graph without its tiles.                                            *)
Calls == INSTANCE RemoteCalls WITH
  queue <- pending,
  request <- [c \in Callers |-> asked[c].request],
  reply <- answer,
  busy <- running,
  line <- PayloadsFrom[0]

(* The chain of workers behaves like one line of payloads: a late result   *)
(* is handed out in its turn and once, and no stage gives a payload another*)
(* request's content.                                                      *)
ImplementsCalls == Calls!RSpec

(* The kernels report a failure where the host looks.  Not so the masking  *)
(* loop of ML-DSA signing and the misplaced error words, unless the host   *)
(* compares the identifier they have lost.                                 *)
Truthful ==
  /\ "status" \in graph.compares
  /\ \/ "id" \in graph.compares
     \/ \A k \in Stages :
          /\ graph.stages[k].work # "masks"
          /\ k \in unaligned => graph.stages[k].guard # "misplaced"

(* Fail closed: a host that looks where the kernels report returns no      *)
(* result of a request some stage gave up on, none of a build with an      *)
(* unaligned buffer and never an empty one, also when the result is a late *)
(* one; a refused host gets no result at all.                              *)
FailsClosed ==
  \A c \in Callers :
    /\ Truthful => answer[c] # Nothing
    /\ Truthful /\ answer[c] \in Requests =>
         /\ unaligned = {}
         /\ \A k \in Stages :
              graph.stages[k].work # "computes" => <<answer[c], k>> \notin Failing
    /\ host \in graph.refuses => answer[c] \in Errors

(* A step that needs no failure and no new call.                           *)
GoesOn ==
  \/ \E k \in Stages : HasToken(k - 1) /\ HasBuffer(k)
  \/ running /\ HasToken(Last)
  \/ ~running /\ (HasBuffer(0) \/ host = "no_device")

(* The results of failed dispatches fill every buffer, and the sequence of *)
(* the first caller cannot begin.                                          *)
Clogged == pending # <<>> /\ ~running /\ \A k \in 0 .. Last : ~HasBuffer(k)

(* Workers, runtime and host never wait for each other in a circle: while  *)
(* a caller waits one of them can go on, unless the graph is clogged.      *)
StopsOnlyClogged == pending # <<>> => GoesOn \/ Clogged

(* Every call returns or raises, with any number of late results ahead of  *)
(* its own, unless they clog the graph: nobody drains them then, and the   *)
(* host waits without a timeout.                                           *)
EveryCallReturns ==
  \A c \in Callers : Waiting(c) ~> ~Waiting(c) \/ Clogged
=============================================================================
