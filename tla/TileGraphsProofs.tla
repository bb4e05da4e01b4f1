-------------------------- MODULE TileGraphsProofs ---------------------------
(***************************************************************************)
(* Proofs about the safety of TileGraphs, for every set of graphs, every   *)
(* number of callers, requests and identifiers, every depth of the         *)
(* ObjectFifos and every number of results that failed dispatches leave    *)
(* behind.                                                                 *)
(*                                                                         *)
(* The inductive invariant follows a token along the chain: none that the  *)
(* host would accept has passed a stage that should have failed it, and    *)
(* the newest one was computed from the request of the call that runs.     *)
(***************************************************************************)
EXTENDS TileGraphs, WellFoundedInduction, TLAPS

Chain == 0 .. Last

(* A token that bears all the host compares has a payload and passed no    *)
(* stage that should have failed it.                                       *)
Sound(k, t) ==
  t.status = "Ok" /\ ("id" \in graph.compares => t.id # NoId) =>
    /\ t.of \in Requests
    /\ \A j \in 1 .. k :
         /\ j \notin unaligned
         /\ graph.stages[j].work # "computes" => <<t.of, j>> \notin Failing

AllSound ==
  Truthful => \A k \in Chain : \A j \in 1 .. Len(fifo[k]) : Sound(k, fifo[k][j])

(* Callers that wait have requests and identifiers.                        *)
Waiters ==
  \A i \in 1 .. Len(pending) :
    asked[pending[i]].id \in Ids /\ asked[pending[i]].request \in Requests

NoneRefused == host \in graph.refuses => pending = <<>>

(* What a caller may have as an answer.                                    *)
GoodAnswer(a) ==
  /\ Truthful => a # Nothing
  /\ Truthful /\ a \in Requests =>
       /\ unaligned = {}
       /\ \A k \in Stages :
            graph.stages[k].work # "computes" => <<a, k>> \notin Failing
  /\ host \in graph.refuses => a \in Errors

PInv ==
  /\ TileTypeOK
  /\ AllSound
  /\ Waiters
  /\ NoneRefused
  /\ FailsClosed

-----------------------------------------------------------------------------
(* What a producer's release does to the sequence of full buffers.         *)
LEMMA Pushed ==
  ASSUME NEW S, NEW s \in Seq(S), NEW e \in S
  PROVE  /\ Append(s, e) \in Seq(S)
         /\ Len(Append(s, e)) = Len(s) + 1
         /\ Append(s, e)[Len(s) + 1] = e
         /\ \A j \in 1 .. Len(Append(s, e)) :
              \/ j \in 1 .. Len(s) /\ Append(s, e)[j] = s[j]
              \/ j = Len(s) + 1 /\ Append(s, e)[j] = e
OBVIOUS

(* What a consumer's release does to it.                                   *)
LEMMA Popped ==
  ASSUME NEW S, NEW s \in Seq(S), s # <<>>
  PROVE  /\ Tail(s) \in Seq(S)
         /\ Len(Tail(s)) = Len(s) - 1
         /\ 1 \in 1 .. Len(s)
         /\ Head(s) = s[1]
         /\ Head(s) \in S
         /\ \A j \in 1 .. Len(Tail(s)) : j + 1 \in 1 .. Len(s) /\ Tail(s)[j] = s[j + 1]
OBVIOUS

(* Both, for an ObjectFifo that has at most Depth full buffers.            *)
LEMMA PushedFifo ==
  ASSUME NEW S, NEW s \in Seq(S), NEW e \in S, Len(s) < Depth, Depth \in Nat
  PROVE  /\ Append(s, e) \in Seq(S)
         /\ Len(Append(s, e)) <= Depth
         /\ \A j \in 1 .. Len(Append(s, e)) :
              \/ \E i \in 1 .. Len(s) : Append(s, e)[j] = s[i]
              \/ Append(s, e)[j] = e
<1>1. Len(s) \in Nat /\ Len(Append(s, e)) = Len(s) + 1
  OBVIOUS
<1> QED BY <1>1, Pushed

(* And for one whose oldest token is handed back.                          *)
LEMMA PoppedFifo ==
  ASSUME NEW S, NEW s \in Seq(S), s # <<>>, Len(s) <= Depth, Depth \in Nat
  PROVE  /\ Tail(s) \in Seq(S)
         /\ Len(Tail(s)) <= Depth
         /\ \A j \in 1 .. Len(Tail(s)) : \E i \in 1 .. Len(s) : Tail(s)[j] = s[i]
<1>1. Len(s) \in Nat /\ Len(Tail(s)) = Len(s) - 1
  OBVIOUS
<1> QED BY <1>1, Popped

(* What a sequence of S holds.                                             *)
LEMMA Element ==
  ASSUME NEW S, NEW s \in Seq(S), NEW k \in 1 .. Len(s)
  PROVE  s[k] \in S
OBVIOUS

(* The loaded graph is a record of the table: it has stages.               *)
LEMMA GraphFacts ==
  ASSUME TileTypeOK
  PROVE  /\ graph \in GraphRecords
         /\ Last \in Nat \ {0}
         /\ Depth \in Nat \ {0}
         /\ \A k \in Stages : graph.stages[k].guard \in Guards /\ graph.stages[k].work \in Works
<1>1. graph \in GraphRecords /\ graph.stages # <<>> /\ Depth \in Nat \ {0}
  BY TilesAssumption DEF TileTypeOK
<1>2. graph.stages \in Seq([guard : Guards, work : Works])
  BY <1>1 DEF GraphRecords
<1>3. Last \in Nat \ {0}
  BY <1>1, <1>2 DEF Last
<1>4. ASSUME NEW k \in Stages
      PROVE  graph.stages[k].guard \in Guards /\ graph.stages[k].work \in Works
  <2>1. graph.stages[k] \in [guard : Guards, work : Works]
    BY <1>2, Element DEF Last, Stages
  <2> QED BY <2>1
<1> QED BY <1>1, <1>3, <1>4

(* A step keeps the tokens sound if those it adds are.                     *)
LEMMA SoundKept ==
  ASSUME AllSound, UNCHANGED setup,
         Truthful => \A k \in Chain : \A j \in 1 .. Len(fifo'[k]) :
           \/ \E i \in 1 .. Len(fifo[k]) : fifo'[k][j] = fifo[k][i]
           \/ Sound(k, fifo'[k][j])
  PROVE  AllSound'
<1>1. graph' = graph /\ unaligned' = unaligned
  BY DEF setup
<1>2. Truthful' <=> Truthful
  BY <1>1 DEF Truthful, Stages, Last
<1> SUFFICES ASSUME Truthful, NEW k \in Chain, NEW j \in 1 .. Len(fifo'[k])
             PROVE  Sound(k, fifo[k][j])'
  BY <1>1, <1>2 DEF AllSound, Chain, Last
<1>3. Sound(k, fifo'[k][j])
  BY DEF AllSound
<1> QED BY <1>1, <1>3 DEF Sound

(* Answers are good caller by caller.                                      *)
LEMMA AnswersKept ==
  ASSUME FailsClosed, UNCHANGED setup,
         \A c \in Callers : answer'[c] = answer[c] \/ GoodAnswer(answer'[c])
  PROVE  FailsClosed'
<1>1. graph' = graph /\ unaligned' = unaligned /\ host' = host
  BY DEF setup
<1>2. Truthful' <=> Truthful
  BY <1>1 DEF Truthful, Stages, Last
<1>3. ASSUME NEW c \in Callers
      PROVE  GoodAnswer(answer'[c])
  <2>1. GoodAnswer(answer[c])
    BY DEF FailsClosed, GoodAnswer
  <2> QED BY <2>1
<1> QED BY <1>1, <1>2, <1>3 DEF FailsClosed, GoodAnswer, Stages, Last

-----------------------------------------------------------------------------
(* What a kernel makes of a token: the token itself, one that is no longer *)
(* Ok and was computed from the same request, or a blank one.              *)
LEMMA WorkedToken ==
  ASSUME NEW k \in Stages, graph.stages[k].work \in Works, NEW t \in Tokens
  PROVE  /\ Worked(k, t) \in Tokens
         /\ \/ Worked(k, t) = t /\ ~GivesUp(k, t)
            \/ Worked(k, t).status # "Ok" /\ Worked(k, t).of \in {t.of, Nothing}
            \/ graph.stages[k].work = "masks" /\ Worked(k, t) = Blank
<1>1. CASE ~GivesUp(k, t)
  BY <1>1 DEF Worked
<1>2. CASE GivesUp(k, t) /\ graph.stages[k].work = "samples"
  BY <1>2 DEF Worked, Tokens, Statuses
<1>3. CASE GivesUp(k, t) /\ graph.stages[k].work = "masks"
  BY <1>3 DEF Worked, Blank, Tokens, Statuses
<1>4. CASE GivesUp(k, t) /\ graph.stages[k].work \notin {"samples", "masks"}
  BY <1>4 DEF Worked, Tokens, Statuses
<1> QED BY <1>1, <1>2, <1>3, <1>4

(* What a stage gives is sound, and a payload comes from the same request. *)
LEMMA ProcessedGood ==
  ASSUME TileTypeOK, NEW k \in Stages, NEW t \in Tokens,
         Truthful => Sound(k - 1, t)
  PROVE  /\ Processed(k, t) \in Tokens
         /\ Processed(k, t).of \in {t.of, Nothing}
         /\ Truthful => Sound(k, Processed(k, t))
<1>1. k \in Nat \ {0} /\ graph.stages[k].work \in Works
  BY GraphFacts DEF Stages
<1>2. ASSUME Truthful, "id" \notin graph.compares
      PROVE  /\ graph.stages[k].work # "masks"
             /\ k \in unaligned => graph.stages[k].guard # "misplaced"
  BY <1>2 DEF Truthful
<1>3. CASE k \in unaligned
  <2>1. Processed(k, t) = Lost(k)
    BY <1>3 DEF Processed
  <2>2. /\ Lost(k) \in Tokens /\ Lost(k).of = Nothing /\ Lost(k).id = NoId
        /\ graph.stages[k].guard # "misplaced" => Lost(k).status # "Ok"
    BY DEF Lost, Blank, Tokens, Statuses
  <2> QED BY <2>1, <2>2, <1>2, <1>3 DEF Sound
<1>4. CASE k \notin unaligned /\ t.status = "Ok"
  <2>1. Processed(k, t) = Worked(k, t)
    BY <1>4 DEF Processed
  <2>2. CASE Worked(k, t) = t /\ ~GivesUp(k, t)
    <3>1. ASSUME Truthful, "id" \in graph.compares => t.id # NoId
          PROVE  Sound(k, t)
      <4>1. t.of \in Requests
        BY <1>4, <3>1 DEF Sound
      <4>2. ASSUME NEW j \in 1 .. k
            PROVE  /\ j \notin unaligned
                   /\ graph.stages[j].work # "computes" => <<t.of, j>> \notin Failing
        <5>1. CASE j = k
          BY <5>1, <1>4, <2>2 DEF GivesUp
        <5>2. CASE j # k
          <6>1. j \in 1 .. k - 1
            BY <5>2, <1>1
          <6> QED BY <6>1, <3>1, <1>4 DEF Sound
        <5> QED BY <5>1, <5>2
      <4> QED BY <4>1, <4>2 DEF Sound
    <3>2. ASSUME ~ ("id" \in graph.compares => t.id # NoId)
          PROVE  Sound(k, t)
      BY <3>2 DEF Sound
    <3> QED BY <2>1, <2>2, <3>1, <3>2
  <2>3. CASE /\ Worked(k, t).status # "Ok"
             /\ Worked(k, t).of \in {t.of, Nothing}
    BY <2>1, <2>3, <1>1, WorkedToken DEF Sound
  <2>4. CASE graph.stages[k].work = "masks" /\ Worked(k, t) = Blank
    <3>1. Worked(k, t).of = Nothing /\ Worked(k, t).id = NoId
      BY <2>4 DEF Blank
    <3> QED BY <2>1, <2>4, <3>1, <1>1, <1>2, WorkedToken DEF Sound
  <2> QED BY <2>2, <2>3, <2>4, <1>1, WorkedToken
<1>5. CASE k \notin unaligned /\ t.status # "Ok"
  <2>1. Processed(k, t) = Passed(k, t)
    BY <1>5 DEF Processed
  <2>2. CASE graph.stages[k].guard = "none"
    <3>1. Processed(k, t) = Worked(k, t)
      BY <2>1, <2>2 DEF Passed
    <3>2. /\ Worked(k, t) \in Tokens
          /\ Worked(k, t).of \in {t.of, Nothing}
          /\ \/ Worked(k, t).status # "Ok"
             \/ graph.stages[k].work = "masks" /\ Worked(k, t).id = NoId
      BY <1>1, <1>5, WorkedToken DEF Blank
    <3> QED BY <3>1, <3>2, <1>2 DEF Sound
  <2>3. CASE graph.stages[k].guard = "keeps"
    <3>1. Processed(k, t) = t
      BY <2>1, <2>3 DEF Passed
    <3> QED BY <3>1, <1>5 DEF Sound
  <2>4. CASE graph.stages[k].guard \notin {"none", "keeps"}
    <3>1. Processed(k, t) = [t EXCEPT !.of = Nothing]
      BY <2>1, <2>4 DEF Passed
    <3>2. /\ Processed(k, t) \in Tokens
          /\ Processed(k, t).status # "Ok" /\ Processed(k, t).of = Nothing
      BY <3>1, <1>5 DEF Tokens
    <3> QED BY <3>2 DEF Sound
  <2> QED BY <2>2, <2>3, <2>4
<1> QED BY <1>3, <1>4, <1>5

(* The token at the head of an ObjectFifo.                                 *)
LEMMA OldestGood ==
  ASSUME PInv, NEW k \in Chain, HasToken(k)
  PROVE  /\ Oldest(k) \in Tokens
         /\ Truthful => Sound(k, Oldest(k))
<1>1. fifo[k] \in Seq(Tokens) /\ fifo[k] # <<>>
  BY DEF PInv, TileTypeOK, Chain, HasToken
<1>2. 1 \in 1 .. Len(fifo[k]) /\ Oldest(k) = fifo[k][1] /\ Oldest(k) \in Tokens
  BY <1>1, Popped DEF Oldest
<1> QED BY <1>2 DEF PInv, AllSound

-----------------------------------------------------------------------------
(* One ObjectFifo loses its oldest token and another gets a new one.       *)
Moves(from, to, token) ==
  /\ HasToken(from) /\ HasBuffer(to)
  /\ fifo' = [fifo EXCEPT ![to] = Append(@, token), ![from] = Tail(@)]

(* What they hold after that.                                              *)
LEMMA Moved ==
  ASSUME TileTypeOK, NEW from \in Chain, NEW to \in Chain, from # to,
         NEW token \in Tokens, Moves(from, to, token)
  PROVE  /\ fifo' \in [Chain -> Seq(Tokens)]
         /\ \A k \in Chain : Len(fifo'[k]) <= Depth
         /\ \A k \in Chain : \A j \in 1 .. Len(fifo'[k]) :
              \/ \E i \in 1 .. Len(fifo[k]) : fifo'[k][j] = fifo[k][i]
              \/ k = to /\ fifo'[k][j] = token
<1>1. /\ fifo \in [Chain -> Seq(Tokens)]
      /\ fifo[from] # <<>> /\ Len(fifo[to]) < Depth
      /\ Depth \in Nat
      /\ \A k \in Chain : fifo[k] \in Seq(Tokens) /\ Len(fifo[k]) \in Nat /\ Len(fifo[k]) <= Depth
  <2>1. fifo \in [Chain -> Seq(Tokens)] /\ \A k \in Chain : Len(fifo[k]) <= Depth
    BY DEF TileTypeOK, Chain
  <2>2. fifo[from] # <<>> /\ Len(fifo[to]) < Depth /\ Depth \in Nat
    BY TilesAssumption DEF Moves, HasToken, HasBuffer
  <2>3. ASSUME NEW k \in Chain
        PROVE  fifo[k] \in Seq(Tokens) /\ Len(fifo[k]) \in Nat
    <3>1. fifo[k] \in Seq(Tokens)
      BY <2>1
    <3> QED BY <3>1
  <2> QED BY <2>1, <2>2, <2>3
<1>2. /\ fifo'[to] = Append(fifo[to], token)
      /\ fifo'[from] = Tail(fifo[from])
      /\ \A k \in Chain \ {from, to} : fifo'[k] = fifo[k]
      /\ fifo' = [k \in Chain |-> fifo'[k]]
  BY <1>1 DEF Moves
<1>3. ASSUME NEW k \in Chain
      PROVE  /\ fifo'[k] \in Seq(Tokens)
             /\ Len(fifo'[k]) <= Depth
             /\ \A j \in 1 .. Len(fifo'[k]) :
                  \/ \E i \in 1 .. Len(fifo[k]) : fifo'[k][j] = fifo[k][i]
                  \/ k = to /\ fifo'[k][j] = token
  <2>1. CASE k = to
    <3>1. fifo'[k] = Append(fifo[k], token) /\ fifo[k] \in Seq(Tokens) /\ Len(fifo[k]) < Depth
      BY <2>1, <1>1, <1>2
    <3> DEFINE new == Append(fifo[k], token)
    <3>2. /\ new \in Seq(Tokens) /\ Len(new) <= Depth
          /\ \A j \in 1 .. Len(new) :
               (\E i \in 1 .. Len(fifo[k]) : new[j] = fifo[k][i]) \/ new[j] = token
      BY <3>1, <1>1, PushedFifo
    <3>3. fifo'[k] = new
      BY <3>1
    <3> HIDE DEF new
    <3> QED BY <2>1, <3>2, <3>3
  <2>2. CASE k = from
    <3>1. fifo'[k] = Tail(fifo[k]) /\ fifo[k] \in Seq(Tokens) /\ fifo[k] # <<>>
      BY <2>2, <1>1, <1>2
    <3> QED BY <2>2, <3>1, <1>1, PoppedFifo
  <2>3. CASE k \notin {from, to}
    BY <2>3, <1>1, <1>2
  <2> QED BY <2>1, <2>2, <2>3
<1> QED BY <1>2, <1>3

(* A worker keeps the invariant: it works on a sound token and leaves the  *)
(* callers alone.                                                          *)
LEMMA WorkerInv ==
  ASSUME PInv, NEW k \in Stages, Worker(k)
  PROVE  PInv'
<1> DEFINE token == Processed(k, Oldest(k - 1))
<1>1. k \in Chain /\ k - 1 \in Chain /\ k - 1 # k /\ HasToken(k - 1) /\ HasBuffer(k)
  BY GraphFacts DEF PInv, Stages, Chain, Worker
<1>2. /\ UNCHANGED setup
      /\ UNCHANGED <<asked, answer, pending, running>>
      /\ fifo' = [fifo EXCEPT ![k] = Append(@, token), ![k - 1] = Tail(@)]
  BY DEF Worker
<1>3. /\ Oldest(k - 1) \in Tokens
      /\ Truthful => Sound(k - 1, Oldest(k - 1))
  BY <1>1, OldestGood
<1>4. /\ token \in Tokens
      /\ Truthful => Sound(k, token)
  BY <1>3, ProcessedGood DEF PInv
<1> HIDE DEF token
<1>5. /\ fifo' \in [Chain -> Seq(Tokens)]
      /\ \A i \in Chain : Len(fifo'[i]) <= Depth
      /\ \A i \in Chain : \A j \in 1 .. Len(fifo'[i]) :
           \/ \E m \in 1 .. Len(fifo[i]) : fifo'[i][j] = fifo[i][m]
           \/ i = k /\ fifo'[i][j] = token
  <2>1. TileTypeOK
    BY DEF PInv
  <2>2. Moves(k - 1, k, token)
    BY <1>1, <1>2 DEF Moves
  <2> QED BY <2>1, <2>2, <1>1, <1>4, Moved
<1>6. TileTypeOK'
  BY <1>2, <1>5 DEF PInv, TileTypeOK, setup, Stages, Last, Chain
<1>7. AllSound'
  BY <1>2, <1>4, <1>5, SoundKept DEF PInv
<1>8. Waiters' /\ NoneRefused'
  BY <1>2 DEF PInv, Waiters, NoneRefused, setup
<1>9. FailsClosed'
  BY <1>2, AnswersKept DEF PInv
<1> QED BY <1>6, <1>7, <1>8, <1>9 DEF PInv

(* The first caller's sequence fills its request: the new token is sound.  *)
LEMMA FillInv == ASSUME PInv, Fill PROVE PInv'
<1> DEFINE call == asked[Head(pending)]
           token == [id |-> call.id, status |-> "Ok", of |-> call.request]
<1>1. /\ 0 \in Chain /\ fifo \in [Chain -> Seq(Tokens)] /\ Depth \in Nat
      /\ \A k \in Chain : Len(fifo[k]) <= Depth
      /\ Len(fifo[0]) < Depth /\ pending \in Seq(Callers) /\ pending # <<>>
  BY GraphFacts DEF PInv, TileTypeOK, Fill, HasBuffer, Chain
<1>2. /\ UNCHANGED setup
      /\ UNCHANGED <<asked, answer, pending>>
      /\ fifo' = [fifo EXCEPT ![0] = Append(@, token)]
  BY DEF Fill
<1>3. /\ 1 \in 1 .. Len(pending) /\ call = asked[pending[1]]
      /\ call.id \in Ids /\ call.request \in Requests
  BY <1>1, Popped DEF PInv, Waiters
<1>4. /\ token \in Tokens /\ token.id = call.id
      /\ token.of = call.request /\ token.status = "Ok"
  BY <1>3 DEF Tokens, Statuses
<1>5. Sound(0, token)
  BY <1>3, <1>4 DEF Sound
<1> HIDE DEF token, call
<1>7. /\ fifo'[0] = Append(fifo[0], token)
      /\ \A k \in Chain \ {0} : fifo'[k] = fifo[k]
      /\ fifo' = [k \in Chain |-> fifo'[k]]
  BY <1>1, <1>2
<1>8. ASSUME NEW k \in Chain
      PROVE  /\ fifo'[k] \in Seq(Tokens)
             /\ Len(fifo'[k]) <= Depth
             /\ \A j \in 1 .. Len(fifo'[k]) :
                  \/ \E i \in 1 .. Len(fifo[k]) : fifo'[k][j] = fifo[k][i]
                  \/ k = 0 /\ fifo'[k][j] = token
  <2>1. CASE k = 0
    <3> DEFINE new == Append(fifo[k], token)
    <3>1. /\ fifo[k] \in Seq(Tokens) /\ Len(fifo[k]) < Depth
          /\ token \in Tokens /\ Depth \in Nat
      BY <2>1, <1>1, <1>4
    <3>2. /\ new \in Seq(Tokens) /\ Len(new) <= Depth
          /\ \A j \in 1 .. Len(new) :
               (\E i \in 1 .. Len(fifo[k]) : new[j] = fifo[k][i]) \/ new[j] = token
      BY <3>1, PushedFifo
    <3>3. fifo'[k] = new
      BY <2>1, <1>7
    <3> HIDE DEF new
    <3> QED BY <2>1, <3>2, <3>3
  <2>2. CASE k # 0
    BY <2>2, <1>1, <1>7
  <2> QED BY <2>1, <2>2
<1>9. TileTypeOK'
  BY <1>1, <1>2, <1>7, <1>8 DEF PInv, TileTypeOK, setup, Stages, Last, Chain
<1>10. AllSound'
  BY <1>2, <1>5, <1>8, SoundKept DEF PInv
<1>11. Waiters' /\ NoneRefused'
  BY <1>2 DEF PInv, Waiters, NoneRefused, setup
<1>12. FailsClosed'
  BY <1>2, AnswersKept DEF PInv
<1> QED BY <1>9, <1>10, <1>11, <1>12 DEF PInv

-----------------------------------------------------------------------------
(* The first caller stops waiting, with an answer it may have.             *)
LEMMA ReturnInv ==
  ASSUME PInv, pending # <<>>, UNCHANGED setup, UNCHANGED asked,
         NEW a \in Requests \cup Errors \cup {Nothing}, Returns(a), GoodAnswer(a),
         fifo' \in [Chain -> Seq(Tokens)],
         \A k \in Chain : Len(fifo'[k]) <= Depth,
         \A k \in Chain : \A j \in 1 .. Len(fifo'[k]) :
           \E i \in 1 .. Len(fifo[k]) : fifo'[k][j] = fifo[k][i]
  PROVE  PInv'
<1> DEFINE c == Head(pending)
<1>1. /\ pending \in Seq(Callers) /\ c \in Callers /\ c = pending[1]
      /\ pending' = Tail(pending) /\ pending' \in Seq(Callers) /\ ~running'
      /\ \A i \in 1 .. Len(pending') :
           i + 1 \in 1 .. Len(pending) /\ pending'[i] = pending[i + 1]
  BY Popped DEF PInv, TileTypeOK, Returns
<1>2. /\ answer' = [answer EXCEPT ![c] = a]
      /\ answer \in [Callers -> Requests \cup Errors \cup {Nothing}]
  BY DEF PInv, TileTypeOK, Returns
<1>3. answer'[c] = a /\ \A d \in Callers \ {c} : answer'[d] = answer[d]
  BY <1>1, <1>2
<1>4. TileTypeOK'
  <2>1. answer' \in [Callers -> Requests \cup Errors \cup {Nothing}]
    BY <1>1, <1>2
  <2> HIDE DEF c
  <2> QED BY <1>1, <2>1 DEF PInv, TileTypeOK, setup, Stages, Last, Chain
<1>5. AllSound'
  BY SoundKept DEF PInv
<1>6. Waiters'
  BY <1>1 DEF PInv, Waiters
<1>7. NoneRefused'
  BY DEF PInv, NoneRefused, setup
<1>8. FailsClosed'
  BY <1>3, AnswersKept DEF PInv
<1> QED BY <1>4, <1>5, <1>6, <1>7, <1>8 DEF PInv

(* A completed drain: a result that the host accepts is what its fields    *)
(* say.                                                                    *)
LEMMA DrainInv == ASSUME PInv, Drain PROVE PInv'
<1> DEFINE token == Oldest(Last)
           c == Head(pending)
           a == Unpacked(token, asked[c].id)
<1>1. /\ Last \in Chain /\ Last \in Nat
      /\ fifo \in [Chain -> Seq(Tokens)] /\ \A k \in Chain : Len(fifo[k]) <= Depth
      /\ HasToken(Last) /\ fifo[Last] # <<>> /\ Depth \in Nat
      /\ pending \in Seq(Callers) /\ pending # <<>>
  BY GraphFacts DEF PInv, TileTypeOK, Drain, HasToken, Chain
<1>2. c = pending[1] /\ 1 \in 1 .. Len(pending)
  BY <1>1, Popped
<1>3. token \in Tokens /\ (Truthful => Sound(Last, token))
  BY <1>1, OldestGood
<1>4. a \in Requests \cup Errors \cup {Nothing}
  BY <1>3 DEF Unpacked, Errors, Tokens
<1>5. GoodAnswer(a)
  <2>1. "raised" \in Errors /\ "raised" \notin Requests /\ "raised" # Nothing
    BY TilesAssumption DEF Errors
  <2>2. host \notin graph.refuses
    BY <1>1 DEF PInv, NoneRefused
  <2>3. CASE a = "raised"
    BY <2>1, <2>2, <2>3 DEF GoodAnswer
  <2>4. CASE a # "raised"
    <3>1. /\ a = token.of
          /\ "id" \in graph.compares => token.id = asked[c].id
          /\ "status" \in graph.compares => token.status = "Ok"
      BY <2>4 DEF Unpacked
    <3>2. asked[c].id # NoId
      BY <1>2, TilesAssumption DEF PInv, Waiters
    <3>3. ASSUME Truthful
          PROVE  /\ a # Nothing
                 /\ unaligned = {}
                 /\ \A k \in Stages :
                      graph.stages[k].work # "computes" => <<a, k>> \notin Failing
      <4>1. token.status = "Ok" /\ ("id" \in graph.compares => token.id # NoId)
        BY <3>1, <3>2, <3>3 DEF Truthful
      <4>2. /\ token.of \in Requests
            /\ \A k \in Stages :
                 /\ k \notin unaligned
                 /\ graph.stages[k].work # "computes" => <<token.of, k>> \notin Failing
        BY <4>1, <3>3, <1>3 DEF Sound, Stages
      <4>3. unaligned \subseteq Stages
        BY DEF PInv, TileTypeOK
      <4> QED BY <3>1, <4>2, <4>3, TilesAssumption
    <3> QED BY <2>2, <3>3 DEF GoodAnswer
  <2> QED BY <2>3, <2>4
<1>6. /\ fifo' = [fifo EXCEPT ![Last] = Tail(@)]
      /\ Returns(a) /\ UNCHANGED setup /\ UNCHANGED asked
  BY DEF Drain
<1> HIDE DEF token, a
<1>7. /\ fifo'[Last] = Tail(fifo[Last])
      /\ \A k \in Chain \ {Last} : fifo'[k] = fifo[k]
      /\ fifo' = [k \in Chain |-> fifo'[k]]
  BY <1>1, <1>6
<1>8. ASSUME NEW k \in Chain
      PROVE  /\ fifo'[k] \in Seq(Tokens)
             /\ Len(fifo'[k]) <= Depth
             /\ \A j \in 1 .. Len(fifo'[k]) :
                  \E i \in 1 .. Len(fifo[k]) : fifo'[k][j] = fifo[k][i]
  <2>1. CASE k = Last
    <3>1. /\ fifo'[k] = Tail(fifo[k]) /\ fifo[k] \in Seq(Tokens) /\ fifo[k] # <<>>
          /\ Len(fifo[k]) <= Depth /\ Depth \in Nat
      BY <2>1, <1>1, <1>7
    <3> QED BY <3>1, PoppedFifo
  <2>2. CASE k # Last
    BY <2>2, <1>1, <1>7
  <2> QED BY <2>1, <2>2
<1>9. fifo' \in [Chain -> Seq(Tokens)]
  BY <1>7, <1>8
<1> QED BY <1>1, <1>4, <1>5, <1>6, <1>8, <1>9, ReturnInv

(* A call that raises has no result.                                       *)
LEMMA RaisesGood == "raised" \in Requests \cup Errors \cup {Nothing} /\ GoodAnswer("raised")
<1>1. "raised" \in Errors /\ "raised" \notin Requests /\ "raised" # Nothing
  BY TilesAssumption DEF Errors
<1> QED BY <1>1 DEF GoodAnswer

(* A launch that fails fills nothing.                                      *)
LEMMA LaunchFailsInv == ASSUME PInv, LaunchFails PROVE PInv'
<1>1. /\ pending # <<>> /\ UNCHANGED setup /\ UNCHANGED asked /\ fifo' = fifo
      /\ Returns("raised")
  BY DEF LaunchFails
<1>2. fifo \in [Chain -> Seq(Tokens)] /\ \A k \in Chain : Len(fifo[k]) <= Depth
  BY DEF PInv, TileTypeOK, Chain
<1> QED BY <1>1, <1>2, RaisesGood, ReturnInv

(* A dispatch that fails leaves the tokens where they are, drops them all  *)
(* or has taken the terminal one.                                          *)
LEMMA DispatchFailsInv == ASSUME PInv, DispatchFails PROVE PInv'
<1>1. /\ pending # <<>> /\ UNCHANGED setup /\ UNCHANGED asked /\ Returns("raised")
      /\ fifo \in [Chain -> Seq(Tokens)] /\ \A k \in Chain : Len(fifo[k]) <= Depth
      /\ Last \in Chain /\ Depth \in Nat
  BY GraphFacts DEF PInv, TileTypeOK, Chain, DispatchFails
<1>2. CASE fifo' = fifo
  BY <1>1, <1>2, RaisesGood, ReturnInv
<1>3. CASE fifo' = [k \in Chain |-> <<>>]
  <2>1. /\ fifo' \in [Chain -> Seq(Tokens)]
        /\ \A k \in Chain : Len(fifo'[k]) = 0
    BY <1>3
  <2>2. /\ \A k \in Chain : Len(fifo'[k]) <= Depth
        /\ \A k \in Chain : \A j \in 1 .. Len(fifo'[k]) :
             \E i \in 1 .. Len(fifo[k]) : fifo'[k][j] = fifo[k][i]
    BY <2>1, <1>1
  <2> QED BY <1>1, <2>1, <2>2, RaisesGood, ReturnInv
<1>4. CASE HasToken(Last) /\ fifo' = [fifo EXCEPT ![Last] = Tail(@)]
  <2>1. /\ fifo'[Last] = Tail(fifo[Last]) /\ fifo[Last] # <<>>
        /\ \A k \in Chain \ {Last} : fifo'[k] = fifo[k]
        /\ fifo' = [k \in Chain |-> fifo'[k]]
    BY <1>1, <1>4 DEF HasToken
  <2>2. ASSUME NEW k \in Chain
        PROVE  /\ fifo'[k] \in Seq(Tokens)
               /\ Len(fifo'[k]) <= Depth
               /\ \A j \in 1 .. Len(fifo'[k]) :
                    \E i \in 1 .. Len(fifo[k]) : fifo'[k][j] = fifo[k][i]
    <3>1. CASE k = Last
      <4>1. /\ fifo'[k] = Tail(fifo[k]) /\ fifo[k] \in Seq(Tokens) /\ fifo[k] # <<>>
            /\ Len(fifo[k]) <= Depth /\ Depth \in Nat
        BY <3>1, <1>1, <2>1
      <4> QED BY <4>1, PoppedFifo
    <3>2. CASE k # Last
      BY <3>2, <1>1, <2>1
    <3> QED BY <3>1, <3>2
  <2>3. fifo' \in [Chain -> Seq(Tokens)]
    BY <2>1, <2>2
  <2> QED BY <1>1, <2>2, <2>3, RaisesGood, ReturnInv
<1> QED BY <1>2, <1>3, <1>4 DEF DispatchFails, Chain

-----------------------------------------------------------------------------
(* A refused call gives an error.                                          *)
LEMMA CallRefusedInv ==
  ASSUME PInv, NEW c \in Callers, CallRefused(c)
  PROVE  PInv'
<1>1. /\ UNCHANGED setup /\ UNCHANGED <<fifo, asked, pending, running>>
      /\ answer' = [answer EXCEPT ![c] = "raised"]
      /\ answer \in [Callers -> Requests \cup Errors \cup {Nothing}]
  BY DEF PInv, TileTypeOK, CallRefused
<1>2. TileTypeOK'
  <2>1. answer' \in [Callers -> Requests \cup Errors \cup {Nothing}]
    BY <1>1, RaisesGood
  <2> QED BY <1>1, <2>1 DEF PInv, TileTypeOK, setup, Stages, Last
<1>3. AllSound'
  BY <1>1, SoundKept DEF PInv
<1>4. Waiters' /\ NoneRefused'
  BY <1>1 DEF PInv, Waiters, NoneRefused, setup
<1>5. FailsClosed'
  <2>1. \A d \in Callers : answer'[d] = answer[d] \/ GoodAnswer(answer'[d])
    BY <1>1, RaisesGood
  <2> QED BY <1>1, <2>1, AnswersKept DEF PInv
<1> QED BY <1>2, <1>3, <1>4, <1>5 DEF PInv

(* A new call brings a request and an identifier, and waits.               *)
LEMMA CallStartsInv ==
  ASSUME PInv, NEW c \in Callers, CallStarts(c)
  PROVE  PInv'
<1>1. PICK id \in Ids, r \in Requests :
        asked' = [asked EXCEPT ![c] = [id |-> id, request |-> r]]
  BY DEF CallStarts
<1>2. /\ UNCHANGED setup /\ UNCHANGED <<fifo, running>>
      /\ answer' = [answer EXCEPT ![c] = "none"]
      /\ pending' = Append(pending, c)
      /\ \A i \in 1 .. Len(pending) : pending[i] # c
      /\ host \notin graph.refuses
      /\ pending \in Seq(Callers)
      /\ asked \in [Callers -> [id : Ids \cup {NoId}, request : Requests \cup {Nothing}]]
      /\ answer \in [Callers -> Requests \cup Errors \cup {Nothing}]
  BY DEF CallStarts, Waiting, PInv, TileTypeOK
<1>3. /\ pending' \in Seq(Callers) /\ pending' # <<>>
      /\ \A i \in 1 .. Len(pending') :
           \/ i \in 1 .. Len(pending) /\ pending'[i] = pending[i]
           \/ pending'[i] = c
  <2> DEFINE new == Append(pending, c)
  <2>1. pending \in Seq(Callers) /\ pending' = new
    BY <1>2
  <2>2. /\ new \in Seq(Callers)
        /\ \A i \in 1 .. Len(new) :
             \/ i \in 1 .. Len(pending) /\ new[i] = pending[i]
             \/ i = Len(pending) + 1 /\ new[i] = c
    BY <2>1, Pushed
  <2>3. new # <<>>
    BY <2>1
  <2> HIDE DEF new
  <2> QED BY <2>1, <2>2, <2>3
<1>4. /\ asked'[c].id = id /\ asked'[c].request = r
      /\ \A i \in 1 .. Len(pending) : asked'[pending[i]] = asked[pending[i]]
  BY <1>1, <1>2
<1>5. TileTypeOK'
  <2>1. asked' \in [Callers -> [id : Ids \cup {NoId}, request : Requests \cup {Nothing}]]
    BY <1>1, <1>2
  <2>2. answer' \in [Callers -> Requests \cup Errors \cup {Nothing}]
    BY <1>2 DEF Errors
  <2> QED BY <1>2, <1>3, <2>1, <2>2 DEF PInv, TileTypeOK, setup, Stages, Last
<1>6. AllSound'
  BY <1>2, SoundKept DEF PInv
<1>7. Waiters'
  <2>1. ASSUME NEW i \in 1 .. Len(pending')
        PROVE  asked'[pending'[i]].id \in Ids /\ asked'[pending'[i]].request \in Requests
    BY <1>1, <1>3, <1>4 DEF PInv, Waiters
  <2> QED BY <2>1 DEF Waiters
<1>8. NoneRefused'
  BY <1>2 DEF NoneRefused, setup
<1>9. FailsClosed'
  <2>1. GoodAnswer("none")
    BY TilesAssumption DEF GoodAnswer, Errors
  <2>2. \A d \in Callers : answer'[d] = answer[d] \/ GoodAnswer(answer'[d])
    BY <1>2, <2>1
  <2> QED BY <1>2, <2>2, AnswersKept DEF PInv
<1> QED BY <1>5, <1>6, <1>7, <1>8, <1>9 DEF PInv

-----------------------------------------------------------------------------
(* At first nothing is in the graph and nobody waits.                      *)
LEMMA InitPInv == Init => PInv
<1> SUFFICES ASSUME Init PROVE PInv
  OBVIOUS
<1>1. /\ fifo \in [Chain -> Seq(Tokens)]
      /\ \A k \in Chain : fifo[k] = <<>> /\ Len(fifo[k]) = 0
      /\ Len(pending) = 0 /\ pending \in Seq(Callers)
      /\ Depth \in Nat
  BY TilesAssumption DEF Init, Chain
<1>2. TileTypeOK
  <2>1. unaligned \subseteq Stages
    BY DEF Init
  <2> QED BY <1>1, <2>1 DEF Init, TileTypeOK, Errors, Chain
<1>3. AllSound
  BY <1>1 DEF AllSound
<1>4. Waiters /\ NoneRefused
  BY <1>1 DEF Init, Waiters, NoneRefused
<1>5. FailsClosed
  <2>1. "none" \notin Requests /\ "none" \in Errors /\ "none" # Nothing
    BY TilesAssumption DEF Errors
  <2> QED BY <2>1 DEF Init, FailsClosed
<1> QED BY <1>2, <1>3, <1>4, <1>5 DEF PInv

(* Every step of the workers, the runtime and the callers.                 *)
LEMMA StepPInv == PInv /\ [Next]_vars => PInv'
<1> SUFFICES ASSUME PInv, [Next]_vars PROVE PInv'
  OBVIOUS
<1>1. ASSUME NEW k \in Stages, Worker(k)
      PROVE  PInv'
  BY <1>1, WorkerInv
<1>2. CASE Fill
  BY <1>2, FillInv
<1>3. CASE Drain
  BY <1>3, DrainInv
<1>4. CASE LaunchFails
  BY <1>4, LaunchFailsInv
<1>5. CASE DispatchFails
  BY <1>5, DispatchFailsInv
<1>6. ASSUME NEW c \in Callers, CallRefused(c)
      PROVE  PInv'
  BY <1>6, CallRefusedInv
<1>7. ASSUME NEW c \in Callers, CallStarts(c)
      PROVE  PInv'
  BY <1>7, CallStartsInv
<1>8. CASE UNCHANGED vars
  <2>1. UNCHANGED setup /\ UNCHANGED <<fifo, asked, answer, pending, running>>
    BY <1>8 DEF vars, setup
  <2>2. TileTypeOK' /\ Waiters' /\ NoneRefused'
    BY <2>1 DEF PInv, TileTypeOK, Waiters, NoneRefused, setup, Stages, Last
  <2>3. AllSound'
    BY <2>1, SoundKept DEF PInv
  <2>4. FailsClosed'
    BY <2>1, AnswersKept DEF PInv
  <2> QED BY <2>2, <2>3, <2>4 DEF PInv
<1> QED BY <1>1, <1>2, <1>3, <1>4, <1>5, <1>6, <1>7, <1>8 DEF Next

(* The inductive invariant holds in every reachable state, whatever the    *)
(* workers' and the runtime's fairness.                                    *)
THEOREM TilesInvariance == Spec => []PInv
<1> QED BY InitPInv, StepPInv, PTL DEF Spec

(* The types hold: no ObjectFifo ever has more tokens than buffers.        *)
THEOREM TileTypes == Spec => []TileTypeOK
<1>1. PInv => TileTypeOK
  BY DEF PInv
<1> QED BY <1>1, TilesInvariance, PTL

(* Wherever the kernels report in the field the host compares, no stage    *)
(* that failed lets a result through to a caller.                          *)
THEOREM TilesFailClosed == Spec => []FailsClosed
<1>1. PInv => FailsClosed
  BY DEF PInv
<1> QED BY <1>1, TilesInvariance, PTL

-----------------------------------------------------------------------------
(* Order.  While a sequence runs, the first ObjectFifo that is not empty   *)
(* ends in the token of its call: no worker drops, doubles or overtakes.   *)
NewestAt(k) ==
  /\ fifo[k] # <<>>
  /\ \A j \in Chain : j < k => fifo[j] = <<>>
  /\ fifo[k][Len(fifo[k])].of \in {asked[Head(pending)].request, Nothing}
Newest == running => \E k \in Chain : NewestAt(k)

(* The last element of a sequence that gets or loses one.                  *)
LEMMA LastPushed ==
  ASSUME NEW S, NEW s \in Seq(S), NEW e \in S
  PROVE  Append(s, e) # <<>> /\ Append(s, e)[Len(Append(s, e))] = e
OBVIOUS

LEMMA LastShifted ==
  ASSUME NEW S, NEW s \in Seq(S), NEW t \in Seq(S), Len(t) = Len(s) - 1,
         \A j \in 1 .. Len(t) : t[j] = s[j + 1]
  PROVE  /\ t # <<>> => t[Len(t)] = s[Len(s)]
         /\ t = <<>> => s[1] = s[Len(s)]
<1>1. Len(s) \in Nat /\ Len(t) \in Nat /\ (t # <<>> => Len(t) # 0) /\ (t = <<>> => Len(t) = 0)
  OBVIOUS
<1>2. CASE t = <<>>
  BY <1>1, <1>2
<1>3. CASE t # <<>>
  <2>1. Len(t) \in 1 .. Len(t)
    BY <1>1, <1>3
  <2> QED BY <1>1, <1>3, <2>1
<1> QED BY <1>2, <1>3

LEMMA LastPopped ==
  ASSUME NEW S, NEW s \in Seq(S), s # <<>>
  PROVE  /\ Tail(s) # <<>> => Tail(s)[Len(Tail(s))] = s[Len(s)]
         /\ Tail(s) = <<>> => Head(s) = s[Len(s)]
<1> DEFINE t == Tail(s)
<1>1. /\ t \in Seq(S) /\ Len(t) = Len(s) - 1 /\ Head(s) = s[1]
      /\ \A j \in 1 .. Len(t) : t[j] = s[j + 1]
  BY Popped
<1> HIDE DEF t
<1>2. /\ t # <<>> => t[Len(t)] = s[Len(s)]
      /\ t = <<>> => s[1] = s[Len(s)]
  BY <1>1, LastShifted
<1> QED BY <1>1, <1>2 DEF t

(* The worker that takes the newest token on makes what follows it the     *)
(* newest one; the others leave it where it is.                            *)
LEMMA WorkerNewest ==
  ASSUME PInv, Newest, NEW k \in Stages, Worker(k)
  PROVE  Newest'
<1> DEFINE t == Oldest(k - 1)
           token == Processed(k, t)
           mine == {asked[Head(pending)].request, Nothing}
<1>1. /\ k \in Chain /\ k - 1 \in Chain /\ k \in Nat /\ Chain \subseteq Nat
      /\ HasToken(k - 1) /\ fifo \in [Chain -> Seq(Tokens)]
  BY GraphFacts DEF PInv, TileTypeOK, Stages, Chain, Worker
<1>2. /\ UNCHANGED setup /\ UNCHANGED <<asked, pending, running>>
      /\ fifo' = [fifo EXCEPT ![k] = Append(@, token), ![k - 1] = Tail(@)]
  BY DEF Worker
<1>3. t \in Tokens /\ token \in Tokens /\ token.of \in {t.of, Nothing}
  BY <1>1, OldestGood, ProcessedGood DEF PInv
<1>4. t = Head(fifo[k - 1]) /\ fifo[k - 1] # <<>>
  BY <1>1 DEF Oldest, HasToken
<1> HIDE DEF t, token
<1>5. /\ fifo'[k] = Append(fifo[k], token) /\ fifo'[k - 1] = Tail(fifo[k - 1])
      /\ \A j \in Chain \ {k, k - 1} : fifo'[j] = fifo[j]
  BY <1>1, <1>2
<1>6. Chain' = Chain
  BY <1>2 DEF setup, Chain, Last
<1> SUFFICES ASSUME running PROVE \E n \in Chain : NewestAt(n)'
  BY <1>2, <1>6 DEF Newest
<1>7. PICK n \in Chain : NewestAt(n)
  BY DEF Newest
<1>8. n \in Nat /\ n <= k - 1
  BY <1>1, <1>4, <1>7 DEF NewestAt
<1>9. \A j \in Chain : j < n => fifo'[j] = <<>>
  BY <1>1, <1>5, <1>7, <1>8 DEF NewestAt
<1>10. fifo[n][Len(fifo[n])].of \in mine
  BY <1>7 DEF NewestAt
<1>11. CASE n < k - 1
  <2>1. fifo'[n] = fifo[n]
    BY <1>1, <1>5, <1>8, <1>11
  <2> QED BY <2>1, <1>2, <1>6, <1>7, <1>9 DEF NewestAt
<1>12. CASE n = k - 1 /\ Tail(fifo[n]) # <<>>
  <2>1. fifo[n] \in Seq(Tokens) /\ fifo[n] # <<>> /\ fifo'[n] = Tail(fifo[n])
    BY <1>1, <1>4, <1>5, <1>12
  <2>2. fifo'[n] # <<>> /\ fifo'[n][Len(fifo'[n])] = fifo[n][Len(fifo[n])]
    BY <2>1, <1>12, LastPopped
  <2> QED BY <2>2, <1>2, <1>6, <1>9, <1>10 DEF NewestAt
<1>13. CASE n = k - 1 /\ Tail(fifo[n]) = <<>>
  <2>1. fifo[n] \in Seq(Tokens) /\ fifo[n] # <<>> /\ fifo[k] \in Seq(Tokens)
    BY <1>1, <1>4, <1>13
  <2>2. t = fifo[n][Len(fifo[n])]
    BY <2>1, <1>4, <1>13, LastPopped
  <2>3. token.of \in mine
    BY <2>2, <1>3, <1>10
  <2>4. fifo'[k] # <<>> /\ fifo'[k][Len(fifo'[k])] = token
    BY <2>1, <1>3, <1>5, LastPushed
  <2>5. ASSUME NEW j \in Chain, j < k PROVE fifo'[j] = <<>>
    <3>1. j = k - 1 \/ j < n
      BY <2>5, <1>1, <1>13
    <3> QED BY <3>1, <1>5, <1>9, <1>13
  <2> QED BY <2>3, <2>4, <2>5, <1>1, <1>2, <1>6 DEF NewestAt
<1>14. n < k - 1 \/ n = k - 1
  BY <1>1, <1>8
<1> QED BY <1>11, <1>12, <1>13, <1>14

(* The fill brings the token of the call it begins.                        *)
LEMMA FillNewest ==
  ASSUME PInv, Fill
  PROVE  Newest'
<1> DEFINE call == asked[Head(pending)]
           token == [id |-> call.id, status |-> "Ok", of |-> call.request]
<1>1. /\ 0 \in Chain /\ Chain \subseteq Nat /\ fifo \in [Chain -> Seq(Tokens)]
      /\ pending \in Seq(Callers) /\ pending # <<>>
  BY GraphFacts DEF PInv, TileTypeOK, Fill, Chain
<1>2. /\ UNCHANGED setup /\ UNCHANGED <<asked, pending>>
      /\ fifo' = [fifo EXCEPT ![0] = Append(@, token)]
  BY DEF Fill
<1>3. 1 \in 1 .. Len(pending) /\ call = asked[pending[1]]
  BY <1>1, Popped
<1>4. call.id \in Ids /\ call.request \in Requests
  BY <1>3 DEF PInv, Waiters
<1>5. token \in Tokens /\ token.of = call.request
  BY <1>4 DEF Tokens, Statuses
<1> HIDE DEF token
<1>6. fifo'[0] = Append(fifo[0], token) /\ fifo[0] \in Seq(Tokens)
  BY <1>1, <1>2
<1>7. fifo'[0] # <<>> /\ fifo'[0][Len(fifo'[0])] = token
  BY <1>5, <1>6, LastPushed
<1>8. Chain' = Chain
  BY <1>2 DEF setup, Chain, Last
<1>9. \A j \in Chain : ~ (j < 0)
  BY <1>1
<1>10. NewestAt(0)'
  BY <1>2, <1>5, <1>7, <1>8, <1>9 DEF NewestAt
<1> QED BY <1>1, <1>8, <1>10 DEF Newest

LEMMA StepNewest ==
  ASSUME PInv, Newest, [Next]_vars
  PROVE  Newest'
<1>1. ASSUME UNCHANGED setup, fifo' = fifo, running' = running,
             running => asked'[Head(pending')].request = asked[Head(pending)].request
      PROVE  Newest'
  <2>1. Chain' = Chain
    BY <1>1 DEF setup, Chain, Last
  <2> QED BY <1>1, <2>1 DEF Newest, NewestAt
<1>2. ASSUME NEW k \in Stages, Worker(k) PROVE Newest'
  BY <1>2, WorkerNewest
<1>3. CASE Fill
  BY <1>3, FillNewest
<1>4. CASE Drain \/ LaunchFails \/ DispatchFails
  BY <1>4 DEF Newest, Drain, LaunchFails, DispatchFails, Returns
<1>5. ASSUME NEW c \in Callers, CallRefused(c) PROVE Newest'
  BY <1>1, <1>5 DEF CallRefused
<1>6. ASSUME NEW c \in Callers, CallStarts(c) PROVE Newest'
  <2>1. /\ UNCHANGED setup /\ fifo' = fifo /\ running' = running
        /\ pending' = Append(pending, c) /\ ~Waiting(c)
        /\ pending \in Seq(Callers) /\ (running => pending # <<>>)
    BY <1>6 DEF CallStarts, PInv, TileTypeOK
  <2>2. PICK id \in Ids, r \in Requests :
          asked' = [asked EXCEPT ![c] = [id |-> id, request |-> r]]
    BY <1>6 DEF CallStarts
  <2>3. ASSUME running
        PROVE  asked'[Head(pending')].request = asked[Head(pending)].request
    <3>1. /\ Head(pending') = Head(pending) /\ 1 \in DOMAIN pending
          /\ Head(pending) = pending[1] /\ Head(pending) \in Callers
      BY <2>1, <2>3
    <3>2. Head(pending) # c
      BY <2>1, <3>1 DEF Waiting
    <3> QED BY <2>2, <3>1, <3>2 DEF PInv, TileTypeOK
  <2> QED BY <1>1, <2>1, <2>3
<1>7. CASE UNCHANGED vars
  BY <1>1, <1>7 DEF vars, setup
<1> QED BY <1>2, <1>3, <1>4, <1>5, <1>6, <1>7 DEF Next

(* A drain that empties the chain has drained the newest token.            *)
LEMMA StepLeavesOwn ==
  ASSUME PInv, Newest, [Next]_vars
  PROVE  [\A c \in Callers :
            /\ answer'[c] # answer[c] /\ answer'[c] \in Requests
            /\ \A k \in 0 .. Last : fifo'[k] = <<>>
            => answer'[c] = asked[c].request]_vars
<1> SUFFICES ASSUME NEW c \in Callers, answer'[c] # answer[c], answer'[c] \in Requests,
                    \A k \in Chain : fifo'[k] = <<>>
             PROVE  answer'[c] = asked[c].request
  BY DEF Chain
<1>1. /\ "raised" \notin Requests /\ "none" \notin Requests /\ Nothing \notin Requests
      /\ answer \in [Callers -> Requests \cup Errors \cup {Nothing}]
      /\ fifo \in [Chain -> Seq(Tokens)] /\ Chain \subseteq Nat
      /\ Last \in Chain /\ \A k \in Chain : k <= Last
  BY TilesAssumption, GraphFacts DEF PInv, TileTypeOK, Errors, Chain
<1>2. Drain
  <2>1. answer' # answer /\ answer'[c] \notin {"raised", "none"}
    BY <1>1
  <2>2. ~ LaunchFails /\ ~ DispatchFails
    BY <1>1, <2>1 DEF LaunchFails, DispatchFails, Returns
  <2>3. \A d \in Callers : ~ CallRefused(d) /\ ~ CallStarts(d)
    BY <1>1, <2>1 DEF CallRefused, CallStarts
  <2> QED BY <2>1, <2>2, <2>3 DEF Next, vars, Worker, Fill
<1>3. /\ running /\ HasToken(Last)
      /\ fifo' = [fifo EXCEPT ![Last] = Tail(@)]
      /\ answer' = [answer EXCEPT ![Head(pending)] =
                      Unpacked(Oldest(Last), asked[Head(pending)].id)]
  BY <1>2 DEF Drain, Returns
<1>4. /\ c = Head(pending)
      /\ answer'[c] = Unpacked(Oldest(Last), asked[c].id)
  BY <1>1, <1>3
<1>5. answer'[c] = Oldest(Last).of
  BY <1>1, <1>4 DEF Unpacked
<1>6. PICK n \in Chain : NewestAt(n)
  BY <1>3 DEF Newest
<1>7. n = Last
  BY <1>1, <1>3, <1>6 DEF NewestAt
<1>8. fifo[Last] \in Seq(Tokens) /\ fifo[Last] # <<>> /\ Tail(fifo[Last]) = <<>>
  BY <1>1, <1>3 DEF HasToken
<1>9. Oldest(Last) = fifo[Last][Len(fifo[Last])]
  BY <1>8, LastPopped DEF Oldest
<1> QED BY <1>1, <1>4, <1>5, <1>6, <1>7, <1>9 DEF NewestAt

(* For every chain and every number of late results: only a call that      *)
(* leaves a token on the tiles can have been given a foreign result (the   *)
(* host's drain pops the oldest result, whosever it is).                   *)
THEOREM ForeignAnswersLeaveOwn == Spec => ForeignLeavesOwn
<1>1. Init => Newest
  BY DEF Init, Newest
<1>2. PInv /\ Newest /\ [Next]_vars => Newest'
  BY StepNewest
<1>3. PInv /\ Newest /\ [Next]_vars
      => [\A c \in Callers :
            /\ answer'[c] # answer[c] /\ answer'[c] \in Requests
            /\ \A k \in 0 .. Last : fifo'[k] = <<>>
            => answer'[c] = asked[c].request]_vars
  BY StepLeavesOwn
<1> QED BY <1>1, <1>2, <1>3, TilesInvariance, PTL DEF Spec, ForeignLeavesOwn

-----------------------------------------------------------------------------
(* A set of positions in the chain has a first and a last one.             *)
LEMMA First ==
  ASSUME NEW T \in SUBSET Nat, T # {}
  PROVE  \E k \in T : \A j \in T : k <= j
<1> DEFINE R == OpToRel(<, Nat)
<1>1. IsWellFoundedOn(R, Nat)
  BY NatLessThanWellFounded
<1>2. \A x, y \in Nat : y < x => <<y, x>> \in R
  BY DEF OpToRel
<1> HIDE DEF R
<1>3. PICK k \in T : \A j \in T : ~ (<<j, k>> \in R)
  BY <1>1, WFMin
<1>4. ASSUME NEW j \in T PROVE k <= j
  <2>1. k \in Nat /\ j \in Nat
    OBVIOUS
  <2>2. ~ (j < k)
    BY <1>2, <1>3, <2>1
  <2> QED BY <2>1, <2>2
<1> QED BY <1>4

LEMMA Final ==
  ASSUME NEW n \in Nat, NEW T \in SUBSET (0 .. n), T # {}
  PROVE  \E k \in T : \A j \in T : j <= k
<1> DEFINE U == {n - k : k \in T}
<1>1. \A k \in T : k \in Nat /\ n - k \in Nat
  OBVIOUS
<1>2. U \in SUBSET Nat /\ U # {}
  BY <1>1
<1> HIDE DEF U
<1>3. PICK u \in U : \A v \in U : u <= v
  BY <1>2, First
<1>4. PICK k \in T : u = n - k
  BY <1>3 DEF U
<1>5. ASSUME NEW j \in T PROVE j <= k
  <2>1. n - j \in U
    BY DEF U
  <2>2. n - k <= n - j
    BY <1>3, <1>4, <2>1
  <2>3. k \in Nat /\ j \in Nat
    BY <1>1
  <2> QED BY <2>2, <2>3
<1> QED BY <1>5

(* An ObjectFifo without a free buffer has a token, one without a token    *)
(* has a free buffer.                                                      *)
LEMMA FullOrEmpty ==
  ASSUME TileTypeOK, NEW k \in Chain
  PROVE  HasToken(k) \/ HasBuffer(k)
<1>1. fifo[k] \in Seq(Tokens) /\ Depth \in Nat \ {0}
  BY GraphFacts DEF TileTypeOK, Chain
<1>2. fifo[k] = <<>> => Len(fifo[k]) = 0
  OBVIOUS
<1> QED BY <1>1, <1>2 DEF HasToken, HasBuffer

(* While a sequence runs, the worker after the last token, or the drain,   *)
(* can go on; before it begins, the worker before the first free buffer,   *)
(* or the fill.                                                            *)
LEMMA SomeoneGoesOn ==
  ASSUME TileTypeOK, Newest
  PROVE  StopsOnlyClogged
<1>1. Last \in Nat \ {0}
  BY GraphFacts
<1>2. CASE running
  <2> DEFINE T == {k \in Chain : HasToken(k)}
  <2>1. T \in SUBSET (0 .. Last) /\ T # {}
    BY <1>2 DEF Newest, NewestAt, HasToken, Chain
  <2> HIDE DEF T
  <2>2. PICK k \in T : \A j \in T : j <= k
    BY <1>1, <2>1, Final
  <2>3. k \in 0 .. Last /\ HasToken(k)
    BY DEF T, Chain
  <2>4. CASE k = Last
    BY <1>2, <2>3, <2>4 DEF StopsOnlyClogged, GoesOn
  <2>5. CASE k # Last
    <3>1. k + 1 \in Stages /\ k + 1 \in Chain /\ ~ (k + 1 <= k) /\ (k + 1) - 1 = k
      BY <1>1, <2>3, <2>5 DEF Stages, Chain
    <3>2. ~ HasToken(k + 1)
      BY <2>2, <3>1 DEF T
    <3>3. HasBuffer(k + 1)
      BY <3>1, <3>2, FullOrEmpty
    <3> QED BY <2>3, <3>1, <3>3 DEF StopsOnlyClogged, GoesOn
  <2> QED BY <2>4, <2>5
<1>3. CASE ~running /\ \E k \in Chain : HasBuffer(k)
  <2> DEFINE T == {k \in Chain : HasBuffer(k)}
  <2>1. T \in SUBSET Nat /\ T # {}
    BY <1>1, <1>3 DEF Chain
  <2> HIDE DEF T
  <2>2. PICK k \in T : \A j \in T : k <= j
    BY <2>1, First
  <2>3. k \in 0 .. Last /\ HasBuffer(k)
    BY DEF T, Chain
  <2>4. CASE k = 0
    BY <1>3, <2>3, <2>4 DEF StopsOnlyClogged, GoesOn
  <2>5. CASE k # 0
    <3>1. k \in Stages /\ k - 1 \in Chain /\ ~ (k <= k - 1)
      BY <1>1, <2>3, <2>5 DEF Stages, Chain
    <3>2. ~ HasBuffer(k - 1)
      BY <2>2, <3>1 DEF T
    <3>3. HasToken(k - 1)
      BY <3>1, <3>2, FullOrEmpty
    <3> QED BY <2>3, <3>1, <3>3 DEF StopsOnlyClogged, GoesOn
  <2> QED BY <2>4, <2>5
<1>4. CASE ~running /\ \A k \in Chain : ~ HasBuffer(k)
  BY <1>4 DEF StopsOnlyClogged, Clogged, Chain
<1> QED BY <1>2, <1>3, <1>4

(* For every depth, every chain and any number of abandoned results:       *)
(* while a caller waits some worker, the fill or the drain can go on, and  *)
(* only results that fill every buffer of the chain can stop all of them   *)
(* (the workers' acquires and releases, the runtime's sequences).          *)
THEOREM NoCircularWait == Spec => []StopsOnlyClogged
<1>1. Init => Newest
  BY DEF Init, Newest
<1>2. PInv /\ Newest /\ [Next]_vars => Newest'
  BY StepNewest
<1>3. PInv /\ Newest => StopsOnlyClogged
  BY SomeoneGoesOn DEF PInv
<1> QED BY <1>1, <1>2, <1>3, TilesInvariance, PTL DEF Spec

=============================================================================
