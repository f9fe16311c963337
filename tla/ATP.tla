-------------------------------- MODULE ATP --------------------------------
(***************************************************************************)
(* The AppleTalk Transaction Protocol, appletalk/atp.go: requesters that   *)
(* make calls of a responder over a network that loses frames.  Both ends  *)
(* are atpSockets of the code: a requester keeps the requests it waits on  *)
(* (pending), the responder the responses to exactly once requests (kept). *)
(*                                                                         *)
(* The responder above ATP is any: it answers when it likes, with packets  *)
(* of its choice, or never.  An answer is a sequence of packets, each      *)
(* known by the run of the request it comes from and its place, so that a  *)
(* response put together from two runs can be told from a whole one; user  *)
(* bytes and data are left out.  Packets are counted from 1, where the     *)
(* code's sequence numbers start at 0.                                     *)
(*                                                                         *)
(* Time is kept as what is left of it: a request's interval and a kept     *)
(* response's release time count down with every Tick.                     *)
(*                                                                         *)
(* Requests and releases reach the responder in the order they were sent,  *)
(* as a node's queue keeps them; response packets, whose order the code    *)
(* makes nothing of, may arrive in any.  Both may be lost.                 *)
(***************************************************************************)
EXTENDS Integers, Sequences, FiniteSets, SequencesExt

CONSTANTS
  Requesters,    \* the requesting sockets, on nodes of their own
  MaxCalls,      \* how many calls a requester makes (bounds nextTID)
  MaxResponses,  \* the most packets in a response, 8 in the code
  AnswerSizes,   \* the packets an answer may have; 0 is a nil answer
  Retries,       \* the retries a call is made with
  Interval,      \* the ticks between retries
  ReleaseTime,   \* the ticks a response is kept for
  Capacity,      \* the frames a node queues before it drops, 256 in the code
  OnceTIDs,      \* the transaction ids of the calls made exactly once, XO
  Prompt,        \* whether the frames waiting are handled before a tick
  None           \* no request, no response, no packet

ASSUME ATPAssumption ==
  /\ IsFiniteSet(Requesters)
  /\ MaxCalls \in Nat
  /\ MaxResponses \in Nat \ {0}
  /\ AnswerSizes \subseteq 0..MaxResponses
  /\ Retries \in Nat
  /\ Interval \in Nat \ {0}
  /\ ReleaseTime \in Nat
  /\ Capacity \in Nat \ {0}
  /\ OnceTIDs \subseteq 1..MaxCalls
  /\ Prompt \in BOOLEAN

TIDs == 1..MaxCalls
Keys == Requesters \X TIDs
OnceKeys == Requesters \X OnceTIDs
Places == 1..MaxResponses

VARIABLES
  nextTID,      \* per requester, the last transaction id it used
  pending,      \* per transaction, the pendingRequest or None
  kept,         \* per transaction, the keptResponse or None
  working,      \* the requests the responder has been given and not answered
  toResponder,  \* the queue of frames on the way to the responder
  toRequester,  \* the response packets on the way to the requesters
  runs,         \* history: how often the responder was given a transaction
  forgotten,    \* history: how often a kept response was dropped
  answers,      \* history: per transaction, the answers given to its runs
  outcome       \* history: per transaction, what done was called with

requester == <<nextTID, pending, outcome>>
responder == <<kept, working, runs, forgotten, answers>>
vars == <<nextTID, pending, kept, working, toResponder, toRequester,
          runs, forgotten, answers, outcome>>

-----------------------------------------------------------------------------
(* The frames and the records.                                             *)

Packet == [key : Keys, run : Nat, place : Places \cup {0}]

\* The packets of the answer a run gives.
PacketsOf(k, run, size) == [i \in 1..size |-> [key |-> k, run |-> run, place |-> i]]

\* What goes out for a nil answer: one packet with nothing in it.
EmptyPacket(k) == [key |-> k, run |-> 0, place |-> 0]

RequestFrame(k, p) == [kind |-> "request", key |-> k, xo |-> p.xo, bitmap |-> p.wanted]

ReleaseFrame(k) == [kind |-> "release", key |-> k]

\* A frame queued on a node: one that finds the queue full is dropped.
Queue(q, frame) == IF Len(q) < Capacity THEN Append(q, frame) ELSE q

\* Several frames queued one after the other.
QueueAll(q, frames) ==
  IF Len(q \o frames) <= Capacity THEN q \o frames
  ELSE SubSeq(q \o frames, 1, Capacity)

\* sendResponse: the packets the bitmap asks for, the last one marked.
ResponseFrames(k, packets, bitmap) ==
  LET sent == IF packets = <<>> THEN <<EmptyPacket(k)>> ELSE packets
  IN  {[to |-> k, place |-> i, eom |-> i = Len(sent), packet |-> sent[i]] :
         i \in bitmap \cap DOMAIN sent}

-----------------------------------------------------------------------------
(* The requester.                                                          *)

NoPackets == [i \in Places |-> None]

\* call: a request with a transaction id of its own, sent at once.
Call(r) ==
  LET t == nextTID[r] + 1
      p == [xo |-> t \in OnceTIDs, wanted |-> Places, got |-> NoPackets,
            retries |-> Retries, next |-> Interval]
  IN  /\ nextTID[r] < MaxCalls
      /\ nextTID' = [nextTID EXCEPT ![r] = t]
      /\ pending' = [pending EXCEPT ![<<r, t>>] = p]
      /\ toResponder' = Queue(toResponder, RequestFrame(<<r, t>>, p))
      /\ UNCHANGED <<toRequester, outcome, responder>>

\* Mutant of StillWanted: the mask of the end reaches one packet too many.
StillWantedShort(p, f) == {i \in p.wanted \ {f.place} : f.eom => i < f.place - 1}

\* The packets a response leaves wanted: after the end none is coming.
StillWanted(p, f) == {i \in p.wanted \ {f.place} : f.eom => i < f.place}

\* The packets that came, in their order, which done is called with.
Collected(got) ==
  LET came == {i \in Places : got[i] # None}
      Nth(n) == CHOOSE i \in came : Cardinality({j \in came : j <= i}) = n
  IN  [n \in 1..Cardinality(came) |-> got[Nth(n)]]

\* response: a packet is taken; the last one ends the call, and its release,
\* if it was exactly once, goes after what done does.
ReceiveResponse(f) ==
  LET k == f.to
      p == pending[k]
      got == [p.got EXCEPT ![f.place] = f.packet]
      wanted == StillWanted(p, f)
  IN  /\ toRequester' = toRequester \ {f}
      /\ \/ /\ p = None
            /\ UNCHANGED <<pending, outcome, toResponder>>
         \/ /\ p # None
            /\ wanted # {}
            /\ pending' = [pending EXCEPT ![k] = [p EXCEPT !.got = got, !.wanted = wanted]]
            /\ UNCHANGED <<outcome, toResponder>>
         \/ /\ p # None
            /\ wanted = {}
            /\ pending' = [pending EXCEPT ![k] = None]
            /\ outcome' = [outcome EXCEPT ![k] = Append(@, [ok |-> TRUE, got |-> got])]
            /\ toResponder' = IF p.xo THEN Queue(toResponder, ReleaseFrame(k))
                              ELSE toResponder
      /\ UNCHANGED <<nextTID, responder>>

-----------------------------------------------------------------------------
(* The responder.                                                          *)

\* Mutant of IsRetry: a request still being worked out is taken for a new one.
IsRetryAnswered(f) == f.xo /\ kept[f.key] # None /\ kept[f.key].packets # <<>>

\* A request that finds its response kept.
IsRetry(f) == f.xo /\ kept[f.key] # None

\* request, for a transaction whose response is kept: the packets asked for
\* go again; one still being worked out is ignored.
AnswerFromKept(f) ==
  /\ IsRetry(f)
  /\ toRequester' = IF kept[f.key].packets # <<>>
       THEN toRequester \cup ResponseFrames(f.key, kept[f.key].packets, f.bitmap)
       ELSE toRequester
  /\ UNCHANGED responder

\* request, for any other: it is kept with no packets yet if it is exactly
\* once, and given to the responder.
RunRequest(f) ==
  LET k == f.key
  IN  /\ ~IsRetry(f)
      /\ kept' = IF f.xo
                 THEN [kept EXCEPT ![k] = [packets |-> <<>>, left |-> ReleaseTime]]
                 ELSE kept
      /\ runs' = [runs EXCEPT ![k] = @ + 1]
      /\ working' = working \cup {[key |-> k, run |-> runs[k] + 1,
                                   xo |-> f.xo, bitmap |-> f.bitmap]}
      /\ UNCHANGED <<forgotten, answers, toRequester>>

\* datagram, on the responder's socket, of a request or of a release.
ReceiveRequest ==
  /\ toResponder # <<>>
  /\ Head(toResponder).kind = "request"
  /\ toResponder' = Tail(toResponder)
  /\ AnswerFromKept(Head(toResponder)) \/ RunRequest(Head(toResponder))
  /\ UNCHANGED requester

\* A kept response that goes, and that is counted.
Forget(ks) ==
  /\ kept' = [k \in Keys |-> IF k \in ks THEN None ELSE kept[k]]
  /\ forgotten' = [k \in Keys |->
       IF k \in ks /\ kept[k] # None THEN forgotten[k] + 1 ELSE forgotten[k]]

ReceiveRelease ==
  /\ toResponder # <<>>
  /\ Head(toResponder).kind = "release"
  /\ toResponder' = Tail(toResponder)
  /\ Forget({Head(toResponder).key})
  /\ UNCHANGED <<toRequester, working, runs, answers, requester>>

\* The respond function request hands the responder: what it answers is kept,
\* if the transaction still is, and sent.
Respond(w, size) ==
  LET k == w.key
      packets == PacketsOf(k, w.run, size)
  IN  /\ working' = working \ {w}
      /\ kept' = IF w.xo /\ kept[k] # None
                 THEN [kept EXCEPT ![k].packets = packets] ELSE kept
      /\ answers' = [answers EXCEPT ![k] = Append(@, packets)]
      /\ toRequester' = toRequester \cup ResponseFrames(k, packets, w.bitmap)
      /\ UNCHANGED <<toResponder, runs, forgotten, requester>>

-----------------------------------------------------------------------------
(* Time and the network.                                                   *)

\* A kept response whose time has run out, which is once it is past.
Expired(k) == kept[k] # None /\ kept[k].left = 0

\* Mutant of Aged: the time of a kept response does not pass.
AgedNever(r) == r

Aged(r) == [r EXCEPT !.left = @ - 1]

\* A request to be sent again by this tick, or given up.
Due(k) == pending[k] # None /\ pending[k].next = 1

Spent(k) == Due(k) /\ pending[k].retries = 0

\* Mutant of Retried: the retries are not counted.
RetriedForever(p) == [p EXCEPT !.next = Interval]

Retried(p) == [p EXCEPT !.retries = @ - 1, !.next = Interval]

\* Mutant of OutcomeAfterTick: done is not called for a call given up.
OutcomeUntold(k) == outcome[k]

OutcomeAfterTick(k) ==
  IF Spent(k) THEN Append(outcome[k], [ok |-> FALSE, got |-> NoPackets]) ELSE outcome[k]

\* tick, on both ends: a kept response whose time is over goes; a request
\* whose interval is over is sent again, or given up with no retry left.  The
\* map of the requests is gone through in any order.
Tick ==
  /\ Prompt => toResponder = <<>> /\ toRequester = {}
  /\ \E k \in Keys : pending[k] # None \/ kept[k] # None
  /\ kept' = [k \in Keys |->
       IF kept[k] = None \/ Expired(k) THEN None ELSE Aged(kept[k])]
  /\ forgotten' = [k \in Keys |-> IF Expired(k) THEN forgotten[k] + 1 ELSE forgotten[k]]
  /\ pending' = [k \in Keys |->
       IF pending[k] = None \/ Spent(k) THEN None
       ELSE IF Due(k) THEN Retried(pending[k])
       ELSE [pending[k] EXCEPT !.next = @ - 1]]
  /\ outcome' = [k \in Keys |-> OutcomeAfterTick(k)]
  /\ \E order \in SetToSeqs({k \in Keys : Due(k) /\ ~Spent(k)}) :
       toResponder' = QueueAll(toResponder,
         [i \in DOMAIN order |-> RequestFrame(order[i], pending[order[i]])])
  /\ UNCHANGED <<nextTID, working, runs, answers, toRequester>>

\* A frame on its way is lost.
Lose ==
  /\ \/ /\ toResponder # <<>>
        /\ toResponder' = Tail(toResponder)
        /\ UNCHANGED toRequester
     \/ \E f \in toRequester :
          /\ toRequester' = toRequester \ {f}
          /\ UNCHANGED toResponder
  /\ UNCHANGED <<requester, responder>>

-----------------------------------------------------------------------------
Init ==
  /\ nextTID = [r \in Requesters |-> 0]
  /\ pending = [k \in Keys |-> None]
  /\ kept = [k \in Keys |-> None]
  /\ working = {}
  /\ toResponder = <<>>
  /\ toRequester = {}
  /\ runs = [k \in Keys |-> 0]
  /\ forgotten = [k \in Keys |-> 0]
  /\ answers = [k \in Keys |-> <<>>]
  /\ outcome = [k \in Keys |-> <<>>]

Next ==
  \/ \E r \in Requesters : Call(r)
  \/ \E f \in toRequester : ReceiveResponse(f)
  \/ ReceiveRequest
  \/ ReceiveRelease
  \/ \E w \in working, size \in AnswerSizes : Respond(w, size)
  \/ Tick
  \/ Lose

Spec == Init /\ [][Next]_vars

\* The goroutines of both nodes keep taking frames and running their timers.
FairSpec ==
  /\ Spec
  /\ WF_vars(Tick)
  /\ WF_vars(ReceiveRequest \/ ReceiveRelease)
  /\ WF_vars(\E f \in toRequester : ReceiveResponse(f))

-----------------------------------------------------------------------------
(* Properties.                                                             *)

PendingRequest ==
  [xo : BOOLEAN, wanted : SUBSET Places, got : [Places -> Packet \cup {None}],
   retries : 0..Retries, next : 1..Interval]

KeptResponse == [packets : Seq(Packet), left : 0..ReleaseTime]

ASSUME NoneIsApart ==
  None \notin KeptResponse \cup PendingRequest \cup Packet \cup Seq(Packet)

RequestIn == [key : Keys, run : Nat, xo : BOOLEAN, bitmap : SUBSET Places]

ToResponder ==
  [kind : {"request"}, key : Keys, xo : BOOLEAN, bitmap : SUBSET Places]
    \cup [kind : {"release"}, key : Keys]

ToRequester == [to : Keys, place : Places, eom : BOOLEAN, packet : Packet]

\* The type of every variable; what a node queues never outgrows its queue.
TypeOK ==
  /\ nextTID \in [Requesters -> 0..MaxCalls]
  /\ pending \in [Keys -> PendingRequest \cup {None}]
  /\ kept \in [Keys -> KeptResponse \cup {None}]
  /\ working \subseteq RequestIn
  /\ toResponder \in Seq(ToResponder)
  /\ Len(toResponder) <= Capacity
  /\ toRequester \subseteq ToRequester
  /\ runs \in [Keys -> Nat]
  /\ forgotten \in [Keys -> Nat]
  /\ answers \in [Keys -> Seq(Seq(Packet))]
  /\ outcome \in [Keys -> Seq([ok : BOOLEAN, got : [Places -> Packet \cup {None}]])]

\* An exactly once request runs again only if its kept response was released
\* or had its time run out in between (atp.go:9-13), whatever the network
\* loses and however late it is.
OnceWhileKept == \A k \in OnceKeys : runs[k] <= forgotten[k] + 1

\* With a release time that outlasts the retries, and frames that arrive
\* between two ticks, the response of a request that has run is there for as
\* long as its requester may still ask again: it runs once and that is all
\* (request, atp.go:157-166 and tick, 278-283).
KeptForTheRetries ==
  \A k \in OnceKeys :
    pending[k] # None /\ pending[k].retries > 0 /\ runs[k] > 0 => kept[k] # None

\* done is called once for a call that is over, and not before (response,
\* atp.go:253-261 and tick, 289-292): the call above never gets two answers.
DoneOnce ==
  \A k \in Keys :
    Len(outcome[k]) = IF k[2] <= nextTID[k[1]] /\ pending[k] = None THEN 1 ELSE 0

\* Every call ends, with its answer or without, and every kept response goes,
\* released or not: no request waits forever, and what a requester never
\* releases does not fill the map (tick, atp.go:279-292).
NothingIsKeptForEver ==
  \A k \in Keys :
    /\ pending[k] # None ~> pending[k] = None
    /\ kept[k] # None ~> kept[k] = None

-----------------------------------------------------------------------------
(* The exactly once calls implement Transaction.                           *)

FirstOutcome(k) == outcome[k][1]

StageOf(k) ==
  CASE k[2] > nextTID[k[1]] -> "idle"
    [] k[2] <= nextTID[k[1]] /\ outcome[k] = <<>> -> "waiting"
    [] outcome[k] # <<>> /\ FirstOutcome(k).ok -> "ok"
    [] OTHER -> "failed"

ReplyOf(k) == IF answers[k] = <<>> THEN None ELSE answers[k][1]

ResultOf(k) ==
  IF outcome[k] # <<>> /\ FirstOutcome(k).ok THEN Collected(FirstOutcome(k).got) ELSE None

\* Every answer that a first run may give.
FirstAnswers == {PacketsOf(k, 1, size) : k \in OnceKeys, size \in AnswerSizes}

Promise == INSTANCE Transaction WITH
  Keys <- OnceKeys,
  Replies <- FirstAnswers,
  stage <- [k \in OnceKeys |-> StageOf(k)],
  executed <- [k \in OnceKeys |-> runs[k]],
  reply <- [k \in OnceKeys |-> ReplyOf(k)],
  result <- [k \in OnceKeys |-> ResultOf(k)]

\* A call made exactly once runs at most once and, if it succeeds, is given
\* the whole of the one answer its run gave (atp.go:9-13 and 234-261).
ImplementsTransaction == Promise!Spec
=============================================================================
