---------------------------- MODULE ATP_proofs -----------------------------
(***************************************************************************)
(* The exactly once transactions of module ATP, for any number of          *)
(* requesters, calls, packets, retries and times: type correctness, that a *)
(* request runs again only if its kept response is gone, that a call is    *)
(* answered once, that a response is there for as long as it may be asked  *)
(* for, and that the calls implement module Transaction.                   *)
(*                                                                         *)
(* The last two are for frames handled before the next tick and a release  *)
(* time as long as the retries.  InTime is the account of that time: a     *)
(* response outlives every request for it, waiting or yet to be sent.  With*)
(* it a request runs once (OneRun), and every packet on its way or got is  *)
(* of the answer of that run (Carried).                                    *)
(***************************************************************************)
EXTENDS ATP, FiniteSetTheorems, SequenceTheorems, TLAPS

Once(k) == k[2] \in OnceTIDs

\* A request says it is exactly once, where it waits and where it is queued,
\* if its transaction is.
Flags ==
  /\ \A k \in Keys : pending[k] # None => pending[k].xo = Once(k)
  /\ \A i \in 1..Len(toResponder) :
       toResponder[i].kind = "request" => toResponder[i].xo = Once(toResponder[i].key)

\* Every run of an exactly once request left a response, kept or forgotten.
RunsCounted ==
  \A k \in OnceKeys : runs[k] = forgotten[k] + (IF kept[k] = None THEN 0 ELSE 1)

\* Only a call that was made waits.
CalledBefore == \A k \in Keys : pending[k] # None => k[2] <= nextTID[k[1]]

IInv == TypeOK /\ Flags /\ RunsCounted /\ CalledBefore /\ DoneOnce

USE ATPAssumption

-----------------------------------------------------------------------------
(* The helpers.                                                            *)

\* A function on 1..n is a sequence.
LEMMA FunctionIsSeq ==
  ASSUME NEW S, NEW n \in Nat, NEW f \in [1..n -> S]
  PROVE  f \in Seq(S) /\ Len(f) = n
BY SeqDef

LEMMA TIDsAreNumbers ==
  /\ \A t \in TIDs : t \in Nat
  /\ \A k \in Keys : k[1] \in Requesters /\ k[2] \in TIDs /\ k = <<k[1], k[2]>>
  /\ OnceKeys \subseteq Keys
<1>1. \A t \in TIDs : t \in Nat
  BY DEF TIDs
<1>2. \A k \in Keys : k[1] \in Requesters /\ k[2] \in TIDs /\ k = <<k[1], k[2]>>
  BY DEF Keys
<1>3. OnceTIDs \subseteq TIDs
  BY DEF TIDs
<1>4. OnceKeys \subseteq Keys
  BY <1>3 DEF Keys, OnceKeys
<1> QED
  BY <1>1, <1>2, <1>4

\* The packets of an answer, and the frames they are sent in.
LEMMA PacketsOfType ==
  ASSUME NEW k \in Keys, NEW run \in Nat, NEW size \in AnswerSizes
  PROVE  PacketsOf(k, run, size) \in Seq(Packet)
<1>1. size \in Nat /\ size <= MaxResponses
  OBVIOUS
<1>2. PacketsOf(k, run, size) \in [1..size -> Packet]
  BY <1>1 DEF PacketsOf, Packet, Places
<1> QED
  BY <1>1, <1>2, FunctionIsSeq

LEMMA ResponseFramesType ==
  ASSUME NEW k \in Keys, NEW packets \in Seq(Packet), NEW bitmap \in SUBSET Places
  PROVE  ResponseFrames(k, packets, bitmap) \subseteq ToRequester
<1> DEFINE sent == IF packets = <<>> THEN <<EmptyPacket(k)>> ELSE packets
<1>1. EmptyPacket(k) \in Packet
  BY DEF EmptyPacket, Packet
<1>2. <<EmptyPacket(k)>> \in Seq(Packet)
  BY <1>1
<1>3. sent \in Seq(Packet)
  BY <1>2
<1>4. \A i \in DOMAIN sent : sent[i] \in Packet
  BY <1>3, ElementOfSeq
<1> HIDE DEF sent
<1>5. \A i \in bitmap \cap DOMAIN sent :
        [to |-> k, place |-> i, eom |-> i = Len(sent), packet |-> sent[i]] \in ToRequester
  BY <1>4 DEF ToRequester
<1> QED
  BY <1>5 DEF ResponseFrames, sent

\* What a queue of frames may hold.
Sound(f) ==
  /\ f \in ToResponder
  /\ f.kind = "request" => f.xo = Once(f.key)

SoundQueue(q) ==
  /\ q \in Seq(ToResponder)
  /\ Len(q) <= Capacity
  /\ \A i \in 1..Len(q) : Sound(q[i])

LEMMA QueueIsSound == IInv => SoundQueue(toResponder)
BY ElementOfSeq DEF IInv, TypeOK, Flags, SoundQueue, Sound

LEMMA QueueSound ==
  ASSUME NEW q, SoundQueue(q), NEW f, Sound(f)
  PROVE  SoundQueue(Queue(q, f))
<1>1. Len(q) \in Nat
  BY DEF SoundQueue
<1>2. CASE Len(q) < Capacity
  <2>1. /\ Append(q, f) \in Seq(ToResponder)
        /\ Len(Append(q, f)) = Len(q) + 1
        /\ \A i \in 1..Len(q) + 1 :
             Append(q, f)[i] = IF i = Len(q) + 1 THEN f ELSE q[i]
    BY DEF SoundQueue, Sound
  <2>2. \A i \in 1..Len(q) + 1 : Sound(Append(q, f)[i])
    <3> TAKE i \in 1..Len(q) + 1
    <3>1. CASE i = Len(q) + 1
      BY <2>1, <3>1
    <3>2. CASE i \in 1..Len(q)
      BY <1>1, <2>1, <3>2 DEF SoundQueue
    <3> QED
      BY <1>1, <3>1, <3>2
  <2> QED
    BY <1>1, <1>2, <2>1, <2>2 DEF Queue, SoundQueue
<1> QED
  BY <1>1, <1>2 DEF Queue

LEMMA QueueAllSound ==
  ASSUME NEW q, SoundQueue(q), NEW fs \in Seq(ToResponder),
         \A i \in 1..Len(fs) : Sound(fs[i])
  PROVE  SoundQueue(QueueAll(q, fs))
<1> DEFINE all == q \o fs
<1>1. /\ q \in Seq(ToResponder)
      /\ Len(q) \in Nat /\ Len(fs) \in Nat
  BY DEF SoundQueue
<1>2. /\ all \in Seq(ToResponder)
      /\ Len(all) = Len(q) + Len(fs)
      /\ \A i \in 1..Len(q) + Len(fs) :
           all[i] = IF i <= Len(q) THEN q[i] ELSE fs[i - Len(q)]
  BY <1>1, ConcatProperties
<1>3. \A i \in 1..Len(all) : Sound(all[i])
  <2> TAKE i \in 1..Len(all)
  <2>1. CASE i <= Len(q)
    BY <1>1, <1>2, <2>1 DEF SoundQueue
  <2>2. CASE ~(i <= Len(q))
    <3>1. i - Len(q) \in 1..Len(fs) /\ all[i] = fs[i - Len(q)]
      BY <1>1, <1>2, <2>2
    <3> QED
      BY <3>1
  <2> QED
    BY <2>1, <2>2
<1> HIDE DEF all
<1>4. CASE Len(all) <= Capacity
  BY <1>2, <1>3, <1>4 DEF QueueAll, SoundQueue, all
<1>5. CASE ~(Len(all) <= Capacity)
  <2> DEFINE cut == SubSeq(all, 1, Capacity)
  <2>1. \A i \in 1..Capacity : i \in 1..Len(all) /\ all[i] \in ToResponder
    BY <1>1, <1>2, <1>5, ElementOfSeq
  <2>2. /\ cut \in Seq(ToResponder)
        /\ Len(cut) = Capacity
        /\ \A i \in 1..Capacity : cut[i] = all[i]
    <3>1. Capacity \in Int /\ 1 <= Capacity
      OBVIOUS
    <3> HIDE DEF cut
    <3>2. /\ cut \in Seq(ToResponder)
          /\ Len(cut) = IF 1 <= Capacity THEN Capacity - 1 + 1 ELSE 0
          /\ \A i \in 1..(Capacity - 1 + 1) : cut[i] = all[1 + i - 1]
      BY <2>1, <3>1, SubSeqProperties, 1 \in Int DEF cut
    <3> QED
      BY <3>1, <3>2
  <2> HIDE DEF cut
  <2>3. SoundQueue(cut)
    BY <1>3, <2>1, <2>2 DEF SoundQueue
  <2> QED
    BY <1>5, <2>3 DEF QueueAll, all, cut
<1> QED
  BY <1>4, <1>5

LEMMA TailSound ==
  ASSUME NEW q, SoundQueue(q), q # <<>>
  PROVE  SoundQueue(Tail(q)) /\ Sound(Head(q))
<1>1. /\ q \in Seq(ToResponder)
      /\ Len(q) \in Nat \ {0} /\ Len(q) <= Capacity
  BY EmptySeq DEF SoundQueue
<1>2. /\ Tail(q) \in Seq(ToResponder)
      /\ Len(Tail(q)) = Len(q) - 1
      /\ \A i \in 1..Len(Tail(q)) : Tail(q)[i] = q[i + 1]
  BY <1>1, HeadTailProperties
<1>3. \A i \in 1..Len(Tail(q)) : Sound(Tail(q)[i])
  <2> TAKE i \in 1..Len(Tail(q))
  <2>1. i + 1 \in 1..Len(q)
    BY <1>1, <1>2
  <2> QED
    BY <1>2, <2>1 DEF SoundQueue
<1>4. Head(q) = q[1] /\ 1 \in 1..Len(q)
  BY <1>1
<1> QED
  BY <1>1, <1>2, <1>3, <1>4 DEF SoundQueue

\* The frame of a request that waits.
LEMMA RequestFrameSound ==
  ASSUME NEW k \in Keys, NEW p \in PendingRequest, p.xo = Once(k)
  PROVE  Sound(RequestFrame(k, p))
BY DEF Sound, RequestFrame, ToResponder, PendingRequest

-----------------------------------------------------------------------------
(* The steps.                                                              *)

LEMMA InitIInv == Init => IInv
<1> SUFFICES ASSUME Init PROVE IInv
  OBVIOUS
<1>1. TypeOK
  BY EmptySeq DEF Init, TypeOK
<1>2. Flags /\ RunsCounted /\ CalledBefore
  BY TIDsAreNumbers, EmptySeq DEF Init, Flags, RunsCounted, CalledBefore
<1>3. DoneOnce
  <2> SUFFICES ASSUME NEW k \in Keys PROVE ~(k[2] <= nextTID[k[1]]) /\ Len(outcome[k]) = 0
    BY DEF DoneOnce
  <2> QED
    BY TIDsAreNumbers DEF Init, TIDs
<1> QED
  BY <1>1, <1>2, <1>3 DEF IInv

\* A queue that is sound is all of the invariant that speaks of it.
LEMMA QueueInv ==
  SoundQueue(toResponder)' =>
    /\ (toResponder \in Seq(ToResponder))' /\ (Len(toResponder) <= Capacity)'
    /\ \A i \in 1..Len(toResponder') :
         toResponder'[i].kind = "request" => toResponder'[i].xo = Once(toResponder'[i].key)
BY DEF SoundQueue, Sound

LEMMA CallIInv ==
  ASSUME IInv, NEW r \in Requesters, Call(r)
  PROVE  IInv'
<1> DEFINE t == nextTID[r] + 1
           k == <<r, t>>
           p == [xo |-> t \in OnceTIDs, wanted |-> Places, got |-> NoPackets,
                 retries |-> Retries, next |-> Interval]
<1>1. /\ nextTID[r] < MaxCalls
      /\ nextTID' = [nextTID EXCEPT ![r] = t]
      /\ pending' = [pending EXCEPT ![k] = p]
      /\ toResponder' = Queue(toResponder, RequestFrame(k, p))
      /\ UNCHANGED <<toRequester, outcome, kept, working, runs, forgotten, answers>>
  BY DEF Call, responder
<1>2. t \in TIDs /\ k \in Keys /\ nextTID \in [Requesters -> 0..MaxCalls]
  BY <1>1 DEF IInv, TypeOK, TIDs, Keys
<1>3. p \in PendingRequest /\ p.xo = Once(k) /\ p # None
  <2>1. NoPackets \in [Places -> Packet \cup {None}]
    BY DEF NoPackets
  <2>2. (t \in OnceTIDs) \in BOOLEAN /\ Retries \in 0..Retries /\ Interval \in 1..Interval
    OBVIOUS
  <2>3. p \in PendingRequest
    BY <2>1, <2>2 DEF PendingRequest
  <2>4. p.xo = Once(k)
    BY DEF Once
  <2> QED
    BY <2>3, <2>4, NoneIsApart
<1> HIDE DEF p
<1>4. SoundQueue(toResponder')
  BY <1>1, <1>2, <1>3, QueueIsSound, QueueSound, RequestFrameSound
<1>5. TypeOK'
  <2>1. nextTID' \in [Requesters -> 0..MaxCalls]
    BY <1>1, <1>2
  <2>2. pending' \in [Keys -> PendingRequest \cup {None}]
    BY <1>1, <1>2, <1>3 DEF IInv, TypeOK
  <2> QED
    BY <1>1, <1>4, <2>1, <2>2 DEF IInv, TypeOK, SoundQueue
<1>6. Flags'
  <2>1. \A j \in Keys : pending'[j] # None => pending'[j].xo = Once(j)
    BY <1>1, <1>2, <1>3 DEF IInv, TypeOK, Flags
  <2> QED
    BY <1>4, <2>1 DEF Flags, SoundQueue, Sound
<1>7. RunsCounted'
  BY <1>1 DEF IInv, RunsCounted
<1>8. CalledBefore' /\ DoneOnce'
  <2> SUFFICES ASSUME NEW j \in Keys
               PROVE  /\ pending'[j] # None => j[2] <= nextTID'[j[1]]
                      /\ Len(outcome'[j]) =
                           IF j[2] <= nextTID'[j[1]] /\ pending'[j] = None THEN 1 ELSE 0
    BY DEF CalledBefore, DoneOnce
  <2>1. /\ pending[j] # None => j[2] <= nextTID[j[1]]
        /\ Len(outcome[j]) = IF j[2] <= nextTID[j[1]] /\ pending[j] = None THEN 1 ELSE 0
    BY DEF IInv, CalledBefore, DoneOnce
  <2>2. j[1] \in Requesters /\ j[2] \in Nat /\ j = <<j[1], j[2]>>
    BY TIDsAreNumbers
  <2>3. pending \in [Keys -> PendingRequest \cup {None}]
    BY DEF IInv, TypeOK
  <2>4. CASE j = k
    <3>1. j[1] = r /\ j[2] = nextTID[r] + 1 /\ nextTID'[r] = nextTID[r] + 1
      BY <1>1, <1>2, <2>4
    <3>2. pending'[j] = p
      BY <1>1, <1>2, <2>3, <2>4
    <3>3. nextTID[r] \in Nat
      BY <1>2
    <3> QED
      BY <1>1, <1>3, <2>1, <3>1, <3>2, <3>3
  <2>5. CASE j # k
    <3>1. pending'[j] = pending[j] /\ outcome'[j] = outcome[j]
      BY <1>1, <2>3, <2>5
    <3>2. j[2] <= nextTID'[j[1]] <=> j[2] <= nextTID[j[1]]
      <4>1. CASE j[1] = r
        <5>1. j[2] # nextTID[r] + 1 /\ nextTID'[r] = nextTID[r] + 1 /\ nextTID[r] \in Nat
          BY <1>1, <1>2, <2>2, <2>5, <4>1
        <5> QED
          BY <2>2, <4>1, <5>1
      <4>2. CASE j[1] # r
        BY <1>1, <1>2, <2>2, <4>2
      <4> QED
        BY <4>1, <4>2
    <3> QED
      BY <2>1, <3>1, <3>2
  <2> QED
    BY <2>4, <2>5
<1> QED
  BY <1>5, <1>6, <1>7, <1>8 DEF IInv

\* A step that only takes from the frames on the way to the requesters, or
\* adds sound ones, and leaves the queue sound, is no matter to the rest.
LEMMA FramesOnly ==
  ASSUME IInv, UNCHANGED <<nextTID, pending, kept, working, runs, forgotten, answers, outcome>>,
         SoundQueue(toResponder'), toRequester' \subseteq ToRequester
  PROVE  IInv'
<1>1. TypeOK' /\ Flags'
  BY DEF IInv, TypeOK, Flags, SoundQueue, Sound
<1>2. RunsCounted' /\ CalledBefore' /\ DoneOnce'
  BY DEF IInv, RunsCounted, CalledBefore, DoneOnce
<1> QED
  BY <1>1, <1>2 DEF IInv

\* The outcomes a call may have.
Outcome == [ok : BOOLEAN, got : [Places -> Packet \cup {None}]]

LEMMA OutcomeAdded ==
  ASSUME NEW s \in Seq(Outcome), NEW o \in Outcome
  PROVE  Append(s, o) \in Seq(Outcome) /\ Len(Append(s, o)) = Len(s) + 1
OBVIOUS

LEMMA ReceiveResponseIInv ==
  ASSUME IInv, NEW f \in toRequester, ReceiveResponse(f)
  PROVE  IInv'
<1> DEFINE k == f.to
           p == pending[k]
           got == [p.got EXCEPT ![f.place] = f.packet]
           wanted == StillWanted(p, f)
<1>1. /\ toRequester' = toRequester \ {f}
      /\ UNCHANGED <<nextTID, kept, working, runs, forgotten, answers>>
      /\ \/ /\ p = None
            /\ UNCHANGED <<pending, outcome, toResponder>>
         \/ /\ p # None
            /\ wanted # {}
            /\ pending' = [pending EXCEPT ![k] = [p EXCEPT !.got = got, !.wanted = wanted]]
            /\ UNCHANGED <<outcome, toResponder>>
         \/ /\ p # None
            /\ wanted = {}
            /\ pending' = [pending EXCEPT ![k] = None]
            /\ outcome' = [outcome EXCEPT ![k] = Append(@, [ok |-> TRUE, got |-> got])]
            /\ toResponder' = IF p.xo THEN Queue(toResponder, ReleaseFrame(k))
                              ELSE toResponder
  BY DEF ReceiveResponse, responder
<1>2. /\ k \in Keys /\ f.place \in Places /\ f.packet \in Packet
      /\ pending \in [Keys -> PendingRequest \cup {None}]
      /\ outcome \in [Keys -> Seq(Outcome)]
      /\ toRequester' \subseteq ToRequester
  BY <1>1 DEF IInv, TypeOK, ToRequester, Outcome
<1>3. CASE p = None
  BY <1>1, <1>2, <1>3, QueueIsSound, FramesOnly
<1>4. ASSUME p # None
      PROVE  /\ p \in PendingRequest
             /\ got \in [Places -> Packet \cup {None}]
             /\ wanted \in SUBSET Places
             /\ [p EXCEPT !.got = got, !.wanted = wanted] \in PendingRequest
             /\ [p EXCEPT !.got = got, !.wanted = wanted].xo = p.xo
             /\ [ok |-> TRUE, got |-> got] \in Outcome
  <2>1. p \in PendingRequest
    BY <1>2, <1>4
  <2>2. got \in [Places -> Packet \cup {None}]
    BY <1>2, <2>1 DEF PendingRequest
  <2>3. wanted \in SUBSET Places
    BY <2>1 DEF StillWanted, PendingRequest
  <2> QED
    BY <2>1, <2>2, <2>3 DEF PendingRequest, Outcome
<1>5. CASE p # None /\ wanted # {}
  <2> DEFINE q == [p EXCEPT !.got = got, !.wanted = wanted]
  <2>1. /\ pending' = [pending EXCEPT ![k] = q]
        /\ UNCHANGED <<outcome, toResponder>>
    BY <1>1, <1>5
  <2>2. q \in PendingRequest /\ q.xo = p.xo /\ q # None
    BY <1>4, <1>5, NoneIsApart
  <2> HIDE DEF q
  <2>3. pending' \in [Keys -> PendingRequest \cup {None}]
    BY <1>2, <2>1, <2>2
  <2>4. TypeOK'
    BY <1>1, <1>2, <2>1, <2>3 DEF IInv, TypeOK
  <2>5. \A j \in Keys : /\ pending'[j] = None <=> pending[j] = None
                        /\ pending'[j] # None => pending'[j].xo = Once(j)
    BY <1>2, <1>5, <2>1, <2>2 DEF IInv, Flags
  <2>6. Flags'
    BY <2>1, <2>5 DEF IInv, Flags
  <2>7. RunsCounted' /\ CalledBefore' /\ DoneOnce'
    BY <1>1, <2>1, <2>5 DEF IInv, RunsCounted, CalledBefore, DoneOnce
  <2> QED
    BY <2>4, <2>6, <2>7 DEF IInv
<1>6. CASE p # None /\ wanted = {}
  <2> DEFINE o == [ok |-> TRUE, got |-> got]
  <2>1. /\ pending' = [pending EXCEPT ![k] = None]
        /\ outcome' = [outcome EXCEPT ![k] = Append(outcome[k], o)]
        /\ toResponder' = IF p.xo THEN Queue(toResponder, ReleaseFrame(k)) ELSE toResponder
    BY <1>1, <1>6
  <2>2. o \in Outcome
    BY <1>4, <1>6
  <2> HIDE DEF o
  <2>3. Append(outcome[k], o) \in Seq(Outcome) /\ Len(Append(outcome[k], o)) = Len(outcome[k]) + 1
    BY <1>2, <2>2, OutcomeAdded
  <2>4. Sound(ReleaseFrame(k))
    BY <1>2 DEF Sound, ReleaseFrame, ToResponder
  <2>5. SoundQueue(toResponder')
    BY <2>1, <2>4, QueueIsSound, QueueSound
  <2>6. TypeOK'
    <3>1. pending' \in [Keys -> PendingRequest \cup {None}]
      BY <1>2, <2>1
    <3>2. outcome' \in [Keys -> Seq(Outcome)]
      BY <1>2, <2>1, <2>3
    <3> QED
      BY <1>1, <1>2, <2>5, <3>1, <3>2 DEF IInv, TypeOK, SoundQueue, Outcome
  <2>7. Flags'
    <3>1. \A j \in Keys : pending'[j] # None => pending'[j].xo = Once(j)
      BY <1>2, <2>1 DEF IInv, Flags
    <3> QED
      BY <2>5, <3>1 DEF Flags, SoundQueue, Sound
  <2>8. RunsCounted' /\ CalledBefore'
    BY <1>1, <1>2, <2>1 DEF IInv, RunsCounted, CalledBefore
  <2>9. DoneOnce'
    <3> SUFFICES ASSUME NEW j \in Keys
                 PROVE  Len(outcome'[j]) =
                          IF j[2] <= nextTID'[j[1]] /\ pending'[j] = None THEN 1 ELSE 0
      BY DEF DoneOnce
    <3>1. CASE j = k
      <4>1. Len(outcome[k]) = 0 /\ k[2] <= nextTID[k[1]]
        BY <1>2, <1>6 DEF IInv, DoneOnce, CalledBefore
      <4>2. pending'[k] = None /\ outcome'[k] = Append(outcome[k], o)
        BY <1>2, <2>1
      <4> QED
        BY <1>1, <2>3, <3>1, <4>1, <4>2
    <3>2. CASE j # k
      <4>1. pending'[j] = pending[j] /\ outcome'[j] = outcome[j]
        BY <1>2, <2>1, <3>2
      <4> QED
        BY <1>1, <4>1 DEF IInv, DoneOnce
    <3> QED
      BY <3>1, <3>2
  <2> QED
    BY <2>6, <2>7, <2>8, <2>9 DEF IInv
<1> QED
  BY <1>3, <1>5, <1>6

LEMMA ReceiveRequestIInv ==
  ASSUME IInv, ReceiveRequest
  PROVE  IInv'
<1> DEFINE f == Head(toResponder)
           k == f.key
<1>1. /\ toResponder # <<>> /\ f.kind = "request"
      /\ toResponder' = Tail(toResponder)
      /\ AnswerFromKept(f) \/ RunRequest(f)
      /\ UNCHANGED <<nextTID, pending, outcome>>
  BY DEF ReceiveRequest, requester
<1>2. SoundQueue(toResponder') /\ Sound(f)
  BY <1>1, QueueIsSound, TailSound
<1>3. f \in [kind : {"request"}, key : Keys, xo : BOOLEAN, bitmap : SUBSET Places]
  BY <1>1, <1>2 DEF Sound, ToResponder
<1>4. k \in Keys /\ f.xo = Once(k) /\ f.bitmap \in SUBSET Places
  BY <1>1, <1>2, <1>3 DEF Sound
<1>5. CASE AnswerFromKept(f)
  <2>1. UNCHANGED <<kept, working, runs, forgotten, answers>>
    BY <1>5 DEF AnswerFromKept, responder
  <2>2. toRequester' \subseteq ToRequester
    <3>1. kept[k] \in KeptResponse
      BY <1>4, <1>5 DEF AnswerFromKept, IsRetry, IInv, TypeOK
    <3>2. ResponseFrames(k, kept[k].packets, f.bitmap) \subseteq ToRequester
      BY <1>4, <3>1, ResponseFramesType DEF KeptResponse
    <3> QED
      BY <1>5, <3>2 DEF AnswerFromKept, IInv, TypeOK
  <2> QED
    BY <1>1, <1>2, <2>1, <2>2, FramesOnly
<1>6. CASE RunRequest(f)
  <2> DEFINE new == [packets |-> <<>>, left |-> ReleaseTime]
             w == [key |-> k, run |-> runs[k] + 1, xo |-> f.xo, bitmap |-> f.bitmap]
  <2>1. /\ ~(f.xo /\ kept[k] # None)
        /\ kept' = IF f.xo THEN [kept EXCEPT ![k] = new] ELSE kept
        /\ runs' = [runs EXCEPT ![k] = runs[k] + 1]
        /\ working' = working \cup {w}
        /\ UNCHANGED <<forgotten, answers, toRequester>>
    BY <1>6 DEF RunRequest, IsRetry
  <2>2. /\ kept \in [Keys -> KeptResponse \cup {None}]
        /\ runs \in [Keys -> Nat] /\ forgotten \in [Keys -> Nat]
    BY DEF IInv, TypeOK
  <2>3. new \in KeptResponse /\ new # None
    <3>1. <<>> \in Seq(Packet) /\ ReleaseTime \in 0..ReleaseTime
      OBVIOUS
    <3>2. new \in KeptResponse
      BY <3>1 DEF KeptResponse
    <3> QED
      BY <3>2, NoneIsApart
  <2>4. w \in RequestIn
    BY <1>3, <1>4, <2>2 DEF RequestIn
  <2> HIDE DEF new, w
  <2>5. TypeOK'
    <3>1. kept' \in [Keys -> KeptResponse \cup {None}] /\ runs' \in [Keys -> Nat]
      BY <1>4, <2>1, <2>2, <2>3
    <3> QED
      BY <1>1, <1>2, <2>1, <2>4, <3>1 DEF IInv, TypeOK, SoundQueue
  <2>6. Flags' /\ CalledBefore' /\ DoneOnce'
    BY <1>1, <1>2 DEF IInv, Flags, CalledBefore, DoneOnce, SoundQueue, Sound
  <2>7. RunsCounted'
    <3> SUFFICES ASSUME NEW j \in OnceKeys
                 PROVE  runs'[j] = forgotten'[j] + (IF kept'[j] = None THEN 0 ELSE 1)
      BY DEF RunsCounted
    <3>1. runs[j] = forgotten[j] + (IF kept[j] = None THEN 0 ELSE 1) /\ j \in Keys /\ Once(j)
      BY TIDsAreNumbers DEF IInv, RunsCounted, OnceKeys, Once
    <3>2. CASE j = k
      <4>1. f.xo /\ kept[k] = None
        BY <1>4, <2>1, <3>1, <3>2
      <4>2. kept'[k] = new /\ runs'[k] = runs[k] + 1
        BY <1>4, <2>1, <2>2, <4>1
      <4> QED
        BY <2>1, <2>2, <2>3, <3>1, <3>2, <4>1, <4>2
    <3>3. CASE j # k
      <4>1. kept'[j] = kept[j] /\ runs'[j] = runs[j]
        BY <2>1, <2>2, <3>1, <3>3
      <4> QED
        BY <2>1, <3>1, <4>1
    <3> QED
      BY <3>2, <3>3
  <2> QED
    BY <2>5, <2>6, <2>7 DEF IInv
<1> QED
  BY <1>1, <1>5, <1>6

LEMMA ReceiveReleaseIInv ==
  ASSUME IInv, ReceiveRelease
  PROVE  IInv'
<1> DEFINE ks == {Head(toResponder).key}
<1>1. /\ toResponder # <<>> /\ toResponder' = Tail(toResponder)
      /\ kept' = [k \in Keys |-> IF k \in ks THEN None ELSE kept[k]]
      /\ forgotten' = [k \in Keys |->
           IF k \in ks /\ kept[k] # None THEN forgotten[k] + 1 ELSE forgotten[k]]
      /\ UNCHANGED <<nextTID, pending, outcome, toRequester, working, runs, answers>>
  BY DEF ReceiveRelease, Forget, requester
<1>2. SoundQueue(toResponder')
  BY <1>1, QueueIsSound, TailSound
<1> HIDE DEF ks
<1>3. /\ kept \in [Keys -> KeptResponse \cup {None}] /\ forgotten \in [Keys -> Nat]
  BY DEF IInv, TypeOK
<1>4. TypeOK'
  <2>1. kept' \in [Keys -> KeptResponse \cup {None}] /\ forgotten' \in [Keys -> Nat]
    BY <1>1, <1>3
  <2> QED
    BY <1>1, <1>2, <2>1 DEF IInv, TypeOK, SoundQueue
<1>5. Flags' /\ CalledBefore' /\ DoneOnce'
  BY <1>1, <1>2 DEF IInv, Flags, CalledBefore, DoneOnce, SoundQueue, Sound
<1>6. RunsCounted'
  <2> SUFFICES ASSUME NEW k \in OnceKeys
               PROVE  runs'[k] = forgotten'[k] + (IF kept'[k] = None THEN 0 ELSE 1)
    BY DEF RunsCounted
  <2>1. runs[k] = forgotten[k] + (IF kept[k] = None THEN 0 ELSE 1) /\ k \in Keys
    BY TIDsAreNumbers DEF IInv, RunsCounted
  <2> QED
    BY <1>1, <1>3, <2>1
<1> QED
  BY <1>4, <1>5, <1>6 DEF IInv

LEMMA RespondIInv ==
  ASSUME IInv, NEW w \in working, NEW size \in AnswerSizes, Respond(w, size)
  PROVE  IInv'
<1> DEFINE k == w.key
           packets == PacketsOf(k, w.run, size)
<1>1. /\ working' = working \ {w}
      /\ kept' = IF w.xo /\ kept[k] # None
                 THEN [kept EXCEPT ![k] = [kept[k] EXCEPT !.packets = packets]] ELSE kept
      /\ answers' = [answers EXCEPT ![k] = Append(answers[k], packets)]
      /\ toRequester' = toRequester \cup ResponseFrames(k, packets, w.bitmap)
      /\ UNCHANGED <<toResponder, runs, forgotten, nextTID, pending, outcome>>
  BY DEF Respond, requester
<1>2. k \in Keys /\ w.run \in Nat /\ w.bitmap \in SUBSET Places
  BY DEF IInv, TypeOK, RequestIn
<1>3. packets \in Seq(Packet)
  BY <1>2, PacketsOfType
<1> HIDE DEF packets
<1>4. /\ kept \in [Keys -> KeptResponse \cup {None}]
      /\ answers \in [Keys -> Seq(Seq(Packet))]
  BY DEF IInv, TypeOK
<1>5. ASSUME kept[k] # None
      PROVE  [kept[k] EXCEPT !.packets = packets] \in KeptResponse
  BY <1>2, <1>3, <1>4, <1>5 DEF KeptResponse
<1>6. \A j \in Keys : kept'[j] = None <=> kept[j] = None
  BY <1>1, <1>2, <1>4, <1>5, NoneIsApart
<1>7. TypeOK'
  <2>1. kept' \in [Keys -> KeptResponse \cup {None}]
    BY <1>1, <1>2, <1>4, <1>5
  <2>2. answers' \in [Keys -> Seq(Seq(Packet))]
    <3>1. Append(answers[k], packets) \in Seq(Seq(Packet))
      BY <1>2, <1>3, <1>4
    <3> QED
      BY <1>1, <1>2, <1>4, <3>1
  <2>3. toRequester' \subseteq ToRequester
    BY <1>1, <1>2, <1>3, ResponseFramesType DEF IInv, TypeOK
  <2> QED
    BY <1>1, <2>1, <2>2, <2>3 DEF IInv, TypeOK
<1>8. Flags' /\ CalledBefore' /\ DoneOnce'
  BY <1>1 DEF IInv, Flags, CalledBefore, DoneOnce
<1>9. RunsCounted'
  BY <1>1, <1>6, TIDsAreNumbers DEF IInv, RunsCounted
<1> QED
  BY <1>7, <1>8, <1>9 DEF IInv

LEMMA TickIInv ==
  ASSUME IInv, Tick
  PROVE  IInv'
<1>1. /\ kept' = [k \in Keys |->
           IF kept[k] = None \/ Expired(k) THEN None ELSE Aged(kept[k])]
      /\ forgotten' = [k \in Keys |-> IF Expired(k) THEN forgotten[k] + 1 ELSE forgotten[k]]
      /\ pending' = [k \in Keys |->
           IF pending[k] = None \/ Spent(k) THEN None
           ELSE IF Due(k) THEN Retried(pending[k])
           ELSE [pending[k] EXCEPT !.next = @ - 1]]
      /\ outcome' = [k \in Keys |-> OutcomeAfterTick(k)]
      /\ UNCHANGED <<nextTID, working, runs, answers, toRequester>>
  BY DEF Tick
<1>2. PICK order \in SetToSeqs({k \in Keys : Due(k) /\ ~Spent(k)}) :
        toResponder' = QueueAll(toResponder,
          [i \in DOMAIN order |-> RequestFrame(order[i], pending[order[i]])])
  BY DEF Tick
<1>3. /\ kept \in [Keys -> KeptResponse \cup {None}] /\ forgotten \in [Keys -> Nat]
      /\ pending \in [Keys -> PendingRequest \cup {None}]
      /\ outcome \in [Keys -> Seq(Outcome)]
  BY DEF IInv, TypeOK, Outcome
<1>4. SoundQueue(toResponder')
  <2> DEFINE D == {k \in Keys : Due(k) /\ ~Spent(k)}
             fs == [i \in DOMAIN order |-> RequestFrame(order[i], pending[order[i]])]
  <2>1. IsFiniteSet(D)
    <3>1. IsFiniteSet(Keys)
      <4>1. IsFiniteSet(TIDs)
        BY FS_Interval DEF TIDs
      <4> QED
        BY <4>1, FS_Product DEF Keys
    <3> QED
      BY <3>1, FS_Subset
  <2>2. PICK n \in Nat : order \in [1..n -> D]
    BY <2>1, FS_CardinalityType DEF SetToSeqs
  <2>3. \A k \in D : Sound(RequestFrame(k, pending[k]))
    BY <1>3, RequestFrameSound DEF Due, IInv, Flags
  <2>4. \A i \in 1..n : fs[i] = RequestFrame(order[i], pending[order[i]]) /\ Sound(fs[i])
    BY <2>2, <2>3
  <2>5. fs \in [1..n -> ToResponder]
    BY <2>2, <2>4 DEF Sound
  <2> HIDE DEF fs
  <2>6. fs \in Seq(ToResponder) /\ Len(fs) = n
    BY <2>2, <2>5, FunctionIsSeq
  <2> QED
    BY <1>2, <2>4, <2>6, QueueIsSound, QueueAllSound DEF fs
<1>5. \A k \in Keys : kept'[k] \in KeptResponse \cup {None}
                      /\ (kept'[k] = None <=> kept[k] = None \/ Expired(k))
  <2> TAKE k \in Keys
  <2>1. CASE kept[k] = None \/ Expired(k)
    BY <1>1, <2>1
  <2>2. CASE ~(kept[k] = None \/ Expired(k))
    <3>1. kept[k] \in KeptResponse /\ kept[k].left # 0
      BY <1>3, <2>2 DEF Expired
    <3>2. Aged(kept[k]) \in KeptResponse
      BY <3>1 DEF Aged, KeptResponse
    <3> QED
      BY <1>1, <2>2, <3>2, NoneIsApart
  <2> QED
    BY <2>1, <2>2
<1>6. \A k \in Keys :
        /\ pending'[k] \in PendingRequest \cup {None}
        /\ pending'[k] = None <=> pending[k] = None \/ Spent(k)
        /\ pending'[k] # None => pending'[k].xo = pending[k].xo
  <2> TAKE k \in Keys
  <2>1. CASE pending[k] = None \/ Spent(k)
    BY <1>1, <2>1
  <2>2. CASE ~(pending[k] = None \/ Spent(k)) /\ Due(k)
    <3>1. pending[k] \in PendingRequest /\ pending[k].retries # 0
      BY <1>3, <2>2 DEF Spent
    <3>2. Retried(pending[k]) \in PendingRequest /\ Retried(pending[k]).xo = pending[k].xo
      <4>1. pending[k].retries - 1 \in 0..Retries /\ Interval \in 1..Interval
        BY <3>1 DEF PendingRequest
      <4> QED
        BY <3>1, <4>1 DEF Retried, PendingRequest
    <3> QED
      BY <1>1, <2>2, <3>2, NoneIsApart
  <2>3. CASE ~(pending[k] = None \/ Spent(k)) /\ ~Due(k)
    <3> DEFINE q == [pending[k] EXCEPT !.next = @ - 1]
    <3>1. pending[k] \in PendingRequest /\ pending[k].next # 1
      BY <1>3, <2>3 DEF Due
    <3>2. q \in PendingRequest /\ q.xo = pending[k].xo
      BY <3>1 DEF PendingRequest
    <3> QED
      BY <1>1, <2>3, <3>2, NoneIsApart
  <2> QED
    BY <2>1, <2>2, <2>3
<1>7. \A k \in Keys :
        /\ outcome'[k] \in Seq(Outcome)
        /\ Len(outcome'[k]) = IF Spent(k) THEN Len(outcome[k]) + 1 ELSE Len(outcome[k])
  <2> TAKE k \in Keys
  <2>1. [ok |-> FALSE, got |-> NoPackets] \in Outcome
    <3>1. NoPackets \in [Places -> Packet \cup {None}]
      BY DEF NoPackets
    <3> QED
      BY <3>1 DEF Outcome
  <2>2. /\ Append(outcome[k], [ok |-> FALSE, got |-> NoPackets]) \in Seq(Outcome)
        /\ Len(Append(outcome[k], [ok |-> FALSE, got |-> NoPackets])) = Len(outcome[k]) + 1
    BY <1>3, <2>1, OutcomeAdded
  <2> QED
    BY <1>1, <1>3, <2>2 DEF OutcomeAfterTick
<1>8. TypeOK'
  <2>1. /\ kept' \in [Keys -> KeptResponse \cup {None}]
        /\ pending' \in [Keys -> PendingRequest \cup {None}]
        /\ outcome' \in [Keys -> Seq(Outcome)]
        /\ forgotten' \in [Keys -> Nat]
    BY <1>1, <1>3, <1>5, <1>6, <1>7
  <2> QED
    BY <1>1, <1>4, <2>1 DEF IInv, TypeOK, SoundQueue, Outcome
<1>9. Flags' /\ CalledBefore'
  BY <1>1, <1>4, <1>6 DEF IInv, Flags, CalledBefore, SoundQueue, Sound
<1>10. RunsCounted'
  <2> SUFFICES ASSUME NEW k \in OnceKeys
               PROVE  runs'[k] = forgotten'[k] + (IF kept'[k] = None THEN 0 ELSE 1)
    BY DEF RunsCounted
  <2>1. runs[k] = forgotten[k] + (IF kept[k] = None THEN 0 ELSE 1) /\ k \in Keys
    BY TIDsAreNumbers DEF IInv, RunsCounted
  <2>2. forgotten[k] \in Nat /\ (Expired(k) => kept[k] # None)
    BY <1>3, <2>1 DEF Expired
  <2>3. forgotten'[k] = IF Expired(k) THEN forgotten[k] + 1 ELSE forgotten[k]
    BY <1>1, <2>1
  <2> QED
    BY <1>1, <1>5, <2>1, <2>2, <2>3
<1>11. DoneOnce'
  <2> SUFFICES ASSUME NEW k \in Keys
               PROVE  Len(outcome'[k]) =
                        IF k[2] <= nextTID'[k[1]] /\ pending'[k] = None THEN 1 ELSE 0
    BY DEF DoneOnce
  <2>1. /\ Len(outcome[k]) = IF k[2] <= nextTID[k[1]] /\ pending[k] = None THEN 1 ELSE 0
        /\ pending[k] # None => k[2] <= nextTID[k[1]]
    BY DEF IInv, DoneOnce, CalledBefore
  <2>2. Spent(k) => pending[k] # None
    BY DEF Spent, Due
  <2>3. CASE Spent(k)
    <3>1. pending'[k] = None /\ Len(outcome'[k]) = Len(outcome[k]) + 1
      BY <1>6, <1>7, <2>3
    <3>2. Len(outcome[k]) = 0 /\ k[2] <= nextTID'[k[1]]
      BY <1>1, <2>1, <2>2, <2>3
    <3> QED
      BY <3>1, <3>2
  <2>4. CASE ~Spent(k)
    <3>1. pending'[k] = None <=> pending[k] = None
      BY <1>6, <2>4
    <3>2. Len(outcome'[k]) = Len(outcome[k]) /\ nextTID' = nextTID
      BY <1>1, <1>7, <2>4
    <3> QED
      BY <2>1, <3>1, <3>2
  <2> QED
    BY <2>3, <2>4
<1> QED
  BY <1>8, <1>9, <1>10, <1>11 DEF IInv

LEMMA LoseIInv ==
  ASSUME IInv, Lose
  PROVE  IInv'
<1>1. UNCHANGED <<nextTID, pending, kept, working, runs, forgotten, answers, outcome>>
  BY DEF Lose, requester, responder
<1>2. SoundQueue(toResponder')
  BY QueueIsSound, TailSound DEF Lose
<1>3. toRequester' \subseteq ToRequester
  BY DEF Lose, IInv, TypeOK
<1> QED
  BY <1>1, <1>2, <1>3, FramesOnly

LEMMA NextIInv == IInv /\ [Next]_vars => IInv'
<1> SUFFICES ASSUME IInv, [Next]_vars PROVE IInv'
  OBVIOUS
<1>1. ASSUME NEW r \in Requesters, Call(r) PROVE IInv'
  BY <1>1, CallIInv
<1>2. ASSUME NEW f \in toRequester, ReceiveResponse(f) PROVE IInv'
  BY <1>2, ReceiveResponseIInv
<1>3. CASE ReceiveRequest
  BY <1>3, ReceiveRequestIInv
<1>4. CASE ReceiveRelease
  BY <1>4, ReceiveReleaseIInv
<1>5. ASSUME NEW w \in working, NEW size \in AnswerSizes, Respond(w, size) PROVE IInv'
  BY <1>5, RespondIInv
<1>6. CASE Tick
  BY <1>6, TickIInv
<1>7. CASE Lose
  BY <1>7, LoseIInv
<1>8. CASE UNCHANGED vars
  <2>1. SoundQueue(toResponder') /\ toRequester' \subseteq ToRequester
    BY <1>8, QueueIsSound DEF vars, IInv, TypeOK
  <2> QED
    BY <1>8, <2>1, FramesOnly DEF vars
<1> QED
  BY <1>1, <1>2, <1>3, <1>4, <1>5, <1>6, <1>7, <1>8 DEF Next

LEMMA IInvHolds == Spec => []IInv
BY InitIInv, NextIInv, PTL DEF Spec

-----------------------------------------------------------------------------
\* Every variable keeps its type and the queue of a node its bound, whatever
\* arrives, and however often (atp.go:123-300).
THEOREM TypeCorrect == Spec => []TypeOK
BY IInvHolds, PTL DEF IInv

\* However many times it is retried, lost and late, an exactly once request
\* runs again only after its kept response went (request, atp.go:157-174).
THEOREM RunsOnceWhileKept == Spec => []OnceWhileKept
<1>1. IInv => OnceWhileKept
  <2> SUFFICES ASSUME IInv, NEW k \in OnceKeys PROVE runs[k] <= forgotten[k] + 1
    BY DEF OnceWhileKept
  <2>1. runs[k] = forgotten[k] + (IF kept[k] = None THEN 0 ELSE 1) /\ forgotten[k] \in Nat
    BY TIDsAreNumbers DEF IInv, RunsCounted, TypeOK
  <2> QED
    BY <2>1
<1> QED
  BY <1>1, IInvHolds, PTL

\* Whatever arrives twice or late, done is called once for a call, when it is
\* over (response, atp.go:253-261, and tick, 289-292).
THEOREM AnsweredOnce == Spec => []DoneOnce
BY IInvHolds, PTL DEF IInv

-----------------------------------------------------------------------------
(* In time.  A response that is kept for as long as the retries of its     *)
(* request last is there for each of them: what is on its way to the       *)
(* responder finds it kept, and what may still be sent will.               *)

\* The frames that arrived are handled before the next tick, and a response is
\* kept for as long as its request is retried.
Timely == Prompt /\ ReleaseTime >= Retries * Interval

Frames(q) == {q[i] : i \in 1..Len(q)}

\* A request never follows the release of its transaction.
InOrder(q) ==
  \A i, j \in 1..Len(q) :
    i < j /\ q[i].kind = "release" /\ q[j].kind = "request" => q[i].key # q[j].key

Called(k) == k[2] <= nextTID[k[1]]

\* The ticks before the last of the retries is sent.
TicksLeft(p) == p.next + (p.retries - 1) * Interval

FrameInTime(f) ==
  /\ Called(f.key)
  /\ f.kind = "release" => pending[f.key] = None
  /\ f.kind = "request" /\ f.key \in OnceKeys /\ runs[f.key] > 0 => kept[f.key] # None

KeptInTime(k) ==
  /\ runs[k] > 0 => Called(k)
  /\ pending[k] # None /\ runs[k] > 0 /\ pending[k].retries > 0 =>
       kept[k] # None /\ kept[k].left >= TicksLeft(pending[k])

InTime ==
  /\ \A f \in Frames(toResponder) : FrameInTime(f)
  /\ InOrder(toResponder)
  /\ \A k \in OnceKeys : KeptInTime(k)

\* The frames of a queue with one more, if there is room for it.
LEMMA QueueFrames ==
  ASSUME NEW q \in Seq(ToResponder), NEW f \in ToResponder
  PROVE  /\ Frames(Queue(q, f)) \subseteq Frames(q) \cup {f}
         /\ /\ InOrder(q)
            /\ f.kind = "request" => \A g \in Frames(q) : g.kind = "release" => g.key # f.key
            => InOrder(Queue(q, f))
<1>1. CASE Len(q) < Capacity
  <2> DEFINE more == Append(q, f)
  <2>1. /\ Len(q) \in Nat /\ Len(more) = Len(q) + 1
        /\ \A i \in 1..Len(q) + 1 : more[i] = IF i = Len(q) + 1 THEN f ELSE q[i]
    OBVIOUS
  <2> HIDE DEF more
  <2>2. Frames(more) \subseteq Frames(q) \cup {f}
    <3> SUFFICES ASSUME NEW i \in 1..Len(q) + 1 PROVE more[i] \in Frames(q) \cup {f}
      BY <2>1 DEF Frames
    <3>1. CASE i = Len(q) + 1
      BY <2>1, <3>1
    <3>2. CASE i # Len(q) + 1
      <4>1. i \in 1..Len(q) /\ more[i] = q[i]
        BY <2>1, <3>2
      <4> QED BY <4>1 DEF Frames
    <3> QED BY <3>1, <3>2
  <2>3. ASSUME InOrder(q),
               f.kind = "request" => \A g \in Frames(q) : g.kind = "release" => g.key # f.key
        PROVE  InOrder(more)
    <3> SUFFICES ASSUME NEW i \in 1..Len(q) + 1, NEW j \in 1..Len(q) + 1,
                        i < j, more[i].kind = "release", more[j].kind = "request"
                 PROVE  more[i].key # more[j].key
      BY <2>1 DEF InOrder
    <3>1. i \in 1..Len(q) /\ more[i] = q[i]
      BY <2>1
    <3>2. q[i] \in Frames(q)
      BY <3>1 DEF Frames
    <3>3. CASE j = Len(q) + 1
      BY <2>1, <2>3, <3>1, <3>2, <3>3
    <3>4. CASE j # Len(q) + 1
      <4>1. j \in 1..Len(q) /\ more[j] = q[j]
        BY <2>1, <3>4
      <4> QED BY <2>3, <3>1, <4>1 DEF InOrder
    <3> QED BY <3>3, <3>4
  <2> QED BY <1>1, <2>2, <2>3 DEF Queue, more
<1>2. CASE ~(Len(q) < Capacity)
  BY <1>2 DEF Queue
<1> QED BY <1>1, <1>2

\* The frames of a queue whose first has been taken.
LEMMA TailFrames ==
  ASSUME NEW q \in Seq(ToResponder), q # <<>>
  PROVE  /\ Frames(Tail(q)) \subseteq Frames(q) /\ Head(q) \in Frames(q)
         /\ InOrder(q) =>
              /\ InOrder(Tail(q))
              /\ Head(q).kind = "release" =>
                   \A g \in Frames(Tail(q)) : g.kind = "request" => g.key # Head(q).key
<1> DEFINE rest == Tail(q)
<1>1. /\ Len(q) \in Nat \ {0} /\ Len(rest) = Len(q) - 1 /\ Head(q) = q[1]
      /\ \A i \in 1..Len(rest) : rest[i] = q[i + 1] /\ i + 1 \in 1..Len(q)
  BY HeadTailProperties, EmptySeq
<1> HIDE DEF rest
<1>2. Frames(rest) \subseteq Frames(q)
  BY <1>1 DEF Frames
<1>3. Head(q) \in Frames(q)
  BY <1>1 DEF Frames
<1>4. ASSUME InOrder(q) PROVE InOrder(rest)
  <2> SUFFICES ASSUME NEW i \in 1..Len(rest), NEW j \in 1..Len(rest), i < j,
                      rest[i].kind = "release", rest[j].kind = "request"
               PROVE  rest[i].key # rest[j].key
    BY DEF InOrder
  <2>1. /\ i + 1 \in 1..Len(q) /\ j + 1 \in 1..Len(q) /\ i + 1 < j + 1
        /\ rest[i] = q[i + 1] /\ rest[j] = q[j + 1]
    <3>1. /\ rest[i] = q[i + 1] /\ i + 1 \in 1..Len(q)
          /\ rest[j] = q[j + 1] /\ j + 1 \in 1..Len(q)
      BY <1>1
    <3>2. i + 1 < j + 1
      OBVIOUS
    <3> QED BY <3>1, <3>2
  <2> QED BY <1>4, <2>1 DEF InOrder
<1>5. ASSUME InOrder(q), Head(q).kind = "release", NEW g \in Frames(rest), g.kind = "request"
      PROVE  g.key # Head(q).key
  <2>1. PICK i \in 1..Len(rest) : g = rest[i]
    BY <1>5 DEF Frames
  <2>2. 1 \in 1..Len(q) /\ i + 1 \in 1..Len(q) /\ 1 < i + 1 /\ g = q[i + 1]
    BY <1>1, <2>1
  <2> QED BY <1>1, <1>5, <2>2 DEF InOrder
<1> QED BY <1>2, <1>3, <1>4, <1>5 DEF rest

\* What a queue holds is sound.
LEMMA FramesSound ==
  ASSUME IInv
  PROVE  /\ toResponder \in Seq(ToResponder)
         /\ \A f \in Frames(toResponder) :
              Sound(f) /\ f \in ToResponder /\ f.key \in Keys
BY QueueIsSound DEF SoundQueue, Frames, Sound, ToResponder

\* A transaction is an exactly once one by its id.
LEMMA OnceByTID ==
  ASSUME NEW k \in Keys
  PROVE  Once(k) <=> k \in OnceKeys
BY TIDsAreNumbers DEF Once, OnceKeys

\* The time left shrinks with the retries.
LEMMA TicksLeftBounds ==
  ASSUME NEW p \in PendingRequest, p.retries > 0
  PROVE  /\ TicksLeft(p) \in Nat /\ p.next <= TicksLeft(p)
         /\ TicksLeft(p) <= Retries * Interval
<1>1. /\ p.next \in 1..Interval /\ p.retries \in 1..Retries
  BY DEF PendingRequest
<1> DEFINE n == p.retries - 1
           m == Retries - p.retries
<1>2. n \in Nat /\ m \in Nat /\ Retries = n + m + 1
  BY <1>1
<1> HIDE DEF n, m
<1>3. n * Interval \in Nat /\ m * Interval \in Nat
  BY <1>2
<1>4. (n + m + 1) * Interval = n * Interval + m * Interval + Interval
  BY <1>2
<1>5. TicksLeft(p) = p.next + n * Interval
  BY DEF TicksLeft, n
<1>6. Retries * Interval = n * Interval + m * Interval + Interval
  BY <1>2, <1>4
<1> QED BY <1>1, <1>3, <1>5, <1>6

\* A retry costs an interval.
LEMMA TicksLeftRetried ==
  ASSUME NEW p \in PendingRequest, p.retries > 1, p.next = 1
  PROVE  TicksLeft(Retried(p)) = TicksLeft(p) - 1
<1> DEFINE n == p.retries - 2
<1>1. n \in Nat /\ p.retries = n + 2
  BY DEF PendingRequest
<1>2. Retried(p).next = Interval /\ Retried(p).retries = p.retries - 1
  BY DEF Retried, PendingRequest
<1> HIDE DEF n
<1>3. (n + 1) * Interval = n * Interval + Interval /\ n * Interval \in Nat
  BY <1>1
<1>4. TicksLeft(p) = 1 + (n + 1) * Interval
  BY <1>1 DEF TicksLeft
<1>5. TicksLeft(Retried(p)) = Interval + n * Interval
  BY <1>1, <1>2 DEF TicksLeft
<1> QED BY <1>3, <1>4, <1>5

\* What a call leaves: a transaction that was not called, and has not run.
LEMMA CallLeaves ==
  ASSUME IInv, InTime, NEW r \in Requesters, Call(r)
  PROVE  \E k \in Keys, p \in PendingRequest :
           /\ ~Called(k) /\ Called(k)' /\ (k \in OnceKeys => runs[k] = 0) /\ outcome[k] = <<>>
           /\ k = <<r, nextTID[r] + 1>>
           /\ p.wanted = Places /\ p.got = NoPackets /\ p # None
           /\ pending[k] = None /\ pending'[k] = p
           /\ toResponder' = Queue(toResponder, RequestFrame(k, p))
           /\ RequestFrame(k, p) \in ToResponder
           /\ \A j \in Keys \ {k} : pending'[j] = pending[j] /\ (Called(j)' <=> Called(j))
<1>0. PICK t, k, p :
        /\ t = nextTID[r] + 1 /\ k = <<r, t>>
        /\ p = [xo |-> t \in OnceTIDs, wanted |-> Places, got |-> NoPackets,
                retries |-> Retries, next |-> Interval]
  OBVIOUS
<1>1. /\ nextTID[r] < MaxCalls
      /\ nextTID' = [nextTID EXCEPT ![r] = t]
      /\ pending' = [pending EXCEPT ![k] = p]
      /\ toResponder' = Queue(toResponder, RequestFrame(k, p))
  BY <1>0 DEF Call
<1>2. /\ t \in TIDs /\ k \in Keys /\ nextTID \in [Requesters -> 0..MaxCalls]
      /\ pending \in [Keys -> PendingRequest \cup {None}] /\ k[1] = r /\ k[2] = t
  BY <1>0, <1>1 DEF IInv, TypeOK, TIDs, Keys
<1>3. p \in PendingRequest /\ p # None /\ p.wanted = Places /\ p.got = NoPackets
  <2>1. NoPackets \in [Places -> Packet \cup {None}]
    BY DEF NoPackets
  <2>2. (t \in OnceTIDs) \in BOOLEAN /\ Retries \in 0..Retries /\ Interval \in 1..Interval
    OBVIOUS
  <2>3. p \in PendingRequest
    BY <1>0, <2>1, <2>2 DEF PendingRequest
  <2> QED BY <1>0, <2>3, NoneIsApart
<1>4. ~Called(k) /\ Called(k)'
  <2>1. nextTID[r] \in Nat /\ nextTID'[r] = t
    BY <1>1, <1>2
  <2> QED BY <1>0, <1>2, <2>1 DEF Called
<1>5. k \in OnceKeys => runs[k] = 0
  BY <1>2, <1>4 DEF InTime, KeptInTime, IInv, TypeOK
<1>6. pending[k] = None
  BY <1>2, <1>4 DEF IInv, CalledBefore, Called
<1>7. outcome[k] = <<>>
  <2>1. Len(outcome[k]) = 0
    BY <1>2, <1>4 DEF IInv, DoneOnce, Called
  <2>2. outcome[k] \in Seq(Outcome)
    BY <1>2 DEF IInv, TypeOK, Outcome
  <2> QED BY <2>1, <2>2, EmptySeq
<1>8. RequestFrame(k, p) \in ToResponder
  BY <1>2, <1>3 DEF RequestFrame, ToResponder, PendingRequest
<1>9. ASSUME NEW j \in Keys \ {k}
      PROVE  pending'[j] = pending[j] /\ (Called(j)' <=> Called(j))
  <2>1. j[1] \in Requesters /\ j[2] \in Nat /\ j = <<j[1], j[2]>>
    BY TIDsAreNumbers
  <2>2. CASE j[1] = r
    <3>1. j[2] # nextTID[r] + 1 /\ nextTID'[r] = nextTID[r] + 1 /\ nextTID[r] \in Nat
      BY <1>0, <1>1, <1>2, <2>1, <2>2
    <3> QED BY <1>1, <1>2, <2>1, <2>2, <3>1 DEF Called
  <2>3. CASE j[1] # r
    BY <1>0, <1>1, <1>2, <2>1, <2>3 DEF Called
  <2> QED BY <2>2, <2>3
<1>10. k = <<r, nextTID[r] + 1>> /\ pending'[k] = p
  BY <1>0, <1>1, <1>2
<1> QED
  BY <1>1, <1>2, <1>3, <1>4, <1>5, <1>6, <1>7, <1>8, <1>9, <1>10

LEMMA CallInTime ==
  ASSUME IInv, InTime, NEW r \in Requesters, Call(r)
  PROVE  InTime'
<1>1. PICK k \in Keys, p \in PendingRequest :
        /\ ~Called(k) /\ Called(k)' /\ (k \in OnceKeys => runs[k] = 0)
        /\ p # None /\ pending'[k] = p
        /\ toResponder' = Queue(toResponder, RequestFrame(k, p))
        /\ RequestFrame(k, p) \in ToResponder
        /\ \A j \in Keys \ {k} : pending'[j] = pending[j] /\ (Called(j)' <=> Called(j))
  BY CallLeaves
<1>2. kept' = kept /\ runs' = runs
  BY DEF Call, responder
<1>3. /\ Frames(toResponder') \subseteq Frames(toResponder) \cup {RequestFrame(k, p)}
      /\ InOrder(toResponder')
  <2>1. \A g \in Frames(toResponder) : g.key # RequestFrame(k, p).key
    BY <1>1 DEF InTime, FrameInTime, RequestFrame
  <2> QED BY <1>1, <2>1, FramesSound, QueueFrames DEF InTime
<1>4. ASSUME NEW f \in Frames(toResponder) PROVE FrameInTime(f)'
  <2>1. f.key \in Keys \ {k} /\ FrameInTime(f)
    BY <1>1, FramesSound DEF InTime, FrameInTime
  <2> QED BY <1>1, <1>2, <2>1 DEF FrameInTime
<1>5. FrameInTime(RequestFrame(k, p))'
  BY <1>1, <1>2 DEF FrameInTime, RequestFrame
<1>6. ASSUME NEW j \in OnceKeys PROVE KeptInTime(j)'
  <2>1. KeptInTime(j) /\ j \in Keys
    BY TIDsAreNumbers DEF InTime
  <2>2. CASE j = k
    BY <1>1, <1>2, <2>2 DEF KeptInTime
  <2>3. CASE j # k
    BY <1>1, <1>2, <2>1, <2>3 DEF KeptInTime
  <2> QED BY <2>2, <2>3
<1> QED BY <1>3, <1>4, <1>5, <1>6 DEF InTime

\* A step that leaves the queue, or takes its first, and leaves what is waited
\* for and kept, is no matter.
LEMMA SameInTime ==
  ASSUME IInv, InTime, UNCHANGED <<nextTID, pending, runs>>,
         toResponder' = toResponder \/ (toResponder # <<>> /\ toResponder' = Tail(toResponder)),
         \A k \in OnceKeys : /\ kept'[k] = None <=> kept[k] = None
                             /\ kept[k] # None => kept'[k].left = kept[k].left
  PROVE  InTime'
<1>1. Frames(toResponder') \subseteq Frames(toResponder) /\ InOrder(toResponder')
  <2>1. CASE toResponder' = toResponder
    BY <2>1 DEF InTime
  <2>2. CASE toResponder # <<>> /\ toResponder' = Tail(toResponder)
    BY <2>2, FramesSound, TailFrames DEF InTime
  <2> QED BY <2>1, <2>2
<1>2. ASSUME NEW f \in Frames(toResponder) PROVE FrameInTime(f)'
  BY DEF InTime, FrameInTime, Called
<1>3. ASSUME NEW k \in OnceKeys PROVE KeptInTime(k)'
  BY DEF InTime, KeptInTime, Called
<1> QED BY <1>1, <1>2, <1>3 DEF InTime

LEMMA ReceiveResponseInTime ==
  ASSUME IInv, InTime, NEW f \in toRequester, ReceiveResponse(f)
  PROVE  InTime'
<1> DEFINE k == f.to
<1>1. /\ UNCHANGED <<nextTID, kept, runs>>
      /\ k \in Keys /\ pending \in [Keys -> PendingRequest \cup {None}]
  BY DEF ReceiveResponse, responder, IInv, TypeOK, ToRequester
<1>2. /\ \A j \in Keys :
           /\ pending[j] = None => pending'[j] = None
           /\ pending'[j] # None => /\ pending'[j].retries = pending[j].retries
                                    /\ pending'[j].next = pending[j].next
      /\ \/ toResponder' = toResponder
         \/ toResponder' = Queue(toResponder, ReleaseFrame(k)) /\ pending'[k] = None /\ Called(k)
  <2>1. CASE UNCHANGED <<pending, toResponder>>
    BY <2>1
  <2>2. ASSUME NEW got, NEW wanted, pending[k] # None, toResponder' = toResponder,
               pending' = [pending EXCEPT ![k] =
                             [pending[k] EXCEPT !.got = got, !.wanted = wanted]]
        PROVE  <1>2
    <3> DEFINE q == [pending[k] EXCEPT !.got = got, !.wanted = wanted]
    <3>1. pending[k] \in PendingRequest
      BY <1>1, <2>2
    <3>2. q.retries = pending[k].retries /\ q.next = pending[k].next
      BY <3>1 DEF PendingRequest
    <3>3. pending' = [pending EXCEPT ![k] = q]
      BY <2>2
    <3> HIDE DEF q
    <3> QED BY <1>1, <2>2, <3>2, <3>3
  <2>3. CASE /\ pending[k] # None
             /\ pending' = [pending EXCEPT ![k] = None]
             /\ toResponder' \in {toResponder, Queue(toResponder, ReleaseFrame(k))}
    <3>1. pending'[k] = None /\ \A j \in Keys \ {k} : pending'[j] = pending[j]
      BY <1>1, <2>3
    <3>2. Called(k)
      BY <1>1, <2>3 DEF IInv, CalledBefore, Called
    <3> QED BY <2>3, <3>1, <3>2
  <2> QED BY <2>1, <2>2, <2>3 DEF ReceiveResponse
<1>3. /\ Frames(toResponder') \subseteq Frames(toResponder) \cup {ReleaseFrame(k)}
      /\ InOrder(toResponder')
      /\ toResponder' # toResponder => pending'[k] = None /\ Called(k)
  <2>1. ReleaseFrame(k) \in ToResponder /\ ReleaseFrame(k).kind # "request"
    BY <1>1 DEF ReleaseFrame, ToResponder
  <2> QED BY <1>2, <2>1, FramesSound, QueueFrames DEF InTime
<1>4. ASSUME NEW g \in Frames(toResponder) PROVE FrameInTime(g)'
  BY <1>1, <1>2, FramesSound DEF InTime, FrameInTime, Called
<1>5. pending'[k] = None /\ Called(k) => FrameInTime(ReleaseFrame(k))'
  BY <1>1 DEF FrameInTime, ReleaseFrame, Called
<1>6. \A g \in Frames(toResponder') : FrameInTime(g)'
  BY <1>3, <1>4, <1>5
<1>7. ASSUME NEW j \in OnceKeys PROVE KeptInTime(j)'
  <2>1. KeptInTime(j) /\ j \in Keys
    BY TIDsAreNumbers DEF InTime
  <2> QED BY <1>1, <1>2, <2>1 DEF KeptInTime, Called, TicksLeft
<1> QED BY <1>3, <1>6, <1>7 DEF InTime

LEMMA ReceiveRequestInTime ==
  ASSUME Timely, IInv, InTime, ReceiveRequest
  PROVE  InTime'
<1> DEFINE f == Head(toResponder)
           k == f.key
<1>1. /\ toResponder # <<>> /\ f.kind = "request"
      /\ toResponder' = Tail(toResponder)
      /\ AnswerFromKept(f) \/ RunRequest(f)
      /\ UNCHANGED <<nextTID, pending, outcome>>
  BY DEF ReceiveRequest, requester
<1>2. CASE AnswerFromKept(f)
  BY <1>1, <1>2, SameInTime DEF AnswerFromKept, responder
<1>3. CASE RunRequest(f)
  <2> DEFINE new == [packets |-> <<>>, left |-> ReleaseTime]
  <2>1. /\ kept' = IF f.xo THEN [kept EXCEPT ![k] = new] ELSE kept
        /\ runs' = [runs EXCEPT ![k] = runs[k] + 1]
    BY <1>3 DEF RunRequest
  <2>2. /\ kept \in [Keys -> KeptResponse \cup {None}]
        /\ runs \in [Keys -> Nat] /\ pending \in [Keys -> PendingRequest \cup {None}]
    BY DEF IInv, TypeOK
  <2>3. f \in Frames(toResponder) /\ f.xo = Once(k) /\ k \in Keys /\ FrameInTime(f)
    <3>1. f \in Frames(toResponder)
      BY <1>1, FramesSound, TailFrames
    <3> QED BY <1>1, <3>1, FramesSound DEF Sound, InTime
  <2>4. new # None
    <3>1. new \in KeptResponse
      BY DEF KeptResponse
    <3> QED BY <3>1, NoneIsApart
  <2>5. new.left = ReleaseTime
    OBVIOUS
  <2> HIDE DEF new
  <2>6. k \in OnceKeys => kept'[k] = new
    BY <2>1, <2>2, <2>3, OnceByTID
  <2>7. \A j \in Keys \ {k} : kept'[j] = kept[j] /\ runs'[j] = runs[j]
    BY <2>1, <2>2
  <2>8. Frames(toResponder') \subseteq Frames(toResponder) /\ InOrder(toResponder')
    BY <1>1, FramesSound, TailFrames DEF InTime
  <2>9. ASSUME NEW g \in Frames(toResponder) PROVE FrameInTime(g)'
    <3>1. FrameInTime(g) /\ g.key \in Keys
      BY FramesSound DEF InTime
    <3>2. CASE g.key = k
      BY <1>1, <2>4, <2>6, <3>1, <3>2 DEF FrameInTime, Called
    <3>3. CASE g.key # k
      BY <1>1, <2>7, <3>1, <3>3 DEF FrameInTime, Called
    <3> QED BY <3>2, <3>3
  <2>10. ASSUME NEW j \in OnceKeys PROVE KeptInTime(j)'
    <3>1. KeptInTime(j) /\ j \in Keys
      BY TIDsAreNumbers DEF InTime
    <3>2. CASE j = k
      <4>1. pending[k] # None /\ pending[k].retries > 0 =>
              TicksLeft(pending[k]) <= Retries * Interval
        BY <2>2, <2>3, TicksLeftBounds
      <4>2. pending[k] # None /\ pending[k].retries > 0 =>
              ReleaseTime >= TicksLeft(pending[k])
        <5>1. pending[k] # None /\ pending[k].retries > 0 => TicksLeft(pending[k]) \in Nat
          BY <2>2, <2>3, TicksLeftBounds
        <5>2. Retries * Interval \in Nat
          OBVIOUS
        <5> QED BY <4>1, <5>1, <5>2 DEF Timely
      <4>3. kept'[j] # None /\ kept'[j].left = ReleaseTime
        BY <2>4, <2>5, <2>6, <3>2
      <4>4. Called(j)'
        BY <1>1, <2>3, <3>2 DEF FrameInTime, Called
      <4> QED BY <1>1, <3>2, <4>2, <4>3, <4>4 DEF KeptInTime
    <3>3. CASE j # k
      BY <1>1, <2>7, <3>1, <3>3 DEF KeptInTime, Called
    <3> QED BY <3>2, <3>3
  <2> QED BY <2>8, <2>9, <2>10 DEF InTime
<1> QED BY <1>1, <1>2, <1>3

LEMMA ReceiveReleaseInTime ==
  ASSUME IInv, InTime, ReceiveRelease
  PROVE  InTime'
<1> DEFINE f == Head(toResponder)
           k == f.key
<1>1. /\ toResponder # <<>> /\ toResponder' = Tail(toResponder) /\ f.kind = "release"
      /\ kept' = [j \in Keys |-> IF j \in {k} THEN None ELSE kept[j]]
      /\ UNCHANGED <<nextTID, pending, runs>>
  BY DEF ReceiveRelease, Forget, requester
<1>2. /\ Frames(toResponder') \subseteq Frames(toResponder) /\ f \in Frames(toResponder)
      /\ InOrder(toResponder')
      /\ \A g \in Frames(toResponder') : g.kind = "request" => g.key # k
  BY <1>1, FramesSound, TailFrames DEF InTime
<1> HIDE DEF f
<1>3. pending[k] = None
  BY <1>1, <1>2 DEF InTime, FrameInTime
<1>4. \A j \in Keys \ {k} : kept'[j] = kept[j]
  BY <1>1
<1>5. ASSUME NEW g \in Frames(toResponder') PROVE FrameInTime(g)'
  <2>1. FrameInTime(g) /\ g.key \in Keys
    BY <1>2, FramesSound DEF InTime
  <2> QED BY <1>1, <1>2, <1>4, <2>1 DEF FrameInTime, Called
<1>6. ASSUME NEW j \in OnceKeys PROVE KeptInTime(j)'
  <2>1. KeptInTime(j) /\ j \in Keys
    BY TIDsAreNumbers DEF InTime
  <2> QED BY <1>1, <1>3, <1>4, <2>1 DEF KeptInTime, Called
<1> QED BY <1>2, <1>5, <1>6 DEF InTime

LEMMA RespondInTime ==
  ASSUME IInv, InTime, NEW w \in working, NEW size \in AnswerSizes, Respond(w, size)
  PROVE  InTime'
<1> DEFINE k == w.key
           packets == PacketsOf(k, w.run, size)
           new == [kept[k] EXCEPT !.packets = packets]
<1>1. /\ UNCHANGED <<nextTID, pending, runs, toResponder>>
      /\ kept' = IF w.xo /\ kept[k] # None THEN [kept EXCEPT ![k] = new] ELSE kept
  BY DEF Respond, requester
<1>2. k \in Keys /\ w.run \in Nat /\ kept \in [Keys -> KeptResponse \cup {None}]
  BY DEF IInv, TypeOK, RequestIn
<1>3. ASSUME kept[k] # None PROVE new # None /\ new.left = kept[k].left
  <2>1. packets \in Seq(Packet)
    BY <1>2, PacketsOfType
  <2>2. kept[k] \in KeptResponse
    BY <1>2, <1>3
  <2> HIDE DEF packets
  <2>3. new \in KeptResponse /\ new.left = kept[k].left
    BY <2>1, <2>2 DEF KeptResponse
  <2> QED BY <2>3, NoneIsApart
<1> HIDE DEF new
<1>4. \A j \in Keys : /\ kept'[j] = None <=> kept[j] = None
                      /\ kept[j] # None => kept'[j].left = kept[j].left
  BY <1>1, <1>2, <1>3
<1> QED BY <1>1, <1>4, SameInTime, TIDsAreNumbers

\* What a tick sends: nothing was waiting, so that these are all there is.
LEMMA TickFrames ==
  ASSUME Prompt, IInv, Tick
  PROVE  /\ toResponder = <<>> /\ toRequester = {}
         /\ \A f \in Frames(toResponder') :
              \E k \in Keys : Due(k) /\ ~Spent(k) /\ f = RequestFrame(k, pending[k])
<1> DEFINE D == {k \in Keys : Due(k) /\ ~Spent(k)}
<1>1. toResponder = <<>> /\ toRequester = {}
  BY DEF Tick
<1>2. PICK order \in SetToSeqs(D) :
        toResponder' = QueueAll(toResponder,
          [i \in DOMAIN order |-> RequestFrame(order[i], pending[order[i]])])
  BY DEF Tick
<1> DEFINE fs == [i \in DOMAIN order |-> RequestFrame(order[i], pending[order[i]])]
<1>3. PICK n \in Nat : order \in [1..n -> D]
  <2>1. IsFiniteSet(D)
    <3>1. IsFiniteSet(TIDs)
      BY FS_Interval DEF TIDs
    <3>2. IsFiniteSet(Keys)
      BY <3>1, FS_Product DEF Keys
    <3> QED BY <3>2, FS_Subset
  <2> QED BY <2>1, FS_CardinalityType DEF SetToSeqs
<1>4. fs \in [1..n -> ToResponder] /\ \A i \in 1..n : \E k \in D : fs[i] = RequestFrame(k, pending[k])
  <2>1. \A k \in D : RequestFrame(k, pending[k]) \in ToResponder
    BY RequestFrameSound DEF Due, IInv, TypeOK, Flags, Sound
  <2> QED BY <1>3, <2>1
<1> HIDE DEF fs
<1>5. fs \in Seq(ToResponder) /\ Len(fs) = n
  BY <1>3, <1>4, FunctionIsSeq
<1>6. <<>> \o fs = fs
  BY <1>5
<1>7. toResponder' = IF n <= Capacity THEN fs ELSE SubSeq(fs, 1, Capacity)
  BY <1>1, <1>2, <1>5, <1>6 DEF QueueAll, fs
<1>8. \A f \in Frames(toResponder') : \E i \in 1..n : f = fs[i]
  <2>1. CASE n <= Capacity
    BY <1>5, <1>7, <2>1 DEF Frames
  <2>2. CASE ~(n <= Capacity)
    <3>1. Capacity \in Int /\ 1 <= Capacity /\ \A i \in 1..Capacity : i \in 1..n /\ fs[i] \in ToResponder
      BY <1>4, <2>2
    <3> DEFINE cut == SubSeq(fs, 1, Capacity)
    <3>2. /\ Len(cut) = IF 1 <= Capacity THEN Capacity - 1 + 1 ELSE 0
          /\ \A i \in 1..(Capacity - 1 + 1) : cut[i] = fs[1 + i - 1]
      BY <3>1, SubSeqProperties, 1 \in Int
    <3> HIDE DEF cut
    <3>3. Len(cut) = Capacity /\ \A i \in 1..Capacity : cut[i] = fs[i]
      BY <3>1, <3>2
    <3>4. toResponder' = cut
      BY <1>7, <2>2 DEF cut
    <3> QED BY <3>1, <3>3, <3>4 DEF Frames
  <2> QED BY <2>1, <2>2
<1> QED BY <1>1, <1>4, <1>8

LEMMA TickInTime ==
  ASSUME Timely, IInv, InTime, Tick
  PROVE  InTime'
<1>1. /\ kept' = [k \in Keys |->
           IF kept[k] = None \/ Expired(k) THEN None ELSE Aged(kept[k])]
      /\ pending' = [k \in Keys |->
           IF pending[k] = None \/ Spent(k) THEN None
           ELSE IF Due(k) THEN Retried(pending[k])
           ELSE [pending[k] EXCEPT !.next = @ - 1]]
      /\ UNCHANGED <<nextTID, runs>>
  BY DEF Tick
<1>2. /\ kept \in [Keys -> KeptResponse \cup {None}]
      /\ pending \in [Keys -> PendingRequest \cup {None}]
  BY DEF IInv, TypeOK
<1>3. ASSUME NEW k \in OnceKeys, pending[k] # None, runs[k] > 0, pending[k].retries > 0
      PROVE  /\ kept[k] # None /\ kept'[k] # None
             /\ kept'[k].left = kept[k].left - 1
             /\ kept[k].left >= TicksLeft(pending[k]) /\ kept[k].left \in Nat
  <2>1. k \in Keys /\ kept[k] # None /\ kept[k].left >= TicksLeft(pending[k])
    BY <1>3, TIDsAreNumbers DEF InTime, KeptInTime
  <2>2. kept[k] \in KeptResponse /\ pending[k] \in PendingRequest
    BY <1>2, <1>3, <2>1
  <2>3. kept[k].left \in Nat /\ kept[k].left >= 1
    <3>1. TicksLeft(pending[k]) \in Nat /\ pending[k].next <= TicksLeft(pending[k])
      BY <1>3, <2>2, TicksLeftBounds
    <3>2. pending[k].next \in Nat /\ pending[k].next >= 1 /\ kept[k].left \in Nat
      BY <2>2 DEF PendingRequest, KeptResponse
    <3> QED BY <2>1, <3>1, <3>2
  <2>4. kept'[k] = Aged(kept[k])
    BY <1>1, <2>1, <2>3 DEF Expired
  <2>5. Aged(kept[k]) \in KeptResponse /\ Aged(kept[k]).left = kept[k].left - 1
    BY <2>2, <2>3 DEF Aged, KeptResponse
  <2> QED BY <2>1, <2>3, <2>4, <2>5, NoneIsApart
<1>4. ASSUME NEW f \in Frames(toResponder') PROVE f.kind = "request" /\ FrameInTime(f)'
  <2>1. PICK k \in Keys : Due(k) /\ ~Spent(k) /\ f = RequestFrame(k, pending[k])
    BY TickFrames DEF Timely
  <2>2. f.kind = "request" /\ f.key = k
    BY <2>1 DEF RequestFrame
  <2>3. pending[k] # None /\ pending[k] \in PendingRequest /\ pending[k].retries # 0
    BY <1>2, <2>1 DEF Due, Spent
  <2>4. pending[k].retries > 0
    BY <2>3 DEF PendingRequest
  <2>5. Called(k)'
    BY <1>1, <2>3 DEF IInv, CalledBefore, Called
  <2> QED BY <1>1, <1>3, <2>2, <2>3, <2>4, <2>5 DEF FrameInTime
<1>5. InOrder(toResponder')
  <2>1. \A i \in 1..Len(toResponder') : toResponder'[i].kind = "request"
    BY <1>4 DEF Frames
  <2> QED BY <2>1 DEF InOrder
<1>6. ASSUME NEW k \in OnceKeys PROVE KeptInTime(k)'
  <2>1. k \in Keys /\ KeptInTime(k)
    BY TIDsAreNumbers DEF InTime
  <2>2. runs'[k] > 0 => Called(k)'
    BY <1>1, <2>1 DEF KeptInTime, Called
  <2>3. ASSUME pending'[k] # None, runs'[k] > 0, pending'[k].retries > 0
        PROVE  kept'[k] # None /\ kept'[k].left >= TicksLeft(pending'[k])
    <3>1. pending[k] # None /\ ~Spent(k) /\ runs[k] > 0 /\ pending[k] \in PendingRequest
      BY <1>1, <1>2, <2>1, <2>3
    <3>2. CASE Due(k)
      <4>1. pending'[k] = Retried(pending[k])
        BY <1>1, <2>1, <3>1, <3>2
      <4>2. pending[k].retries > 1 /\ pending[k].next = 1
        BY <2>3, <3>1, <3>2, <4>1 DEF Retried, PendingRequest, Due
      <4>3. TicksLeft(pending'[k]) = TicksLeft(pending[k]) - 1
        BY <3>1, <4>1, <4>2, TicksLeftRetried
      <4>4. pending[k].retries > 0
        BY <3>1, <4>2 DEF PendingRequest
      <4>5. TicksLeft(pending[k]) \in Nat
        BY <3>1, <4>4, TicksLeftBounds
      <4> QED BY <1>3, <3>1, <4>3, <4>4, <4>5
    <3>3. CASE ~Due(k)
      <4> DEFINE q == [pending[k] EXCEPT !.next = @ - 1]
      <4>1. pending'[k] = q
        BY <1>1, <2>1, <3>1, <3>3
      <4>2. q.retries = pending[k].retries /\ q.next = pending[k].next - 1
        BY <3>1 DEF PendingRequest
      <4> HIDE DEF q
      <4>3. pending[k].retries > 0
        BY <2>3, <4>1, <4>2
      <4>4. TicksLeft(pending[k]) \in Nat
        BY <3>1, <4>3, TicksLeftBounds
      <4>5. TicksLeft(q) = TicksLeft(pending[k]) - 1
        <5> DEFINE m == (pending[k].retries - 1) * Interval
        <5>1. m \in Int /\ pending[k].next \in Int
          BY <3>1 DEF PendingRequest
        <5>2. TicksLeft(q) = q.next + m /\ TicksLeft(pending[k]) = pending[k].next + m
          BY <4>2 DEF TicksLeft
        <5> HIDE DEF m
        <5> QED BY <4>2, <5>1, <5>2
      <4> QED BY <1>3, <3>1, <4>1, <4>3, <4>4, <4>5
    <3> QED BY <3>2, <3>3
  <2> QED BY <2>2, <2>3 DEF KeptInTime
<1> QED BY <1>4, <1>5, <1>6 DEF InTime

LEMMA NextInTime ==
  ASSUME Timely, IInv, InTime, [Next]_vars
  PROVE  InTime'
<1>1. ASSUME NEW r \in Requesters, Call(r) PROVE InTime'
  BY <1>1, CallInTime
<1>2. ASSUME NEW f \in toRequester, ReceiveResponse(f) PROVE InTime'
  BY <1>2, ReceiveResponseInTime
<1>3. CASE ReceiveRequest
  BY <1>3, ReceiveRequestInTime
<1>4. CASE ReceiveRelease
  BY <1>4, ReceiveReleaseInTime
<1>5. ASSUME NEW w \in working, NEW size \in AnswerSizes, Respond(w, size) PROVE InTime'
  BY <1>5, RespondInTime
<1>6. CASE Tick
  BY <1>6, TickInTime
<1>7. CASE Lose
  BY <1>7, SameInTime DEF Lose, requester, responder
<1>8. CASE UNCHANGED vars
  BY <1>8, SameInTime DEF vars
<1> QED BY <1>1, <1>2, <1>3, <1>4, <1>5, <1>6, <1>7, <1>8 DEF Next

LEMMA InitInTime == Init => InTime
<1> SUFFICES ASSUME Init PROVE InTime
  OBVIOUS
<1>1. Frames(toResponder) = {}
  BY DEF Init, Frames
<1>2. InOrder(toResponder)
  BY DEF Init, InOrder
<1>3. \A k \in OnceKeys : runs[k] = 0
  BY TIDsAreNumbers DEF Init
<1> QED BY <1>1, <1>2, <1>3 DEF InTime, KeptInTime

\* With frames handled before the next tick and a release time as long as the
\* retries, for any number of each, the response of a request that has run is
\* there for as long as its requester may ask again, however often its frames
\* are lost or the queue is full (request, atp.go:157-166 and tick, 278-283).
THEOREM KeptWhileRetried ==
  ASSUME Timely
  PROVE  Spec => []KeptForTheRetries
<1>1. Init => IInv /\ InTime
  BY InitIInv, InitInTime
<1>2. IInv /\ InTime /\ [Next]_vars => (IInv /\ InTime)'
  BY NextIInv, NextInTime
<1>3. IInv /\ InTime => KeptForTheRetries
  BY DEF InTime, KeptInTime, KeptForTheRetries
<1> QED BY <1>1, <1>2, <1>3, PTL DEF Spec

-----------------------------------------------------------------------------
(* The exactly once calls implement Transaction, when no answer is nil: a  *)
(* nil answer is kept as none.                                             *)

NeverNil == 0 \notin AnswerSizes

\* An exactly once request runs once at most, is worked out once at most, and
\* has one answer at most, which is what is kept of it.
Ran(k) ==
  /\ runs[k] \in {0, 1}
  /\ runs[k] = 0 => answers[k] = <<>>
  /\ \A w \in working :
       w.key = k => w.run = 1 /\ w.xo /\ runs[k] = 1 /\ answers[k] = <<>>
  /\ \A v, w \in working : v.key = k /\ w.key = k => v = w
  /\ answers[k] # <<>> => \E size \in AnswerSizes : answers[k] = <<PacketsOf(k, 1, size)>>
  /\ kept[k] # None => kept[k].packets = IF answers[k] = <<>> THEN <<>> ELSE answers[k][1]

OneRun == \A k \in OnceKeys : Ran(k)

\* A response packet on its way is the one of its place in that answer, and
\* tells the end of it.
FrameOfAnswer(f) ==
  LET a == answers[f.to][1] IN
    /\ answers[f.to] # <<>>
    /\ f.place \in 1..Len(a)
    /\ f.eom <=> f.place = Len(a)
    /\ f.packet = a[f.place]

\* What a requester has and does not want any more is of that answer.
GotOfAnswer(k, p) ==
  LET a == answers[k][1] IN
    /\ answers[k] = <<>> => p.wanted = Places /\ p.got = NoPackets
    /\ answers[k] # <<>> =>
         \A i \in Places : p.got[i] = IF i \in p.wanted \/ i > Len(a) THEN None ELSE a[i]

Carried ==
  /\ \A f \in toRequester : f.to \in OnceKeys => FrameOfAnswer(f)
  /\ \A k \in OnceKeys : pending[k] # None => GotOfAnswer(k, pending[k])

SInv == IInv /\ InTime /\ OneRun /\ Carried

\* The packets of an answer.
LEMMA PacketsOfIs ==
  ASSUME NeverNil, NEW k \in Keys, NEW run \in Nat, NEW size \in AnswerSizes
  PROVE  LET a == PacketsOf(k, run, size) IN
           /\ a \in Seq(Packet) /\ Len(a) = size /\ size \in Places /\ a # <<>>
           /\ DOMAIN a = 1..size /\ \A i \in 1..size : a[i] \in Packet
           /\ <<a>> # <<>> /\ <<a>>[1] = a
<1> DEFINE a == PacketsOf(k, run, size)
<1>1. size \in Places
  BY DEF NeverNil, Places
<1>2. a \in [1..size -> Packet]
  BY <1>1 DEF PacketsOf, Packet, Places
<1> HIDE DEF a
<1>3. a \in Seq(Packet) /\ Len(a) = size
  BY <1>1, <1>2, FunctionIsSeq DEF Places
<1>4. a # <<>>
  BY <1>1, <1>3, EmptySeq DEF Places
<1>5. <<a>> # <<>> /\ <<a>>[1] = a
  OBVIOUS
<1>6. DOMAIN a = 1..size /\ \A i \in 1..size : a[i] \in Packet
  BY <1>2
<1> QED BY <1>1, <1>3, <1>4, <1>5, <1>6 DEF a

\* The one answer of a request.
LEMMA TheAnswer ==
  ASSUME NeverNil, IInv, OneRun, NEW k \in OnceKeys, answers[k] # <<>>
  PROVE  LET a == answers[k][1] IN
           /\ a \in Seq(Packet) /\ Len(a) \in Places /\ a # <<>> /\ DOMAIN a = 1..Len(a)
           /\ \A i \in 1..Len(a) : a[i] \in Packet
           /\ \E size \in AnswerSizes : a = PacketsOf(k, 1, size)
<1>1. PICK size \in AnswerSizes : answers[k] = <<PacketsOf(k, 1, size)>>
  BY DEF OneRun, Ran
<1>2. k \in Keys /\ 1 \in Nat
  BY TIDsAreNumbers
<1>3. answers[k][1] = PacketsOf(k, 1, size)
  BY <1>1
<1>4. LET a == PacketsOf(k, 1, size) IN
        /\ a \in Seq(Packet) /\ Len(a) = size /\ size \in Places /\ a # <<>>
        /\ DOMAIN a = 1..size /\ \A i \in 1..size : a[i] \in Packet
  BY <1>2, PacketsOfIs
<1> QED BY <1>3, <1>4

\* The frames an answer is sent in are of it.
LEMMA FramesOfAnswer ==
  ASSUME NEW k, NEW a, a # <<>>, NEW bitmap, DOMAIN a = 1..Len(a),
         NEW f \in ResponseFrames(k, a, bitmap)
  PROVE  /\ f.to = k /\ f.place \in 1..Len(a) /\ (f.eom <=> f.place = Len(a))
         /\ f.packet = a[f.place]
<1>1. ResponseFrames(k, a, bitmap) =
        {[to |-> k, place |-> i, eom |-> i = Len(a), packet |-> a[i]] : i \in bitmap \cap DOMAIN a}
  BY DEF ResponseFrames
<1>2. PICK i \in 1..Len(a) :
        f = [to |-> k, place |-> i, eom |-> i = Len(a), packet |-> a[i]]
  BY <1>1
<1> QED BY <1>2

LEMMA ReceiveRequestOneRun ==
  ASSUME IInv, InTime, OneRun, ReceiveRequest
  PROVE  OneRun'
<1>1. PICK f, k :
        /\ f = Head(toResponder) /\ k = f.key
        /\ toResponder # <<>> /\ f.kind = "request"
        /\ AnswerFromKept(f) \/ RunRequest(f)
        /\ UNCHANGED <<nextTID, pending, outcome>>
  BY DEF ReceiveRequest, requester
<1>2. CASE AnswerFromKept(f)
  BY <1>2 DEF AnswerFromKept, responder, OneRun, Ran
<1>3. CASE RunRequest(f)
  <2>1. PICK new, w :
          /\ new = [packets |-> <<>>, left |-> ReleaseTime]
          /\ w = [key |-> k, run |-> runs[k] + 1, xo |-> f.xo, bitmap |-> f.bitmap]
          /\ ~(f.xo /\ kept[k] # None)
          /\ kept' = IF f.xo THEN [kept EXCEPT ![k] = new] ELSE kept
          /\ runs' = [runs EXCEPT ![k] = runs[k] + 1]
          /\ working' = working \cup {w}
          /\ UNCHANGED <<forgotten, answers, toRequester>>
    BY <1>1, <1>3 DEF RunRequest, IsRetry
  <2>2. /\ kept \in [Keys -> KeptResponse \cup {None}]
        /\ runs \in [Keys -> Nat]
    BY DEF IInv, TypeOK
  <2>3. f.xo = Once(k) /\ k \in Keys /\ FrameInTime(f)
    <3>1. f \in Frames(toResponder)
      BY <1>1, FramesSound, TailFrames
    <3> QED BY <1>1, <3>1, FramesSound DEF Sound, InTime
  <2> SUFFICES ASSUME NEW j \in OnceKeys PROVE Ran(j)'
    BY DEF OneRun
  <2>4. Ran(j) /\ j \in Keys
    BY TIDsAreNumbers DEF OneRun
  <2>5. CASE j = k
    <3>1. f.xo /\ kept[k] = None /\ runs[k] = 0
      BY <1>1, <2>1, <2>2, <2>3, <2>5, OnceByTID DEF FrameInTime
    <3>2. answers[k] = <<>> /\ \A v \in working : v.key # k
      BY <2>4, <2>5, <3>1 DEF Ran
    <3>3. kept'[k] = new /\ runs'[k] = 1 /\ answers'[k] = <<>> /\ new.packets = <<>>
      BY <2>1, <2>2, <2>3, <3>1, <3>2
    <3>4. w.key = k /\ w.run = 1 /\ w.xo
      BY <2>1, <3>1
    <3>5. \A v \in working' : v.key = k => v = w
      BY <2>1, <3>2
    <3> QED BY <2>5, <3>3, <3>4, <3>5 DEF Ran
  <2>6. CASE j # k
    <3>1. kept'[j] = kept[j] /\ runs'[j] = runs[j] /\ answers'[j] = answers[j]
      BY <2>1, <2>2, <2>4, <2>6
    <3>2. \A v \in working' : v.key = j => v \in working
      BY <2>1, <2>6
    <3> QED BY <2>4, <3>1, <3>2 DEF Ran
  <2> QED BY <2>5, <2>6
<1> QED BY <1>1, <1>2, <1>3

\* What answering leaves.
LEMMA RespondLeaves ==
  ASSUME NeverNil, IInv, OneRun, NEW w \in working, NEW size \in AnswerSizes, Respond(w, size)
  PROVE  LET k == w.key
             a == PacketsOf(k, w.run, size)
         IN  /\ k \in Keys /\ w.run \in Nat /\ working' = working \ {w}
             /\ \A j \in Keys \ {k} : kept'[j] = kept[j] /\ answers'[j] = answers[j]
             /\ toRequester' = toRequester \cup ResponseFrames(k, a, w.bitmap)
             /\ UNCHANGED <<toResponder, runs, forgotten, nextTID, pending, outcome>>
             /\ k \in OnceKeys =>
                  /\ w.run = 1 /\ runs[k] = 1 /\ answers[k] = <<>> /\ answers'[k] = <<a>>
                  /\ kept'[k] # None => kept'[k].packets = a
<1> DEFINE k == w.key
           a == PacketsOf(k, w.run, size)
           new == [kept[k] EXCEPT !.packets = a]
<1>1. /\ working' = working \ {w}
      /\ kept' = IF w.xo /\ kept[k] # None THEN [kept EXCEPT ![k] = new] ELSE kept
      /\ answers' = [answers EXCEPT ![k] = Append(answers[k], a)]
      /\ toRequester' = toRequester \cup ResponseFrames(k, a, w.bitmap)
      /\ UNCHANGED <<toResponder, runs, forgotten, nextTID, pending, outcome>>
  BY DEF Respond, requester
<1>2. /\ k \in Keys /\ w.run \in Nat /\ kept \in [Keys -> KeptResponse \cup {None}]
      /\ answers \in [Keys -> Seq(Seq(Packet))]
  BY DEF IInv, TypeOK, RequestIn
<1>3. kept[k] # None => new.packets = a
  BY <1>2 DEF KeptResponse
<1>4. k \in OnceKeys => /\ w.run = 1 /\ runs[k] = 1 /\ answers[k] = <<>> /\ w.xo
  BY DEF OneRun, Ran
<1> HIDE DEF a, new
<1>5. Append(<<>>, a) = <<a>>
  OBVIOUS
<1>6. \A j \in Keys \ {k} : kept'[j] = kept[j] /\ answers'[j] = answers[j]
  BY <1>1, <1>2
<1>7. k \in OnceKeys => /\ answers'[k] = <<a>>
                        /\ kept'[k] # None => kept'[k].packets = a
  BY <1>1, <1>2, <1>3, <1>4, <1>5
<1> QED BY <1>1, <1>2, <1>4, <1>6, <1>7 DEF a

LEMMA RespondOneRun ==
  ASSUME NeverNil, IInv, OneRun, NEW w \in working, NEW size \in AnswerSizes, Respond(w, size)
  PROVE  OneRun'
<1> DEFINE k == w.key
           a == PacketsOf(k, w.run, size)
<1>1. /\ k \in Keys /\ w.run \in Nat /\ working' = working \ {w}
      /\ \A j \in Keys \ {k} : kept'[j] = kept[j] /\ answers'[j] = answers[j]
      /\ UNCHANGED <<toResponder, runs, forgotten, nextTID, pending, outcome>>
      /\ k \in OnceKeys =>
           /\ w.run = 1 /\ runs[k] = 1 /\ answers[k] = <<>> /\ answers'[k] = <<a>>
           /\ kept'[k] # None => kept'[k].packets = a
  BY RespondLeaves
<1>2. <<a>> # <<>> /\ <<a>>[1] = a
  OBVIOUS
<1>3. k \in OnceKeys => a = PacketsOf(k, 1, size)
  BY <1>1
<1> HIDE DEF a
<1> SUFFICES ASSUME NEW j \in OnceKeys PROVE Ran(j)'
  BY DEF OneRun
<1>4. Ran(j) /\ j \in Keys
  BY TIDsAreNumbers DEF OneRun
<1>5. CASE j = k
  <2>1. \A v \in working' : v.key # j
    BY <1>1, <1>4, <1>5 DEF Ran
  <2>2. runs'[j] = 1 /\ answers'[j] = <<a>> /\ answers'[j] # <<>> /\ answers'[j][1] = a
    BY <1>1, <1>2, <1>5
  <2>3. \E one \in AnswerSizes : answers'[j] = <<PacketsOf(j, 1, one)>>
    BY <1>3, <1>5, <2>2
  <2>4. kept'[j] # None => kept'[j].packets = answers'[j][1]
    BY <1>1, <1>5, <2>2
  <2>5. runs'[j] \in {0, 1} /\ runs'[j] # 0
    BY <2>2
  <2> HIDE DEF k
  <2> QED BY ONLY <2>1, <2>2, <2>3, <2>4, <2>5 DEF Ran
<1>6. CASE j # k
  <2>1. kept'[j] = kept[j] /\ runs'[j] = runs[j] /\ answers'[j] = answers[j]
    BY <1>1, <1>4, <1>6
  <2>2. \A v \in working' : v \in working
    BY <1>1
  <2> HIDE DEF k
  <2> QED BY ONLY <1>4, <2>1, <2>2 DEF Ran
<1> QED BY <1>5, <1>6

\* A step that leaves the runs and the answers, and keeps no more than was kept.
LEMMA SameOneRun ==
  ASSUME OneRun, UNCHANGED <<working, runs, answers>>,
         \A k \in OnceKeys :
           kept'[k] # None => kept[k] # None /\ kept'[k].packets = kept[k].packets
  PROVE  OneRun'
<1> SUFFICES ASSUME NEW k \in OnceKeys PROVE Ran(k)'
  BY DEF OneRun
<1>1. Ran(k)
  BY DEF OneRun
<1>2. working' = working /\ runs' = runs /\ answers' = answers
  OBVIOUS
<1>3. kept'[k] # None => kept[k] # None /\ kept'[k].packets = kept[k].packets
  OBVIOUS
<1> QED BY ONLY <1>1, <1>2, <1>3 DEF Ran

LEMMA TickKept ==
  ASSUME IInv, Tick, NEW k \in Keys, kept'[k] # None
  PROVE  kept[k] # None /\ kept'[k].packets = kept[k].packets
<1>1. kept[k] # None /\ kept'[k] = Aged(kept[k])
  BY DEF Tick
<1>2. kept[k] \in KeptResponse
  BY <1>1 DEF IInv, TypeOK
<1> QED BY <1>1, <1>2 DEF Aged, KeptResponse

LEMMA NextOneRun ==
  ASSUME NeverNil, IInv, InTime, OneRun, [Next]_vars
  PROVE  OneRun'
<1>1. ASSUME NEW r \in Requesters, Call(r) PROVE OneRun'
  BY <1>1, SameOneRun DEF Call, responder
<1>2. ASSUME NEW f \in toRequester, ReceiveResponse(f) PROVE OneRun'
  BY <1>2, SameOneRun DEF ReceiveResponse, responder
<1>3. CASE ReceiveRequest
  BY <1>3, ReceiveRequestOneRun
<1>4. CASE ReceiveRelease
  <2>1. /\ UNCHANGED <<working, runs, answers>>
        /\ \A k \in Keys : kept'[k] \in {None, kept[k]}
    BY <1>4 DEF ReceiveRelease, Forget
  <2> QED BY <2>1, SameOneRun, TIDsAreNumbers
<1>5. ASSUME NEW w \in working, NEW size \in AnswerSizes, Respond(w, size) PROVE OneRun'
  BY <1>5, RespondOneRun
<1>6. CASE Tick
  <2>1. UNCHANGED <<working, runs, answers>>
    BY <1>6 DEF Tick
  <2> QED BY <1>6, <2>1, TickKept, SameOneRun, TIDsAreNumbers
<1>7. CASE Lose
  BY <1>7, SameOneRun DEF Lose, responder
<1>8. CASE UNCHANGED vars
  BY <1>8, SameOneRun DEF vars
<1> QED BY <1>1, <1>2, <1>3, <1>4, <1>5, <1>6, <1>7, <1>8 DEF Next

\* A packet that came is of the answer, and is wanted no more.
LEMMA GotMore ==
  ASSUME NeverNil, IInv, OneRun, NEW k \in OnceKeys, NEW p \in PendingRequest, GotOfAnswer(k, p),
         NEW f \in ToRequester, f.to = k, FrameOfAnswer(f), NEW q,
         q.got = [p.got EXCEPT ![f.place] = f.packet], q.wanted = StillWanted(p, f)
  PROVE  answers[k] # <<>> /\ GotOfAnswer(k, q)
<1> DEFINE a == answers[k][1]
<1>1. /\ answers[k] # <<>> /\ f.place \in 1..Len(a) /\ (f.eom <=> f.place = Len(a))
      /\ f.packet = a[f.place] /\ f.place \in Places
  BY DEF FrameOfAnswer, ToRequester
<1>2. Len(a) \in Nat
  BY <1>1, TheAnswer DEF Places
<1>3. \A i \in Places : p.got[i] = IF i \in p.wanted \/ i > Len(a) THEN None ELSE a[i]
  BY <1>1 DEF GotOfAnswer
<1>4. p.wanted \subseteq Places /\ p.got \in [Places -> Packet \cup {None}]
  BY DEF PendingRequest
<1> HIDE DEF a
<1>5. ASSUME NEW i \in Places
      PROVE  q.got[i] = IF i \in q.wanted \/ i > Len(a) THEN None ELSE a[i]
  <2>1. i \in q.wanted <=> i \in p.wanted /\ i # f.place /\ (f.eom => i < f.place)
    BY DEF StillWanted
  <2>2. q.got[i] = IF i = f.place THEN f.packet ELSE p.got[i]
    BY <1>4
  <2>3. i \in Nat /\ f.place \in Nat
    BY <1>1 DEF Places
  <2>4. CASE i = f.place
    BY <1>1, <1>2, <2>1, <2>2, <2>3, <2>4
  <2>5. CASE i # f.place
    BY <1>1, <1>2, <1>3, <2>1, <2>2, <2>3, <2>5
  <2> QED BY <2>4, <2>5
<1> QED BY <1>1, <1>5 DEF GotOfAnswer, a

LEMMA ReceiveResponseCarried ==
  ASSUME NeverNil, IInv, OneRun, Carried, NEW f \in toRequester, ReceiveResponse(f)
  PROVE  Carried'
<1> DEFINE k == f.to
           p == pending[k]
           got == [p.got EXCEPT ![f.place] = f.packet]
           wanted == StillWanted(p, f)
           q == [p EXCEPT !.got = got, !.wanted = wanted]
<1>1. /\ toRequester' = toRequester \ {f} /\ answers' = answers
      /\ k \in Keys /\ f \in ToRequester /\ pending \in [Keys -> PendingRequest \cup {None}]
  BY DEF ReceiveResponse, responder, IInv, TypeOK, ToRequester
<1>2. \/ pending' = pending
      \/ p # None /\ pending' = [pending EXCEPT ![k] = q]
      \/ pending' = [pending EXCEPT ![k] = None]
  BY DEF ReceiveResponse
<1>3. ASSUME p # None, k \in OnceKeys PROVE GotOfAnswer(k, q)
  <2>1. p \in PendingRequest /\ q.got = got /\ q.wanted = wanted
    BY <1>1, <1>3 DEF PendingRequest
  <2>2. GotOfAnswer(k, p) /\ FrameOfAnswer(f)
    BY <1>3 DEF Carried
  <2> HIDE DEF q
  <2> QED BY <1>1, <1>3, <2>1, <2>2, GotMore
<1> HIDE DEF q
<1>4. \A g \in toRequester' : g.to \in OnceKeys => FrameOfAnswer(g)'
  BY <1>1 DEF Carried, FrameOfAnswer
<1>5. ASSUME NEW j \in OnceKeys, pending'[j] # None PROVE GotOfAnswer(j, pending'[j])
  <2>1. j \in Keys
    BY TIDsAreNumbers
  <2>2. pending'[j] = pending[j] \/ (j = k /\ p # None /\ pending'[j] = q)
    BY <1>1, <1>2, <1>5, <2>1
  <2> QED BY <1>3, <1>5, <2>2 DEF Carried
<1>6. \A j \in OnceKeys : pending'[j] # None => GotOfAnswer(j, pending[j])'
  BY <1>1, <1>5 DEF GotOfAnswer
<1> QED BY <1>4, <1>6 DEF Carried

LEMMA ReceiveRequestCarried ==
  ASSUME NeverNil, IInv, OneRun, Carried, ReceiveRequest
  PROVE  Carried'
<1>1. PICK f, k :
        /\ f = Head(toResponder) /\ k = f.key
        /\ toResponder # <<>> /\ f.kind = "request"
        /\ AnswerFromKept(f) \/ RunRequest(f)
        /\ pending' = pending
  BY DEF ReceiveRequest, requester
<1>2. answers' = answers
  BY <1>1 DEF AnswerFromKept, RunRequest, responder
<1>3. f.xo = Once(k) /\ k \in Keys
  BY <1>1, FramesSound, TailFrames DEF Sound
<1>4. ASSUME NEW g \in toRequester', g.to \in OnceKeys PROVE FrameOfAnswer(g)
  <2>1. CASE g \in toRequester
    BY <1>4, <2>1 DEF Carried
  <2>2. CASE g \notin toRequester
    <3>1. /\ IsRetry(f) /\ kept[k].packets # <<>>
          /\ g \in ResponseFrames(k, kept[k].packets, f.bitmap)
      BY <1>1, <2>2 DEF AnswerFromKept, RunRequest
    <3>2. k \in OnceKeys /\ kept[k] # None
      BY <1>1, <1>3, <3>1, OnceByTID DEF IsRetry
    <3>3. answers[k] # <<>> /\ kept[k].packets = answers[k][1]
      BY <3>1, <3>2 DEF OneRun, Ran
    <3>4. DOMAIN answers[k][1] = 1..Len(answers[k][1]) /\ answers[k][1] # <<>>
      BY <3>2, <3>3, TheAnswer
    <3> QED BY <3>1, <3>3, <3>4, FramesOfAnswer DEF FrameOfAnswer
  <2> QED BY <2>1, <2>2
<1>5. \A g \in toRequester' : g.to \in OnceKeys => FrameOfAnswer(g)'
  BY <1>2, <1>4 DEF FrameOfAnswer
<1>6. \A j \in OnceKeys : pending'[j] # None => GotOfAnswer(j, pending[j])'
  BY <1>1, <1>2 DEF Carried, GotOfAnswer
<1> QED BY <1>5, <1>6 DEF Carried

LEMMA RespondCarried ==
  ASSUME NeverNil, IInv, OneRun, Carried,
         NEW w \in working, NEW size \in AnswerSizes, Respond(w, size)
  PROVE  Carried'
<1> DEFINE k == w.key
           a == PacketsOf(k, w.run, size)
<1>1. /\ k \in Keys /\ w.run \in Nat
      /\ \A j \in Keys \ {k} : answers'[j] = answers[j]
      /\ toRequester' = toRequester \cup ResponseFrames(k, a, w.bitmap)
      /\ pending' = pending
      /\ k \in OnceKeys => answers[k] = <<>> /\ answers'[k] = <<a>>
  BY RespondLeaves
<1>2. a # <<>> /\ DOMAIN a = 1..Len(a) /\ <<a>>[1] = a /\ <<a>> # <<>> /\ Len(a) \in Nat
  <2>1. LET b == PacketsOf(k, w.run, size) IN
          /\ Len(b) = size /\ size \in Places /\ b # <<>>
          /\ DOMAIN b = 1..size /\ <<b>> # <<>> /\ <<b>>[1] = b
    BY <1>1, PacketsOfIs
  <2> QED BY <2>1 DEF Places
<1> HIDE DEF a
<1>3. ASSUME NEW g \in toRequester', g.to \in OnceKeys PROVE FrameOfAnswer(g)'
  <2>1. CASE g \in ResponseFrames(k, a, w.bitmap)
    <3>1. /\ g.to = k /\ g.place \in 1..Len(a) /\ (g.eom <=> g.place = Len(a))
          /\ g.packet = a[g.place]
      BY <1>2, <2>1, FramesOfAnswer
    <3>2. answers'[g.to] = <<a>>
      BY <1>1, <1>3, <3>1
    <3> QED BY <1>2, <3>1, <3>2 DEF FrameOfAnswer
  <2>2. CASE g \in toRequester
    <3>1. FrameOfAnswer(g)
      BY <1>3, <2>2 DEF Carried
    <3>2. g.to \in Keys \ {k}
      BY <1>1, <1>3, <3>1, TIDsAreNumbers DEF FrameOfAnswer
    <3>3. answers'[g.to] = answers[g.to]
      BY <1>1, <3>2
    <3> QED BY <3>1, <3>3 DEF FrameOfAnswer
  <2> QED BY <1>1, <2>1, <2>2
<1>4. ASSUME NEW j \in OnceKeys, pending'[j] # None PROVE GotOfAnswer(j, pending[j])'
  <2>1. GotOfAnswer(j, pending[j]) /\ j \in Keys
    BY <1>1, <1>4, TIDsAreNumbers DEF Carried
  <2>2. CASE j # k
    BY <1>1, <2>1, <2>2 DEF GotOfAnswer
  <2>3. CASE j = k
    <3>1. pending[j].wanted = Places /\ pending[j].got = NoPackets
      BY <1>1, <2>1, <2>3 DEF GotOfAnswer
    <3>2. \A i \in Places : pending[j].got[i] = None
      BY <3>1 DEF NoPackets
    <3> QED BY <1>1, <1>2, <2>3, <3>1, <3>2 DEF GotOfAnswer
  <2> QED BY <2>2, <2>3
<1> QED BY <1>3, <1>4 DEF Carried

\* A step that leaves the answers, sends no packet, and takes none.
LEMMA SameCarried ==
  ASSUME Carried, answers' = answers, toRequester' \subseteq toRequester,
         \A k \in OnceKeys : pending'[k] # None =>
           /\ pending[k] # None
           /\ pending'[k].wanted = pending[k].wanted /\ pending'[k].got = pending[k].got
  PROVE  Carried'
BY DEF Carried, FrameOfAnswer, GotOfAnswer

LEMMA TickPending ==
  ASSUME IInv, Tick, NEW k \in Keys, pending'[k] # None
  PROVE  /\ pending[k] # None
         /\ pending'[k].wanted = pending[k].wanted /\ pending'[k].got = pending[k].got
<1>1. /\ pending[k] # None
      /\ pending'[k] \in {Retried(pending[k]), [pending[k] EXCEPT !.next = @ - 1]}
  BY DEF Tick
<1>2. pending[k] \in PendingRequest
  BY <1>1 DEF IInv, TypeOK
<1> QED BY <1>1, <1>2 DEF Retried, PendingRequest

LEMMA NextCarried ==
  ASSUME NeverNil, IInv, InTime, OneRun, Carried, [Next]_vars
  PROVE  Carried'
<1>1. ASSUME NEW r \in Requesters, Call(r) PROVE Carried'
  <2>1. PICK k \in Keys, p \in PendingRequest :
          /\ (k \in OnceKeys => runs[k] = 0)
          /\ p.wanted = Places /\ p.got = NoPackets /\ pending'[k] = p
          /\ \A j \in Keys \ {k} : pending'[j] = pending[j]
    BY <1>1, CallLeaves
  <2>2. answers' = answers /\ toRequester' = toRequester
    BY <1>1 DEF Call, responder
  <2>3. k \in OnceKeys => answers[k] = <<>>
    BY <2>1 DEF OneRun, Ran
  <2>4. k \in OnceKeys => GotOfAnswer(k, p)
    BY <2>1, <2>3 DEF GotOfAnswer
  <2>5. ASSUME NEW j \in OnceKeys, pending'[j] # None PROVE GotOfAnswer(j, pending'[j])
    <3>1. j \in Keys
      BY TIDsAreNumbers
    <3> QED BY <2>1, <2>4, <2>5, <3>1 DEF Carried
  <2>6. \A j \in OnceKeys : pending'[j] # None => GotOfAnswer(j, pending[j])'
    BY <2>2, <2>5 DEF GotOfAnswer
  <2>7. \A g \in toRequester' : g.to \in OnceKeys => FrameOfAnswer(g)'
    BY <2>2 DEF Carried, FrameOfAnswer
  <2> QED BY <2>6, <2>7 DEF Carried
<1>2. ASSUME NEW f \in toRequester, ReceiveResponse(f) PROVE Carried'
  BY <1>2, ReceiveResponseCarried
<1>3. CASE ReceiveRequest
  BY <1>3, ReceiveRequestCarried
<1>4. CASE ReceiveRelease
  BY <1>4, SameCarried DEF ReceiveRelease, requester
<1>5. ASSUME NEW w \in working, NEW size \in AnswerSizes, Respond(w, size) PROVE Carried'
  BY <1>5, RespondCarried
<1>6. CASE Tick
  <2>1. answers' = answers /\ toRequester' = toRequester
    BY <1>6 DEF Tick
  <2> QED BY <1>6, <2>1, TickPending, SameCarried, TIDsAreNumbers
<1>7. CASE Lose
  BY <1>7, SameCarried DEF Lose, requester, responder
<1>8. CASE UNCHANGED vars
  BY <1>8, SameCarried DEF vars
<1> QED BY <1>1, <1>2, <1>3, <1>4, <1>5, <1>6, <1>7, <1>8 DEF Next

\* The packets that came of a whole answer are the answer.
LEMMA CollectedIs ==
  ASSUME NEW a \in Seq(Packet), Len(a) \in Places, NEW got,
         \A i \in Places : got[i] = IF i > Len(a) THEN None ELSE a[i]
  PROVE  Collected(got) = a
<1> DEFINE n == Len(a)
           came == {i \in Places : got[i] # None}
           Nth(m) == CHOOSE i \in came : Cardinality({j \in came : j <= i}) = m
<1>1. n \in Nat \ {0} /\ n <= MaxResponses
  BY DEF Places
<1>2. \A i \in 1..n : a[i] \in Packet /\ a[i] # None
  BY ElementOfSeq, NoneIsApart
<1>3. came = 1..n
  BY <1>1, <1>2 DEF Places
<1>4. \A m \in 0..n : Cardinality(1..m) = m
  <2> SUFFICES ASSUME NEW m \in 0..n PROVE Cardinality(1..m) = m
    OBVIOUS
  <2> HIDE DEF n
  <2> QED BY <1>1, FS_Interval
<1>5. ASSUME NEW m \in 1..n PROVE Nth(m) = m
  <2>1. ASSUME NEW i \in 1..n PROVE Cardinality({j \in 1..n : j <= i}) = i
    <3> HIDE DEF n
    <3>1. {j \in 1..n : j <= i} = 1..i /\ i \in 0..n
      BY <1>1
    <3> QED BY <1>4, <3>1
  <2> QED BY <1>3, <2>1
<1>6. Cardinality(came) = n
  <2>1. n \in 0..n
    <3> HIDE DEF n
    <3> QED BY <1>1
  <2> QED BY <1>3, <1>4, <2>1
<1>7. Collected(got) = [m \in 1..Cardinality(came) |-> got[Nth(m)]]
  BY DEF Collected
<1> HIDE DEF came, Nth
<1>8. Collected(got) = [m \in 1..n |-> a[m]]
  <2>1. \A m \in 1..n : got[Nth(m)] = a[m]
    BY <1>1, <1>5 DEF Places
  <2> QED BY <1>6, <1>7, <2>1
<1> QED BY <1>8

\* What the requester knows of an exactly once call.
StagesOK ==
  \A k \in OnceKeys :
    /\ ~Called(k) => StageOf(k) = "idle" /\ outcome[k] = <<>>
    /\ Called(k) /\ outcome[k] = <<>> => StageOf(k) = "waiting"
    /\ outcome[k] # <<>> => StageOf(k) = IF FirstOutcome(k).ok THEN "ok" ELSE "failed"
    /\ pending[k] # None <=> Called(k) /\ outcome[k] = <<>>

LEMMA Stages == IInv => StagesOK
<1> SUFFICES ASSUME IInv, NEW k \in OnceKeys
             PROVE  /\ ~Called(k) => StageOf(k) = "idle" /\ outcome[k] = <<>>
                    /\ Called(k) /\ outcome[k] = <<>> => StageOf(k) = "waiting"
                    /\ outcome[k] # <<>> =>
                         StageOf(k) = IF FirstOutcome(k).ok THEN "ok" ELSE "failed"
                    /\ pending[k] # None <=> Called(k) /\ outcome[k] = <<>>
  BY DEF StagesOK
<1>1. k \in Keys /\ k[2] \in Nat /\ k[1] \in Requesters
  BY TIDsAreNumbers
<1>2. nextTID[k[1]] \in Nat /\ outcome[k] \in Seq(Outcome)
  <2>1. nextTID \in [Requesters -> 0..MaxCalls] /\ outcome \in [Keys -> Seq(Outcome)]
    BY DEF IInv, TypeOK, Outcome
  <2> QED BY <1>1, <2>1
<1>3. outcome[k] = <<>> <=> Len(outcome[k]) = 0
  BY <1>2, EmptySeq
<1>4. /\ Len(outcome[k]) = IF Called(k) /\ pending[k] = None THEN 1 ELSE 0
      /\ pending[k] # None => Called(k)
  BY <1>1 DEF IInv, DoneOnce, CalledBefore, Called
<1>5. k[2] > nextTID[k[1]] <=> ~Called(k)
  BY <1>1, <1>2 DEF Called
<1> QED BY <1>3, <1>4, <1>5 DEF StageOf, Called

\* A transaction that a step leaves as it is.
Same(k) ==
  /\ StageOf(k)' = StageOf(k)
  /\ runs'[k] = runs[k]
  /\ ReplyOf(k)' = ReplyOf(k)
  /\ ResultOf(k)' = ResultOf(k)

LEMMA SameStage ==
  ASSUME StagesOK, StagesOK', NEW k \in OnceKeys, Called(k)' <=> Called(k),
         outcome'[k] = outcome[k], runs'[k] = runs[k], answers'[k] = answers[k]
  PROVE  Same(k)
BY DEF StagesOK, Same, FirstOutcome, ResultOf, ReplyOf

LEMMA AllSame ==
  ASSUME \A k \in OnceKeys : Same(k)
  PROVE  UNCHANGED Promise!vars
BY DEF Same, Promise!vars

LEMMA PromiseStart ==
  ASSUME NEW k \in OnceKeys, StageOf(k) = "idle", StageOf(k)' = "waiting",
         runs'[k] = runs[k], ReplyOf(k)' = ReplyOf(k), ResultOf(k)' = ResultOf(k),
         \A j \in OnceKeys \ {k} : Same(j)
  PROVE  Promise!Next
<1>1. Promise!Start(k)
  BY DEF Same, Promise!Start
<1> QED BY <1>1 DEF Promise!Next

LEMMA PromiseExecute ==
  ASSUME NEW k \in OnceKeys, StageOf(k) # "idle", runs[k] = 0, runs'[k] = 1,
         StageOf(k)' = StageOf(k), ReplyOf(k)' = ReplyOf(k), ResultOf(k)' = ResultOf(k),
         \A j \in OnceKeys \ {k} : Same(j)
  PROVE  Promise!Next
<1>1. Promise!Execute(k)
  BY DEF Same, Promise!Execute
<1> QED BY <1>1 DEF Promise!Next

LEMMA PromiseReply ==
  ASSUME NEW k \in OnceKeys, NEW size \in AnswerSizes, runs[k] = 1, runs'[k] = 1,
         ReplyOf(k) = None, ReplyOf(k)' = PacketsOf(k, 1, size),
         StageOf(k)' = StageOf(k), ResultOf(k)' = ResultOf(k),
         \A j \in OnceKeys \ {k} : Same(j)
  PROVE  Promise!Next
<1>1. [j \in OnceKeys |-> ReplyOf(j)]'
        = [[j \in OnceKeys |-> ReplyOf(j)] EXCEPT ![k] = PacketsOf(k, 1, size)]
  BY DEF Same
<1>2. PICK a \in FirstAnswers : a = PacketsOf(k, 1, size)
  BY DEF FirstAnswers
<1>3. [j \in OnceKeys |-> ReplyOf(j)]' = [[j \in OnceKeys |-> ReplyOf(j)] EXCEPT ![k] = a]
  BY <1>1, <1>2
<1>4. Promise!Reply(k)
  BY <1>3 DEF Same, Promise!Reply
<1> QED BY <1>4 DEF Promise!Next

LEMMA PromiseComplete ==
  ASSUME NEW k \in OnceKeys, StageOf(k) = "waiting", StageOf(k)' = "ok",
         ReplyOf(k) # None, ReplyOf(k)' = ReplyOf(k), ResultOf(k)' = ReplyOf(k),
         runs'[k] = runs[k], \A j \in OnceKeys \ {k} : Same(j)
  PROVE  Promise!Next
<1>1. Promise!Complete(k)
  BY DEF Same, Promise!Complete
<1> QED BY <1>1 DEF Promise!Next

LEMMA PromiseGiveUp ==
  ASSUME NEW ks \in SUBSET OnceKeys, ks # {},
         \A k \in ks : StageOf(k) = "waiting" /\ StageOf(k)' = "failed",
         \A k \in OnceKeys \ ks : StageOf(k)' = StageOf(k),
         \A k \in OnceKeys :
           runs'[k] = runs[k] /\ ReplyOf(k)' = ReplyOf(k) /\ ResultOf(k)' = ResultOf(k)
  PROVE  Promise!Next
<1>1. Promise!GiveUp
  BY DEF Promise!GiveUp
<1> QED BY <1>1 DEF Promise!Next

LEMMA CallKeepsPromise ==
  ASSUME SInv, IInv', NEW r \in Requesters, Call(r)
  PROVE  [Promise!Next]_(Promise!vars)
<1>1. StagesOK /\ StagesOK'
  BY Stages, PTL DEF SInv
<1>2. PICK k \in Keys :
        /\ ~Called(k) /\ Called(k)' /\ outcome[k] = <<>>
        /\ \A j \in Keys \ {k} : Called(j)' <=> Called(j)
  BY CallLeaves DEF SInv
<1>3. UNCHANGED <<outcome, runs, answers>>
  BY DEF Call, responder
<1>4. \A j \in OnceKeys \ {k} : Same(j)
  BY <1>1, <1>2, <1>3, SameStage, TIDsAreNumbers
<1>5. CASE k \notin OnceKeys
  BY <1>4, <1>5, AllSame
<1>6. CASE k \in OnceKeys
  <2>1. StageOf(k) = "idle" /\ StageOf(k)' = "waiting"
    BY <1>1, <1>2, <1>3, <1>6 DEF StagesOK
  <2>2. runs'[k] = runs[k] /\ ReplyOf(k)' = ReplyOf(k) /\ ResultOf(k)' = ResultOf(k)
    BY <1>2, <1>3 DEF ReplyOf, ResultOf
  <2> QED BY <1>4, <1>6, <2>1, <2>2, PromiseStart
<1> QED BY <1>5, <1>6

\* The last packet of an answer completes the call with the whole of it.
LEMMA ReceiveResponseKeepsPromise ==
  ASSUME NeverNil, SInv, IInv', NEW f \in toRequester, ReceiveResponse(f)
  PROVE  [Promise!Next]_(Promise!vars)
<1> DEFINE k == f.to
           p == pending[k]
           got == [p.got EXCEPT ![f.place] = f.packet]
           wanted == StillWanted(p, f)
           o == [ok |-> TRUE, got |-> got]
<1>1. StagesOK /\ StagesOK'
  BY Stages, PTL DEF SInv
<1>2. /\ UNCHANGED <<nextTID, runs, answers>>
      /\ k \in Keys /\ f \in ToRequester /\ pending \in [Keys -> PendingRequest \cup {None}]
      /\ outcome \in [Keys -> Seq(Outcome)]
  BY DEF ReceiveResponse, responder, SInv, IInv, TypeOK, ToRequester, Outcome
<1>3. \A j \in OnceKeys : Called(j)' <=> Called(j)
  BY <1>2 DEF Called
<1>4. CASE outcome' = outcome
  BY <1>1, <1>2, <1>3, <1>4, SameStage, AllSame
<1>5. CASE /\ p # None /\ wanted = {}
           /\ outcome' = [outcome EXCEPT ![k] = Append(@, o)]
  <2>1. \A j \in OnceKeys \ {k} : Same(j)
    <3>1. \A j \in OnceKeys \ {k} : outcome'[j] = outcome[j]
      BY <1>2, <1>5, TIDsAreNumbers
    <3> QED BY <1>1, <1>2, <1>3, <3>1, SameStage
  <2>2. CASE k \notin OnceKeys
    BY <2>1, <2>2, AllSame
  <2>3. CASE k \in OnceKeys
    <3> DEFINE q == [p EXCEPT !.got = got, !.wanted = wanted]
    <3>1. p \in PendingRequest /\ q.got = got /\ q.wanted = {}
      BY <1>2, <1>5 DEF PendingRequest
    <3>2. GotOfAnswer(k, p) /\ FrameOfAnswer(f)
      BY <1>5, <2>3 DEF SInv, Carried
    <3>3. answers[k] # <<>> /\ GotOfAnswer(k, q)
      <4>1. q.wanted = wanted
        BY <1>5, <3>1
      <4> HIDE DEF q
      <4> QED BY <1>2, <2>3, <3>1, <3>2, <4>1, GotMore DEF SInv
    <3> HIDE DEF q
    <3>4. \A i \in Places : got[i] = IF i > Len(answers[k][1]) THEN None ELSE answers[k][1][i]
      BY <3>1, <3>3 DEF GotOfAnswer
    <3>5. answers[k][1] \in Seq(Packet) /\ Len(answers[k][1]) \in Places
      BY <2>3, <3>3, TheAnswer DEF SInv
    <3>6. Collected(got) = answers[k][1]
      <4> HIDE DEF got
      <4> QED BY <3>4, <3>5, CollectedIs
    <3>7. outcome[k] = <<>> /\ StageOf(k) = "waiting"
      BY <1>1, <1>5, <2>3 DEF StagesOK
    <3>8. outcome'[k] # <<>> /\ FirstOutcome(k)' = o
      <4> HIDE DEF o
      <4>1. Append(<<>>, o) = <<o>> /\ <<o>> # <<>> /\ <<o>>[1] = o
        OBVIOUS
      <4>2. outcome'[k] = <<o>>
        BY <1>2, <1>5, <3>7, <4>1
      <4> QED BY <4>1, <4>2 DEF FirstOutcome
    <3>9. StageOf(k)' = "ok"
      BY <1>1, <2>3, <3>8 DEF StagesOK
    <3>10. ResultOf(k)' = answers[k][1]
      BY <3>6, <3>8 DEF ResultOf
    <3>11. /\ ReplyOf(k) = answers[k][1] /\ ReplyOf(k)' = answers[k][1]
           /\ answers[k][1] # None
      BY <1>2, <3>3, <3>5, NoneIsApart DEF ReplyOf
    <3> QED BY <1>2, <2>1, <2>3, <3>7, <3>9, <3>10, <3>11, PromiseComplete
  <2> QED BY <2>2, <2>3
<1> QED BY <1>4, <1>5 DEF ReceiveResponse

LEMMA ReceiveRequestKeepsPromise ==
  ASSUME SInv, IInv', OneRun', ReceiveRequest
  PROVE  [Promise!Next]_(Promise!vars)
<1>1. StagesOK /\ StagesOK'
  BY Stages, PTL DEF SInv
<1>2. PICK f, k :
        /\ f = Head(toResponder) /\ k = f.key
        /\ toResponder # <<>> /\ f.kind = "request"
        /\ AnswerFromKept(f) \/ RunRequest(f)
        /\ UNCHANGED <<nextTID, pending, outcome>>
  BY DEF ReceiveRequest, requester
<1>3. answers' = answers
  BY <1>2 DEF AnswerFromKept, RunRequest, responder
<1>4. \A j \in OnceKeys : Called(j)' <=> Called(j)
  BY <1>2 DEF Called
<1>5. CASE runs' = runs
  BY <1>1, <1>2, <1>3, <1>4, <1>5, SameStage, AllSame
<1>6. CASE runs' = [runs EXCEPT ![k] = @ + 1]
  <2>1. runs \in [Keys -> Nat] /\ f \in Frames(toResponder) /\ k \in Keys
    <3>1. f \in Frames(toResponder)
      BY <1>2, FramesSound, TailFrames DEF SInv
    <3> QED BY <1>2, <3>1, FramesSound DEF SInv, IInv, TypeOK
  <2>2. \A j \in OnceKeys \ {k} : Same(j)
    <3>1. \A j \in OnceKeys \ {k} : runs'[j] = runs[j]
      BY <1>6, <2>1, TIDsAreNumbers
    <3> QED BY <1>1, <1>2, <1>3, <1>4, <3>1, SameStage
  <2>3. CASE k \notin OnceKeys
    BY <2>2, <2>3, AllSame
  <2>4. CASE k \in OnceKeys
    <3>1. runs[k] = 0 /\ runs'[k] = 1
      BY <1>6, <2>1, <2>4 DEF OneRun, Ran
    <3>2. Called(k)
      BY <1>2, <2>1 DEF SInv, InTime, FrameInTime
    <3>3. StageOf(k) # "idle"
      BY <1>1, <2>4, <3>2 DEF StagesOK
    <3>4. StageOf(k)' = StageOf(k) /\ ReplyOf(k)' = ReplyOf(k) /\ ResultOf(k)' = ResultOf(k)
      BY <1>2, <1>3 DEF StageOf, ReplyOf, ResultOf, FirstOutcome
    <3> QED BY <2>2, <2>4, <3>1, <3>3, <3>4, PromiseExecute
  <2> QED BY <2>3, <2>4
<1> QED BY <1>2, <1>5, <1>6 DEF AnswerFromKept, RunRequest, responder

LEMMA RespondKeepsPromise ==
  ASSUME NeverNil, SInv, IInv', NEW w \in working, NEW size \in AnswerSizes, Respond(w, size)
  PROVE  [Promise!Next]_(Promise!vars)
<1> DEFINE k == w.key
           a == PacketsOf(k, w.run, size)
<1>1. StagesOK /\ StagesOK'
  BY Stages, PTL DEF SInv
<1>2. /\ k \in Keys /\ \A j \in Keys \ {k} : answers'[j] = answers[j]
      /\ UNCHANGED <<runs, nextTID, pending, outcome>>
      /\ k \in OnceKeys =>
           /\ w.run = 1 /\ runs[k] = 1 /\ answers[k] = <<>> /\ answers'[k] = <<a>>
  BY RespondLeaves DEF SInv
<1>3. \A j \in OnceKeys : Called(j)' <=> Called(j)
  BY <1>2 DEF Called
<1>4. \A j \in OnceKeys \ {k} : Same(j)
  BY <1>1, <1>2, <1>3, SameStage, TIDsAreNumbers
<1>5. CASE k \notin OnceKeys
  BY <1>4, <1>5, AllSame
<1>6. CASE k \in OnceKeys
  <2>1. a = PacketsOf(k, 1, size) /\ <<a>> # <<>> /\ <<a>>[1] = a
    BY <1>2, <1>6
  <2> HIDE DEF a
  <2>2. ReplyOf(k) = None /\ ReplyOf(k)' = PacketsOf(k, 1, size)
    BY <1>2, <1>6, <2>1 DEF ReplyOf
  <2>3. StageOf(k)' = StageOf(k) /\ ResultOf(k)' = ResultOf(k)
    BY <1>2 DEF StageOf, ResultOf, FirstOutcome
  <2> QED BY <1>2, <1>4, <1>6, <2>2, <2>3, PromiseReply
<1> QED BY <1>5, <1>6

\* A tick gives up the calls that are spent, all at once.
LEMMA TickKeepsPromise ==
  ASSUME SInv, IInv', Tick
  PROVE  [Promise!Next]_(Promise!vars)
<1>1. StagesOK /\ StagesOK'
  BY Stages, PTL DEF SInv
<1>2. /\ UNCHANGED <<nextTID, runs, answers>>
      /\ outcome' = [k \in Keys |-> OutcomeAfterTick(k)]
  BY DEF Tick
<1>3. PICK ks : ks = {k \in OnceKeys : Spent(k)}
  OBVIOUS
<1>4. \A j \in OnceKeys : Called(j)' <=> Called(j)
  BY <1>2 DEF Called
<1>5. \A k \in OnceKeys \ ks : Same(k)
  <2>1. \A k \in OnceKeys \ ks : outcome'[k] = outcome[k]
    BY <1>2, <1>3, TIDsAreNumbers DEF OutcomeAfterTick
  <2> QED BY <1>1, <1>2, <1>4, <2>1, SameStage
<1>6. ASSUME NEW k \in ks
      PROVE  /\ StageOf(k) = "waiting" /\ StageOf(k)' = "failed"
             /\ runs'[k] = runs[k] /\ ReplyOf(k)' = ReplyOf(k) /\ ResultOf(k)' = ResultOf(k)
  <2>1. k \in OnceKeys /\ k \in Keys /\ Spent(k) /\ pending[k] # None
    BY <1>3, TIDsAreNumbers DEF Spent, Due
  <2>2. outcome[k] = <<>> /\ StageOf(k) = "waiting"
    BY <1>1, <2>1 DEF StagesOK
  <2>3. PICK o : o = [ok |-> FALSE, got |-> NoPackets]
    OBVIOUS
  <2>4. Append(<<>>, o) = <<o>> /\ <<o>> # <<>> /\ <<o>>[1] = o
    OBVIOUS
  <2>5. outcome'[k] = <<o>>
    BY <1>2, <2>1, <2>2, <2>3, <2>4 DEF OutcomeAfterTick
  <2>6. outcome'[k] # <<>> /\ FirstOutcome(k)' = o /\ ~o.ok
    BY <2>3, <2>4, <2>5 DEF FirstOutcome
  <2>7. StageOf(k)' = "failed"
    BY <1>1, <2>1, <2>6 DEF StagesOK
  <2>8. ResultOf(k) = None /\ ResultOf(k)' = None
    BY <2>2, <2>6 DEF ResultOf
  <2> QED BY <1>2, <2>2, <2>7, <2>8 DEF ReplyOf
<1>7. CASE ks = {}
  BY <1>5, <1>7, AllSame
<1>8. CASE ks # {}
  BY <1>3, <1>5, <1>6, <1>8, PromiseGiveUp DEF Same
<1> QED BY <1>7, <1>8

LEMMA NextKeepsPromise ==
  ASSUME NeverNil, SInv, IInv', OneRun', [Next]_vars
  PROVE  [Promise!Next]_(Promise!vars)
<1>1. ASSUME NEW r \in Requesters, Call(r) PROVE [Promise!Next]_(Promise!vars)
  BY <1>1, CallKeepsPromise
<1>2. ASSUME NEW f \in toRequester, ReceiveResponse(f) PROVE [Promise!Next]_(Promise!vars)
  BY <1>2, ReceiveResponseKeepsPromise
<1>3. CASE ReceiveRequest
  BY <1>3, ReceiveRequestKeepsPromise
<1>4. ASSUME NEW w \in working, NEW size \in AnswerSizes, Respond(w, size)
      PROVE  [Promise!Next]_(Promise!vars)
  BY <1>4, RespondKeepsPromise
<1>5. CASE Tick
  BY <1>5, TickKeepsPromise
<1>6. CASE UNCHANGED <<nextTID, outcome, runs, answers>>
  <2>1. \A k \in OnceKeys : Same(k)
    BY <1>6 DEF Same, StageOf, ReplyOf, ResultOf, FirstOutcome
  <2> QED BY <2>1, AllSame
<1>7. ReceiveRelease \/ Lose \/ UNCHANGED vars => UNCHANGED <<nextTID, outcome, runs, answers>>
  BY DEF ReceiveRelease, Lose, requester, responder, vars
<1> QED BY <1>1, <1>2, <1>3, <1>4, <1>5, <1>6, <1>7 DEF Next

LEMMA InitKeepsPromise == Init => Promise!Init /\ OneRun /\ Carried
<1> SUFFICES ASSUME Init PROVE Promise!Init /\ OneRun /\ Carried
  OBVIOUS
<1>1. StagesOK
  BY InitIInv, Stages
<1>2. ASSUME NEW k \in OnceKeys
      PROVE  /\ runs[k] = 0 /\ answers[k] = <<>> /\ outcome[k] = <<>> /\ kept[k] = None
             /\ pending[k] = None /\ ~Called(k)
  <2>1. k \in Keys /\ k[1] \in Requesters /\ k[2] \in TIDs
    BY TIDsAreNumbers
  <2>2. ~Called(k)
    <3>1. nextTID[k[1]] = 0 /\ k[2] \in Nat /\ k[2] >= 1
      BY <2>1 DEF Init, TIDs
    <3> QED BY <3>1 DEF Called
  <2> QED BY <2>1, <2>2 DEF Init
<1>3. Promise!Init
  <2>1. \A k \in OnceKeys :
          /\ StageOf(k) = "idle" /\ runs[k] = 0 /\ ReplyOf(k) = None /\ ResultOf(k) = None
    BY <1>1, <1>2 DEF StagesOK, ReplyOf, ResultOf
  <2> QED BY <2>1 DEF Promise!Init
<1>4. working = {} /\ toRequester = {}
  BY DEF Init
<1>5. OneRun
  BY <1>2, <1>4 DEF OneRun, Ran
<1>6. Carried
  BY <1>2, <1>4 DEF Carried
<1> QED BY <1>3, <1>5, <1>6

\* With frames handled before the next tick, a release time as long as the
\* retries, and no answer nil, a call made exactly once runs at most once, and
\* one that succeeds is given the whole of the answer its run gave, whatever
\* is lost, late or repeated (atp.go:9-13 and 234-261).
THEOREM OnceCallsImplementTransaction ==
  ASSUME Timely, NeverNil
  PROVE  Spec => ImplementsTransaction
<1>1. Init => SInv /\ Promise!Init
  BY InitIInv, InitInTime, InitKeepsPromise DEF SInv
<1>2. SInv /\ [Next]_vars => SInv'
  BY NextIInv, NextInTime, NextOneRun, NextCarried DEF SInv
<1>3. SInv /\ SInv' /\ [Next]_vars => [Promise!Next]_(Promise!vars)
  BY NextKeepsPromise DEF SInv
<1> QED BY <1>1, <1>2, <1>3, PTL DEF Spec, ImplementsTransaction, Promise!Spec

=============================================================================
