----------------------------- MODULE ASP_proofs -----------------------------
(***************************************************************************)
(* The sessions of module ASP, for any number of workstations, ids,        *)
(* sessions, requests and retries, over a network that loses what it likes:*)
(* AFP has the sessions the listener has, a write runs in the session it   *)
(* was made in, and one that waits for its data is not run again for as    *)
(* long as it is kept.                                                     *)
(*                                                                         *)
(* Three parts make the invariant inductive.  Lines says what of a         *)
(* workstation is on its way, and that it asks no more for what it         *)
(* released.  Held says of a write that waits that it is kept, or has      *)
(* waited longer than it is kept, or that nobody asks for it any more.     *)
(* Births says how far the ids are from coming round to that of a write:   *)
(* the sessions opened since, with the free ids still to be given before   *)
(* it, are as many as the ids that can not be open.                        *)
(***************************************************************************)
EXTENDS ASP, FiniteSetTheorems, SequenceTheorems, WellFoundedInduction, TLAPS

Requests == Calls \cup {"open"}

\* What a node is through with: a request it made and waits no more for.
Past(n, t) == t <= lastTID[n] /\ (ws[n].asked # None => ws[n].asked.tid # t)

\* Nothing on the way from a node asks for it again.
Clear(n, t) ==
  \A i \in 1..Len(toServer[n]) : toServer[n][i].kind \in Requests => toServer[n][i].tid # t

\* What is on the way from a node was asked, in the session it was in, and
\* what it released it asks no more, behind the release or ever.
Line(n) ==
  /\ ws[n].asked # None =>
       ws[n].asked.tid <= lastTID[n] /\ (ws[n].asked.kind # "open" => ws[n].id # 0)
  /\ \A i \in 1..Len(toServer[n]) : LET f == toServer[n][i] IN
       /\ f.kind \in Requests => f.tid \in 1..lastTID[n]
       /\ f.kind \in Calls \cup {"tickle"} => f.id # 0
       /\ f.kind = "release" =>
            /\ Past(n, f.tid)
            /\ \A j \in 1..Len(toServer[n]) :
                 j > i /\ toServer[n][j].kind \in Requests => toServer[n][j].tid # f.tid

Lines == \A n \in Nodes : Line(n)

\* A write that waits for its data is kept, for as long as a response is, or
\* nobody asks for it again.
Held(c) ==
  \/ Past(c.key[1], c.key[2]) /\ Clear(c.key[1], c.key[2])
  \/ WriteRetries - c.retries > KeptTime
  \/ kept[c.key] # None /\ kept[c.key].left + (WriteRetries - c.retries) >= KeptTime

\* The ids come upon from one to another, going up and round.
Between(from, id, to) ==
  IF from < to THEN from < id /\ id < to ELSE from < id \/ id < to

\* The ids that will be given before one is given again.
FreeAhead(id) == {j \in Ids : Between(nextID, j, id) /\ sessions[j] = None}

Spare == MaxID - MaxSessions

\* The sessions opened since one was, or still to open before its id comes
\* round, are more than can be open at a time.
Room(id, b) == born - b > Spare \/ Cardinality(FreeAhead(id)) + (born - b) >= Spare

Births ==
  /\ \A id \in Ids : sessions[id] # None => sessions[id].born <= born /\ Room(id, sessions[id].born)
  /\ \A c \in continues :
       /\ Room(c.id, c.born)
       /\ sessions[c.id] # None =>
            sessions[c.id].born = c.born \/ sessions[c.id].born - c.born > Spare

IInv ==
  /\ TypeOK /\ Lines /\ (\A c \in continues : Held(c)) /\ WorkedOutOnce
  /\ AfpHasTheSessions /\ Births /\ WritesStayInTheirSession

USE ASPAssumption, NoneIsApart

-----------------------------------------------------------------------------
(* The helpers.                                                            *)

\* A set of numbers that is not empty has a least.
LEMMA LeastOf ==
  ASSUME NEW S, S \subseteq Nat, S # {}
  PROVE  \E i \in S : \A j \in S : i <= j
<1> DEFINE R == {pair \in Nat \X Nat : pair[1] < pair[2]}
<1>1. IsWellFoundedOn(R, Nat)
  BY NatLessThanWellFounded DEF OpToRel
<1>2. PICK i \in S : \A j \in S : <<j, i>> \notin R
  <2> HIDE DEF R
  <2> QED BY <1>1, WFMin
<1>3. \A j \in S : ~(j < i)
  BY <1>2
<1> QED BY <1>3

\* The remainders there are here.
LEMMA SmallRemainder ==
  ASSUME NEW M \in Nat \ {0}, NEW a \in 0..M-1
  PROVE  a % M = a /\ (a + M) % M = a
OBVIOUS

-----------------------------------------------------------------------------
(* The ids the sessions are given.                                         *)

LEMMA OpenIdsAreFinite ==
  /\ IsFiniteSet(Ids) /\ Cardinality(Ids) = MaxID
  /\ IsFiniteSet(OpenIds) /\ Cardinality(OpenIds) \in Nat
<1>1. IsFiniteSet(Ids) /\ Cardinality(Ids) = MaxID
  <2>1. IsFiniteSet(1..MaxID) /\ Cardinality(1..MaxID) = IF 1 > MaxID THEN 0 ELSE MaxID - 1 + 1
    <3>1. 1 \in Int /\ MaxID \in Int
      OBVIOUS
    <3> QED BY ONLY <3>1, FS_Interval
  <2> QED BY <2>1 DEF Ids
<1> QED
  BY <1>1, FS_Subset, FS_CardinalityType DEF OpenIds

\* FreshId is the first that is not taken, all those before it being taken.
LEMMA FreshIdIs ==
  ASSUME nextID \in 0..MaxID, ~Full
  PROVE  /\ FreshId \in Ids \ OpenIds
         /\ \A j \in Ids : Between(nextID, j, FreshId) => j \in OpenIds
<1> DEFINE Ahead(i) == ((nextID + i - 1) % MaxID) + 1
           First(i) == Ahead(i) \notin OpenIds /\ \A j \in Ids : j < i => Ahead(j) \in OpenIds
<1>1. ASSUME NEW i \in Ids
      PROVE  Ahead(i) = IF nextID + i <= MaxID THEN nextID + i ELSE nextID + i - MaxID
  <2>1. CASE nextID + i <= MaxID
    <3>1. nextID + i - 1 \in 0..MaxID-1
      BY <2>1 DEF Ids
    <3>2. (nextID + i - 1) % MaxID = nextID + i - 1
      BY <3>1, SmallRemainder
    <3> QED BY <2>1, <3>2 DEF Ids
  <2>2. CASE nextID + i > MaxID
    <3>1. nextID + i - 1 - MaxID \in 0..MaxID-1
      BY <2>2 DEF Ids
    <3>2. ((nextID + i - 1 - MaxID) + MaxID) % MaxID = nextID + i - 1 - MaxID
      BY <3>1, SmallRemainder
    <3>3. (nextID + i - 1 - MaxID) + MaxID = nextID + i - 1
      BY DEF Ids
    <3> QED BY <2>2, <3>2, <3>3 DEF Ids
  <2> QED BY <2>1, <2>2 DEF Ids
<1>2. PICK id \in Ids : id \notin OpenIds
  <2>1. Cardinality(OpenIds) # Cardinality(Ids)
    BY OpenIdsAreFinite DEF Full
  <2>2. OpenIds \subseteq Ids
    BY DEF OpenIds
  <2> QED BY <2>1, <2>2
<1>3. \E i \in Ids : Ahead(i) \notin OpenIds
  <2> DEFINE at == IF id > nextID THEN id - nextID ELSE id - nextID + MaxID
  <2>1. at \in Ids
    BY DEF Ids
  <2>2. Ahead(at) = id
    BY <1>1, <2>1 DEF Ids
  <2> HIDE DEF at, Ahead
  <2> QED BY <1>2, <2>1, <2>2
<1>4. \E i \in Ids : First(i)
  <2> DEFINE free == {i \in Ids : Ahead(i) \notin OpenIds}
  <2>1. free \subseteq Nat /\ free # {}
    <3> HIDE DEF Ahead
    <3> QED BY <1>3 DEF Ids
  <2>2. PICK i \in free : \A j \in free : i <= j
    <3> HIDE DEF free
    <3> QED BY <2>1, LeastOf
  <2> HIDE DEF Ahead
  <2> QED BY <2>2 DEF Ids
<1>5. PICK i \in Ids : First(i) /\ FreshId = Ahead(i)
  <2>1. FreshId = Ahead(CHOOSE i \in Ids : First(i))
    BY DEF FreshId
  <2> HIDE DEF Ahead, First
  <2> QED BY <1>4, <2>1
<1>6. FreshId \in Ids
  BY <1>1, <1>5 DEF Ids
<1>7. ASSUME NEW j \in Ids, Between(nextID, j, FreshId)
      PROVE  j \in OpenIds
  <2> DEFINE at == IF j > nextID THEN j - nextID ELSE j - nextID + MaxID
  <2>1. at \in Ids
    BY DEF Ids
  <2>2. Ahead(at) = j
    BY <1>1, <2>1, SMTT(30) DEF Ids
  <2>3. FreshId = IF nextID + i <= MaxID THEN nextID + i ELSE nextID + i - MaxID
    BY <1>1, <1>5
  <2>4. at < i
    BY <1>6, <1>7, <2>3 DEF Ids, Between
  <2> HIDE DEF at, Ahead
  <2> QED BY <1>5, <2>1, <2>2, <2>4
<1> QED
  BY <1>5, <1>6, <1>7

-----------------------------------------------------------------------------
(* Types.                                                                  *)

LEMMA FrameType ==
  ASSUME NEW kind \in Requests \cup {"tickle", "release", "data", "answer", "refusal", "continue"},
         NEW t \in 0..MaxTID, NEW id \in 0..MaxID, NEW run \in Nat
  PROVE  /\ Frame(kind, t, id, run) \in Frames
         /\ Frame(kind, t, id, run).kind = kind /\ Frame(kind, t, id, run).tid = t
         /\ Frame(kind, t, id, run).id = id /\ Frame(kind, t, id, run).run = run
BY DEF Frame, Frames, Requests

LEMMA TickleFrame ==
  ASSUME NEW id \in 0..MaxID
  PROVE  \E f \in Frames : f = Frame("tickle", 0, id, 0) /\ f.kind = "tickle" /\ f.tid = 0 /\ f.id = id
<1>1. 0 \in 0..MaxTID /\ 0 \in Nat
  OBVIOUS
<1> QED BY <1>1, FrameType

LEMMA ReleaseFrame ==
  ASSUME NEW t \in 0..MaxTID
  PROVE  \E f \in Frames : f = Frame("release", t, 0, 0) /\ f.kind = "release" /\ f.tid = t
<1>1. Frame("release", t, 0, 0) \in Frames
  BY DEF Frame, Frames
<1> QED BY <1>1 DEF Frame

LEMMA DataFrame ==
  ASSUME NEW t \in 0..MaxTID, NEW id \in 0..MaxID, NEW run \in Nat
  PROVE  \E f \in Frames : f = Frame("data", t, id, run) /\ f.kind = "data"
<1>1. Frame("data", t, id, run) \in Frames
  BY DEF Frame, Frames
<1> QED BY <1>1 DEF Frame

LEMMA PostType ==
  ASSUME TypeOK, NEW n \in Nodes, NEW frames \in SUBSET Frames, Post(n, frames)
  PROVE  toWorkstation' \in [Nodes -> SUBSET Frames]
<1>1. Posted(n, frames) \in SUBSET Frames
  BY DEF Posted, TypeOK
<1> QED
  BY <1>1 DEF Post, TypeOK

LEMMA KeptType ==
  ASSUME NEW base \in [Keys -> Response \cup {None}], NEW k \in Keys, NEW frame \in Frames \cup {None}
  PROVE  Kept(base, k, frame) \in [Keys -> Response \cup {None}]
<1>1. CASE base[k] = None
  BY <1>1 DEF Kept
<1>2. CASE base[k] # None
  <2>1. [base[k] EXCEPT !.answer = frame] \in Response
    BY <1>2 DEF Response
  <2>2. Kept(base, k, frame) = [base EXCEPT ![k] = [base[k] EXCEPT !.answer = frame]]
    BY <1>2 DEF Kept
  <2> QED BY <2>1, <2>2
<1> QED BY <1>1, <1>2

LEMMA KeepNewType ==
  ASSUME TypeOK, NEW k \in Keys
  PROVE  /\ KeepNew(k) \in [Keys -> Response \cup {None}]
         /\ KeepNew(k)[k] # None /\ KeepNew(k)[k].left = KeptTime
         /\ \A j \in Keys \ {k} : KeepNew(k)[j] = kept[j]
<1>1. [answer |-> None, left |-> KeptTime] \in Response
  BY DEF Response
<1> QED
  BY <1>1 DEF KeepNew, TypeOK

LEMMA AnswerType ==
  ASSUME TypeOK, NEW base \in [Keys -> Response \cup {None}], NEW k \in Keys,
         NEW frame \in Frames, NEW isNil \in BOOLEAN, Answer(base, k, frame, isNil)
  PROVE  /\ kept' \in [Keys -> Response \cup {None}]
         /\ toWorkstation' \in [Nodes -> SUBSET Frames]
<1>1. k[1] \in Nodes
  BY DEF Keys
<1>2. toWorkstation' \in [Nodes -> SUBSET Frames]
  BY <1>1, PostType DEF Answer
<1>3. kept' \in [Keys -> Response \cup {None}]
  BY KeptType DEF Answer
<1> QED
  BY <1>2, <1>3

\* What a node sends and what is taken from it.
LEMMA SendType ==
  ASSUME TypeOK, NEW n \in Nodes, NEW f \in Frames, Send(n, f)
  PROVE  /\ toServer' \in [Nodes -> Seq(Frames)]
         /\ toServer'[n] = Append(toServer[n], f)
         /\ \A m \in Nodes \ {n} : toServer'[m] = toServer[m]
<1>1. toServer[n] \in Seq(Frames)
  BY DEF TypeOK
<1>2. Append(toServer[n], f) \in Seq(Frames)
  BY <1>1, AppendProperties
<1> QED
  BY <1>2 DEF Send, TypeOK

LEMMA TakeType ==
  ASSUME TypeOK, NEW n \in Nodes, toServer[n] # <<>>, Take(n)
  PROVE  /\ toServer' \in [Nodes -> Seq(Frames)]
         /\ toServer'[n] = Tail(toServer[n])
         /\ \A m \in Nodes \ {n} : toServer'[m] = toServer[m]
         /\ Head(toServer[n]) \in Frames /\ Head(toServer[n]) = toServer[n][1]
         /\ 1 \in 1..Len(toServer[n])
<1>1. toServer[n] \in Seq(Frames)
  BY DEF TypeOK
<1>2. Tail(toServer[n]) \in Seq(Frames) /\ Head(toServer[n]) \in Frames
  BY <1>1, HeadTailProperties
<1>3. Len(toServer[n]) \in Nat \ {0} /\ Head(toServer[n]) = toServer[n][1]
  BY <1>1, LenProperties, HeadTailProperties, EmptySeq
<1> QED
  BY <1>2, <1>3 DEF Take, TypeOK

-----------------------------------------------------------------------------
(* What is on the way from a node.                                         *)

LEMMA QueueLen ==
  ASSUME TypeOK, NEW n \in Nodes
  PROVE  /\ toServer[n] \in Seq(Frames) /\ Len(toServer[n]) \in Nat
         /\ \A i \in 1..Len(toServer[n]) : toServer[n][i] \in Frames
         /\ lastTID[n] \in 0..MaxTID
<1>1. toServer[n] \in Seq(Frames) /\ lastTID[n] \in 0..MaxTID
  BY DEF TypeOK
<1> QED
  BY <1>1, LenProperties, ElementOfSeq

LEMMA LineStays ==
  ASSUME NEW n \in Nodes, Line(n), toServer'[n] = toServer[n], ws'[n] = ws[n],
         lastTID'[n] = lastTID[n]
  PROVE  /\ Line(n)'
         /\ \A t \in 0..MaxTID : Past(n, t) /\ Clear(n, t) => Past(n, t)' /\ Clear(n, t)'
BY DEF Line, Past, Clear

LEMMA LineTaken ==
  ASSUME TypeOK, NEW n \in Nodes, Line(n), toServer[n] # <<>>,
         toServer'[n] = Tail(toServer[n]), ws'[n] = ws[n], lastTID'[n] = lastTID[n]
  PROVE  /\ Line(n)'
         /\ \A t \in 0..MaxTID : Past(n, t) /\ Clear(n, t) => Past(n, t)' /\ Clear(n, t)'
         /\ \A t \in 0..MaxTID : toServer[n][1].kind = "release" /\ toServer[n][1].tid = t
              => Past(n, t)' /\ Clear(n, t)'
<1> PICK q \in Seq(Frames) : q = toServer[n]
  BY QueueLen
<1>1. Len(q) \in Nat \ {0} /\ Tail(q) \in Seq(Frames) /\ Len(Tail(q)) = Len(q) - 1
      /\ \A i \in 1..Len(Tail(q)) : Tail(q)[i] = q[i + 1]
  BY HeadTailProperties, EmptySeq, LenProperties
<1>2. \A i \in 1..Len(Tail(q)) : i + 1 \in 1..Len(q) /\ i \in Nat /\ i + 1 > 1
  BY <1>1
<1>3. \A t : Past(n, t)' <=> Past(n, t)
  BY DEF Past
<1>4. \A t \in 0..MaxTID : Clear(n, t) => Clear(n, t)'
  BY <1>1, <1>2 DEF Clear
<1>5. Line(n)'
  <2>1. (ws[n].asked # None =>
           ws[n].asked.tid <= lastTID[n] /\ (ws[n].asked.kind # "open" => ws[n].id # 0))'
    BY DEF Line
  <2>2. ASSUME NEW i \in 1..Len(Tail(q))
        PROVE  LET f == Tail(q)[i] IN
               /\ f.kind \in Requests => f.tid \in 1..lastTID[n]
               /\ f.kind \in Calls \cup {"tickle"} => f.id # 0
               /\ f.kind = "release" =>
                    /\ Past(n, f.tid)
                    /\ \A j \in 1..Len(Tail(q)) :
                         j > i /\ Tail(q)[j].kind \in Requests => Tail(q)[j].tid # f.tid
    <3>1. Tail(q)[i] = q[i + 1] /\ i + 1 \in 1..Len(q)
      BY <1>1, <1>2
    <3>2. \A j \in 1..Len(Tail(q)) : j > i => Tail(q)[j] = q[j + 1] /\ j + 1 \in 1..Len(q) /\ j + 1 > i + 1
      BY <1>1, <1>2
    <3> QED BY <3>1, <3>2 DEF Line
  <2> QED BY <1>3, <2>1, <2>2 DEF Line
<1>6. ASSUME NEW t \in 0..MaxTID, toServer[n][1].kind = "release", toServer[n][1].tid = t
      PROVE  Past(n, t) /\ Clear(n, t)'
  <2>1. 1 \in 1..Len(q)
    BY <1>1
  <2>2. Past(n, t) /\ \A j \in 1..Len(q) : j > 1 /\ q[j].kind \in Requests => q[j].tid # t
    BY <1>6, <2>1 DEF Line
  <2> QED BY <1>1, <1>2, <2>2 DEF Clear
<1> QED
  BY <1>3, <1>4, <1>5, <1>6

LEMMA LineAdded ==
  ASSUME TypeOK, NEW n \in Nodes, Line(n), NEW f \in Frames,
         toServer'[n] = Append(toServer[n], f), lastTID'[n] \in 0..MaxTID, lastTID[n] <= lastTID'[n],
         \A t \in 0..MaxTID : Past(n, t) => Past(n, t)',
         f.kind \in Requests => f.tid \in 1..lastTID'[n] /\ \A t \in 0..MaxTID : Past(n, t) => f.tid # t,
         f.kind \in Calls \cup {"tickle"} => f.id # 0,
         f.kind = "release" => Past(n, f.tid)',
         ws'[n].asked # None =>
           ws'[n].asked.tid <= lastTID'[n] /\ (ws'[n].asked.kind # "open" => ws'[n].id # 0)
  PROVE  /\ Line(n)'
         /\ \A t \in 0..MaxTID : Past(n, t) /\ Clear(n, t) => Past(n, t)' /\ Clear(n, t)'
<1> PICK q \in Seq(Frames) : q = toServer[n] /\ \A i \in 1..Len(q) : q[i] \in Frames
  BY QueueLen
<1> PICK last \in 0..MaxTID : last = lastTID[n]
  BY DEF TypeOK
<1>1. /\ Len(q) \in Nat /\ Append(q, f) \in Seq(Frames) /\ Len(Append(q, f)) = Len(q) + 1
      /\ \A i \in 1..Len(q) : Append(q, f)[i] = q[i]
      /\ Append(q, f)[Len(q) + 1] = f
  BY AppendProperties, LenProperties
<1>2. \A i \in 1..Len(q) + 1 : i = Len(q) + 1 \/ i \in 1..Len(q)
  BY <1>1
<1>3. \A i \in 1..Len(q) : q[i].tid \in 0..MaxTID
  BY DEF Frames
<1>4. \A t \in 0..MaxTID : Past(n, t) /\ Clear(n, t) => Clear(n, t)'
  BY <1>1, <1>2 DEF Clear
<1>5. ASSUME NEW i \in 1..Len(q) + 1
      PROVE  LET g == Append(q, f)[i] IN
             /\ g.kind \in Requests => g.tid \in 1..lastTID'[n]
             /\ g.kind \in Calls \cup {"tickle"} => g.id # 0
             /\ g.kind = "release" =>
                  /\ Past(n, g.tid)'
                  /\ \A j \in 1..Len(q) + 1 :
                       j > i /\ Append(q, f)[j].kind \in Requests => Append(q, f)[j].tid # g.tid
  <2>1. CASE i = Len(q) + 1
    BY <1>1, <2>1, SMTT(30)
  <2>2. CASE i \in 1..Len(q)
    <3>1. q[i].kind \in Requests => q[i].tid \in 1..last
      BY <2>2 DEF Line
    <3>2. q[i].kind \in Calls \cup {"tickle"} => q[i].id # 0
      BY <2>2 DEF Line
    <3>3. q[i].kind = "release" => Past(n, q[i].tid)
      BY <2>2 DEF Line
    <3>4. q[i].kind = "release" => \A j \in 1..Len(q) :
            j > i /\ q[j].kind \in Requests => q[j].tid # q[i].tid
      BY <2>2 DEF Line
    <3>5. q[i].kind = "release" => (f.kind \in Requests => f.tid # q[i].tid)
      BY <1>3, <2>2, <3>3
    <3>6. q[i].kind = "release" => Past(n, q[i].tid)'
      BY <1>3, <2>2, <3>3
    <3>7. q[i].kind = "release" => \A j \in 1..Len(q) + 1 :
            j > i /\ Append(q, f)[j].kind \in Requests => Append(q, f)[j].tid # q[i].tid
      BY <1>1, <1>2, <3>4, <3>5
    <3>8. 1..last \subseteq 1..lastTID'[n]
      BY SMTT(30)
    <3> QED BY <1>1, <2>2, <3>1, <3>2, <3>6, <3>7, <3>8, SMTT(30)
  <2> QED BY <1>2, <2>1, <2>2
<1>6. Line(n)'
  BY <1>1, <1>5, SMTT(30) DEF Line
<1> QED
  BY <1>4, <1>6

\* Between two steps: what every node sent is still in line, and what it was
\* through with it still is.
LineKept(n) ==
  /\ Line(n)'
  /\ \A t \in 0..MaxTID : Past(n, t) /\ Clear(n, t) => Past(n, t)' /\ Clear(n, t)'

\* What the steps of a workstation and of the network change and what not.
Same(n) == toServer'[n] = toServer[n] /\ ws'[n] = ws[n] /\ lastTID'[n] = lastTID[n]

LEMMA SameLine ==
  ASSUME Lines, NEW n \in Nodes, Same(n)
  PROVE  LineKept(n)
BY LineStays DEF Lines, Same, LineKept

-----------------------------------------------------------------------------
(* The workstations.                                                       *)

LEMMA WorkstationType ==
  ASSUME TypeOK, NEW n \in Nodes
  PROVE  /\ ws[n] \in Client
         /\ ws[n].id \in 0..MaxID /\ ws[n].asked \in Request \cup {None}
         /\ ws[n].again \in 0..MaxAgain
         /\ ws[n].asked # None => ws[n].asked.kind \in Requests /\ ws[n].asked.tid \in 1..MaxTID
         /\ lastTID[n] \in 0..MaxTID
<1>1. ws[n] \in Client
  BY DEF TypeOK
<1>2. lastTID[n] \in 0..MaxTID
  BY DEF TypeOK
<1>3. ws[n].asked \in Request => ws[n].asked.kind \in Requests /\ ws[n].asked.tid \in 1..MaxTID
  BY DEF Request, Requests
<1> QED
  BY <1>1, <1>2, <1>3 DEF Client

LEMMA ClientEmptied ==
  ASSUME NEW c \in Client, NEW id \in 0..MaxID
  PROVE  /\ [c EXCEPT !.id = id, !.asked = None] \in Client
         /\ [c EXCEPT !.id = id, !.asked = None].asked = None
BY DEF Client

\* A workstation as it is after a step.
LEMMA ClientSet ==
  ASSUME TypeOK, NEW n \in Nodes, NEW w \in Client, ws' = [ws EXCEPT ![n] = w]
  PROVE  ws' \in [Nodes -> Client] /\ ws'[n] = w /\ \A m \in Nodes \ {n} : ws'[m] = ws[m]
BY DEF TypeOK

\* What a step of a workstation keeps of the types.
ToServerType == toServer' \in [Nodes -> Seq(Frames)]
ClientType ==
  /\ ws' \in [Nodes -> Client]
  /\ lastTID' \in [Nodes -> 0..MaxTID]

LEMMA AskKeeps ==
  ASSUME TypeOK, Lines, NEW n \in Nodes, NEW kind \in Requests, Ask(n, kind)
  PROVE  ToServerType /\ ClientType /\ \A m \in Nodes : LineKept(m)
<1> PICK t \in 1..MaxTID : t = lastTID[n] + 1
  BY WorkstationType DEF Ask
<1> PICK id \in 0..MaxID : id = ws[n].id
  BY WorkstationType
<1> PICK f \in Frames : f = Frame(kind, t, id, 0) /\ f.kind = kind /\ f.tid = t /\ f.id = id
  BY FrameType
<1>1. [kind |-> kind, tid |-> t] \in Request
  BY DEF Request, Requests
<1>2. Send(n, f)
  BY DEF Ask
<1>3. ws' = [ws EXCEPT ![n].asked = [kind |-> kind, tid |-> t]] /\ lastTID' = [lastTID EXCEPT ![n] = t]
      /\ ws[n].asked = None /\ (kind = "open" <=> id = 0)
  BY DEF Ask
<1>4. PICK w \in Client : w = [ws[n] EXCEPT !.asked = [kind |-> kind, tid |-> t]]
  <2>1. ws[n] \in Client
    BY WorkstationType
  <2>2. ASSUME NEW c \in Client, NEW r \in Request PROVE [c EXCEPT !.asked = r] \in Client
    BY ONLY <2>2 DEF Client
  <2> QED BY <1>1, <2>1, <2>2
<1>5. ws' = [ws EXCEPT ![n] = w]
  BY <1>3, <1>4
<1>6. /\ lastTID' \in [Nodes -> 0..MaxTID] /\ lastTID'[n] = t /\ lastTID[n] <= t
      /\ \A m \in Nodes \ {n} : lastTID'[m] = lastTID[m]
  <2>1. t \in 0..MaxTID /\ lastTID[n] <= t
    BY WorkstationType
  <2> QED BY <1>3, <2>1 DEF TypeOK
<1>10. ws'[n].asked = [kind |-> kind, tid |-> t] /\ ws'[n].id = id
  <2>1. ws'[n] = w
    BY <1>5, ClientSet
  <2>2. w.asked = [kind |-> kind, tid |-> t] /\ w.id = ws[n].id
    BY <1>4, WorkstationType DEF Client
  <2> QED BY <2>1, <2>2
<1>7. \A s \in 0..MaxTID : Past(n, s) => s < t /\ Past(n, s)'
  BY <1>3, <1>6, <1>10, WorkstationType DEF Past
<1>8. LineKept(n)
  <2>1. Line(n)
    BY DEF Lines
  <2>2. toServer'[n] = Append(toServer[n], f)
    BY <1>2, SendType
  <2>3. kind \in Calls \cup {"tickle"} => id # 0
    BY <1>3 DEF Calls
  <2>4. kind # "release"
    BY DEF Requests, Calls
  <2>5. kind \in Requests => t \in 1..lastTID'[n] /\ \A s \in 0..MaxTID : Past(n, s) => t # s
    BY <1>6, <1>7
  <2>6. ws'[n].asked.tid <= lastTID'[n] /\ (ws'[n].asked.kind # "open" => ws'[n].id # 0)
    BY <1>3, <1>6, <1>10
  <2> QED BY <1>6, <1>7, <2>1, <2>2, <2>3, <2>4, <2>5, <2>6, LineAdded, SMTT(30) DEF LineKept
<1>9. ASSUME NEW m \in Nodes \ {n} PROVE LineKept(m)
  <2>1. Same(m)
    BY <1>2, <1>5, <1>6, SendType, ClientSet DEF Same
  <2> QED BY <2>1, SameLine
<1> QED
  BY <1>2, <1>5, <1>6, <1>8, <1>9, SendType, ClientSet DEF ToServerType, ClientType

\* A workstation that is through with what it asked is through with all it was.
LEMMA PastGrows ==
  ASSUME NEW n \in Nodes, lastTID'[n] = lastTID[n],
         ws'[n].asked = None \/ ws'[n].asked = ws[n].asked
  PROVE  \A t \in 0..MaxTID : Past(n, t) => Past(n, t)'
BY DEF Past

LEMMA AskAgainKeeps ==
  ASSUME TypeOK, Lines, NEW n \in Nodes, AskAgain(n)
  PROVE  ToServerType /\ ClientType /\ \A m \in Nodes : LineKept(m)
<1> PICK asked \in Request : asked = ws[n].asked /\ asked.kind \in Requests /\ asked.tid \in 1..MaxTID
  BY WorkstationType DEF AskAgain
<1> PICK id \in 0..MaxID : id = ws[n].id
  BY WorkstationType
<1> PICK f \in Frames :
      f = Frame(asked.kind, asked.tid, id, 0) /\ f.kind = asked.kind /\ f.tid = asked.tid /\ f.id = id
  BY FrameType
<1>1. Send(n, f) /\ lastTID' = lastTID
  BY DEF AskAgain
<1>2. PICK w \in Client : w = [ws[n] EXCEPT !.again = @ - 1] /\ w.asked = asked /\ w.id = id
  <2> PICK c \in Client : c = ws[n] /\ c.again \in 0..MaxAgain /\ c.again > 0
    BY WorkstationType DEF AskAgain
  <2>1. c.again - 1 \in 0..MaxAgain
    OBVIOUS
  <2>2. [c EXCEPT !.again = @ - 1] \in Client
    BY <2>1 DEF Client
  <2>3. [c EXCEPT !.again = @ - 1].asked = c.asked /\ [c EXCEPT !.again = @ - 1].id = c.id
    BY DEF Client
  <2> QED BY <2>2, <2>3
<1>3. ws' = [ws EXCEPT ![n] = w]
  BY <1>2 DEF AskAgain
<1>4. LineKept(n)
  <2>1. Line(n) /\ asked.tid <= lastTID[n] /\ (asked.kind # "open" => id # 0)
    BY DEF Lines, Line
  <2>2. toServer'[n] = Append(toServer[n], f)
    BY <1>1, SendType
  <2>3. f.kind \in Calls \cup {"tickle"} => f.id # 0
    BY <2>1 DEF Calls
  <2>4. f.kind # "release"
    BY DEF Requests, Calls
  <2>5. ws'[n].asked = asked /\ ws'[n].id = id /\ lastTID'[n] = lastTID[n]
    BY <1>1, <1>2, <1>3, ClientSet
  <2>6. \A s \in 0..MaxTID : Past(n, s) => Past(n, s)' /\ f.tid # s
    BY <2>5 DEF Past
  <2>7. lastTID'[n] \in 0..MaxTID /\ lastTID[n] <= lastTID'[n] /\ asked.tid \in 1..lastTID'[n]
    BY <2>1, <2>5, WorkstationType
  <2>8. ws'[n].asked # None =>
          ws'[n].asked.tid <= lastTID'[n] /\ (ws'[n].asked.kind # "open" => ws'[n].id # 0)
    BY <2>1, <2>5
  <2> QED BY <2>1, <2>2, <2>3, <2>4, <2>6, <2>7, <2>8, LineAdded, ZenonT(30) DEF LineKept
<1>5. ASSUME NEW m \in Nodes \ {n} PROVE LineKept(m)
  <2>1. Same(m)
    BY <1>1, <1>3, SendType, ClientSet DEF Same
  <2> QED BY <2>1, SameLine
<1> QED
  BY <1>1, <1>3, <1>4, <1>5, SendType, ClientSet DEF ToServerType, ClientType, TypeOK

LEMMA TickleKeeps ==
  ASSUME TypeOK, Lines, NEW n \in Nodes, Tickle(n)
  PROVE  ToServerType /\ ClientType /\ \A m \in Nodes : LineKept(m)
<1> PICK id \in 0..MaxID : id = ws[n].id
  BY WorkstationType
<1> PICK f \in Frames : f = Frame("tickle", 0, id, 0) /\ f.kind = "tickle" /\ f.tid = 0 /\ f.id = id
  BY TickleFrame
<1>1. Send(n, f) /\ lastTID' = lastTID /\ ws' = ws /\ id # 0
  BY DEF Tickle, workstations
<1>2. LineKept(n)
  <2>1. Line(n) /\ (ws[n].asked # None =>
          ws[n].asked.tid <= lastTID[n] /\ (ws[n].asked.kind # "open" => ws[n].id # 0))
    BY DEF Lines, Line
  <2>2. toServer'[n] = Append(toServer[n], f)
    BY <1>1, SendType
  <2>3. f.kind \notin Requests /\ f.kind # "release"
    BY DEF Requests, Calls
  <2>4. \A s \in 0..MaxTID : Past(n, s) => Past(n, s)'
    BY <1>1, PastGrows
  <2>5. lastTID'[n] \in 0..MaxTID /\ lastTID[n] <= lastTID'[n]
    BY <1>1, WorkstationType
  <2> QED BY <1>1, <2>1, <2>2, <2>3, <2>4, <2>5, LineAdded DEF LineKept
<1>3. ASSUME NEW m \in Nodes \ {n} PROVE LineKept(m)
  <2>1. Same(m)
    BY <1>1, SendType DEF Same
  <2> QED BY <2>1, SameLine
<1> QED
  BY <1>1, <1>2, <1>3, SendType DEF ToServerType, ClientType, TypeOK

\* It stops waiting, in a session or out of it.
LEMMA LineLeft ==
  ASSUME NEW n \in Nodes, Line(n), toServer'[n] = toServer[n], lastTID'[n] = lastTID[n],
         ws'[n].asked = None
  PROVE  LineKept(n)
<1>1. \A t : Past(n, t) => Past(n, t)'
  BY DEF Past
<1>2. Line(n)'
  BY <1>1 DEF Line
<1> QED
  BY <1>1, <1>2 DEF LineKept, Clear

LEMMA LeaveKeeps ==
  ASSUME TypeOK, Lines, NEW n \in Nodes, Restart(n) \/ GiveUp(n)
  PROVE  ToServerType /\ ClientType /\ \A m \in Nodes : LineKept(m)
<1>1. toServer' = toServer /\ lastTID' = lastTID
  BY DEF Restart, GiveUp
<1>2. PICK w \in Client : ws' = [ws EXCEPT ![n] = w] /\ w.asked = None
  <2>1. CASE Restart(n)
    <3>1. [ws[n] EXCEPT !.id = 0, !.asked = None] \in Client
      <4>1. 0 \in 0..MaxID /\ ws[n] \in Client
        BY WorkstationType
      <4> QED BY <4>1, ClientEmptied
    <3>2. ws' = [ws EXCEPT ![n] = [ws[n] EXCEPT !.id = 0, !.asked = None]]
      BY <2>1 DEF Restart, TypeOK
    <3> QED BY <3>1, <3>2 DEF Client
  <2>2. CASE GiveUp(n)
    <3>1. [ws[n] EXCEPT !.asked = None] \in Client
      BY WorkstationType DEF Client
    <3>2. ws' = [ws EXCEPT ![n] = [ws[n] EXCEPT !.asked = None]]
      BY <2>2 DEF GiveUp
    <3> QED BY <3>1, <3>2 DEF Client
  <2> QED BY <2>1, <2>2
<1>3. LineKept(n)
  BY <1>1, <1>2, ClientSet, LineLeft DEF Lines
<1>4. ASSUME NEW m \in Nodes \ {n} PROVE LineKept(m)
  <2>1. Same(m)
    BY <1>1, <1>2, ClientSet DEF Same
  <2> QED BY <2>1, SameLine
<1> QED
  BY <1>1, <1>2, <1>3, <1>4, ClientSet DEF ToServerType, ClientType, TypeOK

LEMMA HearKeeps ==
  ASSUME TypeOK, Lines, NEW n \in Nodes, NEW f \in toWorkstation[n], Hear(n, f)
  PROVE  ToServerType /\ ClientType /\ \A m \in Nodes : LineKept(m)
<1>1. f \in Frames /\ f.tid \in 0..MaxTID /\ f.id \in 0..MaxID /\ f.run \in Nat
  BY DEF TypeOK, Frames
<1>2. lastTID' = lastTID
  BY DEF Hear
<1>3. Line(n) /\ (ws[n].asked # None =>
          ws[n].asked.tid <= lastTID[n] /\ (ws[n].asked.kind # "open" => ws[n].id # 0))
  BY DEF Lines, Line
<1>4. CASE /\ ws[n].asked # None /\ ws[n].asked.tid = f.tid
           /\ \E w \in Client : ws' = [ws EXCEPT ![n] = w] /\ w.asked = None
           /\ Send(n, Frame("release", f.tid, 0, 0))
  <2> PICK r \in Frames : r = Frame("release", f.tid, 0, 0) /\ r.kind = "release" /\ r.tid = f.tid
    BY <1>1, ReleaseFrame
  <2> PICK w \in Client : ws' = [ws EXCEPT ![n] = w] /\ w.asked = None
    BY <1>4
  <2>1. Send(n, r)
    BY <1>4
  <2>2. ws'[n].asked = None
    BY ClientSet
  <2>3. \A s \in 0..MaxTID : Past(n, s) => Past(n, s)'
    BY <1>2, <2>2, PastGrows
  <2>4. Past(n, r.tid)'
    BY <1>2, <1>3, <1>4, <2>2 DEF Past
  <2>5. lastTID'[n] \in 0..MaxTID /\ lastTID[n] <= lastTID'[n]
    BY <1>2, WorkstationType
  <2>6. r.kind \notin Requests /\ r.kind \notin Calls \cup {"tickle"}
    BY DEF Requests, Calls
  <2>7. toServer'[n] = Append(toServer[n], r)
    BY <2>1, SendType
  <2>8. LineKept(n)
    BY <1>3, <2>2, <2>3, <2>4, <2>5, <2>6, <2>7, LineAdded DEF LineKept
  <2>9. ASSUME NEW m \in Nodes \ {n} PROVE LineKept(m)
    <3>1. Same(m)
      BY <1>2, <2>1, SendType, ClientSet DEF Same
    <3> QED BY <3>1, SameLine
  <2> QED
    BY <1>2, <2>1, <2>8, <2>9, SendType, ClientSet DEF ToServerType, ClientType, TypeOK
<1>5. CASE ws' = ws /\ Send(n, Frame("data", f.tid, f.id, f.run))
  <2> PICK r \in Frames : r = Frame("data", f.tid, f.id, f.run) /\ r.kind = "data"
    BY <1>1, DataFrame
  <2>1. Send(n, r)
    BY <1>5
  <2>2. \A s \in 0..MaxTID : Past(n, s) => Past(n, s)'
    BY <1>2, <1>5, PastGrows
  <2>3. lastTID'[n] \in 0..MaxTID /\ lastTID[n] <= lastTID'[n]
    BY <1>2, WorkstationType
  <2>4. r.kind \notin Requests /\ r.kind \notin Calls \cup {"tickle"} /\ r.kind # "release"
    BY DEF Requests, Calls
  <2>5. toServer'[n] = Append(toServer[n], r)
    BY <2>1, SendType
  <2>6. LineKept(n)
    BY <1>2, <1>3, <1>5, <2>2, <2>3, <2>4, <2>5, LineAdded DEF LineKept
  <2>7. ASSUME NEW m \in Nodes \ {n} PROVE LineKept(m)
    <3>1. Same(m)
      BY <1>2, <1>5, <2>1, SendType DEF Same
    <3> QED BY <3>1, SameLine
  <2> QED
    BY <1>2, <1>5, <2>1, <2>6, <2>7, SendType DEF ToServerType, ClientType, TypeOK
<1>6. CASE ws' = ws /\ toServer' = toServer
  BY <1>2, <1>6, SameLine DEF Same, ToServerType, ClientType, TypeOK
<1>7. ASSUME ws[n].asked # None,
             ws' = [ws EXCEPT ![n].id = IdOnceAnswered(n, f), ![n].asked = None]
      PROVE  \E w \in Client : ws' = [ws EXCEPT ![n] = w] /\ w.asked = None
  <2> PICK c \in Client : c = ws[n] /\ c.id \in 0..MaxID
    BY WorkstationType
  <2> PICK id \in 0..MaxID : id = IdOnceAnswered(n, f)
    BY <1>1 DEF IdOnceAnswered
  <2>1. [c EXCEPT !.id = id, !.asked = None] \in Client
        /\ [c EXCEPT !.id = id, !.asked = None].asked = None
    BY ClientEmptied
  <2>2. ws' = [ws EXCEPT ![n] = [c EXCEPT !.id = id, !.asked = None]]
    BY <1>7 DEF TypeOK
  <2> QED BY <2>1, <2>2
<1> QED
  BY <1>4, <1>5, <1>6, <1>7 DEF Hear

-----------------------------------------------------------------------------
(* The server.                                                             *)

\* What the server takes of a workstation.
LEMMA ReceivedIs ==
  ASSUME TypeOK, Lines, NEW n \in Nodes, toServer[n] # <<>>
  PROVE  LET f == Head(toServer[n]) IN
         /\ f \in Frames /\ f.tid \in 0..MaxTID /\ f.id \in 0..MaxID /\ f.run \in Nat
         /\ f.kind \in Requests => <<n, f.tid>> \in Keys
         /\ f.kind \in Calls \cup {"tickle"} => f.id \in Ids
<1> PICK f \in Frames : f = Head(toServer[n]) /\ f = toServer[n][1] /\ 1 \in 1..Len(toServer[n])
  BY QueueLen, HeadTailProperties, EmptySeq, LenProperties
<1>1. f.tid \in 0..MaxTID /\ f.id \in 0..MaxID /\ f.run \in Nat
  BY DEF Frames
<1>2. Line(n) /\ lastTID[n] \in 0..MaxTID
  BY QueueLen DEF Lines
<1>3. f.kind \in Requests => f.tid \in 1..MaxTID
  BY <1>2 DEF Line
<1>4. f.kind \in Calls \cup {"tickle"} => f.id \in Ids
  BY <1>1, <1>2 DEF Line, Ids
<1> QED
  BY <1>1, <1>3, <1>4 DEF Keys

LEMMA ReceiveLine ==
  ASSUME TypeOK, Lines, NEW n \in Nodes, toServer[n] # <<>>, Take(n), UNCHANGED workstations
  PROVE  /\ ToServerType /\ ClientType /\ \A m \in Nodes : LineKept(m)
         /\ \A t \in 0..MaxTID : Head(toServer[n]).kind = "release" /\ Head(toServer[n]).tid = t
              => Past(n, t)' /\ Clear(n, t)'
<1>1. ws' = ws /\ lastTID' = lastTID /\ Line(n)
  BY DEF workstations, Lines
<1>2. \A m \in Nodes \ {n} : LineKept(m)
  <2>1. \A m \in Nodes \ {n} : Same(m)
    BY <1>1, TakeType DEF Same
  <2> QED BY <2>1, SameLine
<1> QED
  BY <1>1, <1>2, TakeType, LineTaken, ZenonT(30) DEF LineKept, ToServerType, ClientType, TypeOK

LEMMA LoseKeeps ==
  ASSUME TypeOK, Lines, NEW n \in Nodes, Lose(n)
  PROVE  ToServerType /\ ClientType /\ \A m \in Nodes : LineKept(m)
<1>1. CASE toServer[n] # <<>> /\ Take(n)
  BY <1>1, ReceiveLine DEF Lose
<1>2. CASE toServer' = toServer
  BY <1>2, SameLine DEF Lose, workstations, Same, ToServerType, ClientType, TypeOK
<1> QED
  BY <1>1, <1>2 DEF Lose

\* What is on the way between the workstations and the server, and what they
\* were through with, whatever the step.
LEMMA LinesKept ==
  ASSUME TypeOK, Lines, [Next]_vars
  PROVE  ToServerType /\ ClientType /\ \A m \in Nodes : LineKept(m)
<1>1. CASE UNCHANGED vars
  BY <1>1, SameLine DEF vars, Same, ToServerType, ClientType, TypeOK
<1>2. CASE Tick
  BY <1>2, SameLine DEF Tick, workstations, Same, ToServerType, ClientType, TypeOK
<1>3. ASSUME NEW n \in Nodes, \E kind \in Calls \cup {"open"} : Ask(n, kind)
      PROVE  ToServerType /\ ClientType /\ \A m \in Nodes : LineKept(m)
  BY <1>3, AskKeeps DEF Requests
<1>4. ASSUME NEW n \in Nodes, \E f \in toWorkstation[n] : Hear(n, f)
      PROVE  ToServerType /\ ClientType /\ \A m \in Nodes : LineKept(m)
  BY <1>4, HearKeeps
<1>5. ASSUME NEW n \in Nodes, Receive(n)
      PROVE  ToServerType /\ ClientType /\ \A m \in Nodes : LineKept(m)
  BY <1>5, ReceiveLine DEF Receive
<1> QED
  BY <1>1, <1>2, <1>3, <1>4, <1>5, AskAgainKeeps, TickleKeeps, LeaveKeeps, LoseKeeps DEF Next

\* The state of the server, and what is on the way from it.
ServerType ==
  /\ sessions \in [Ids -> Session \cup {None}]
  /\ nextID \in 0..MaxID
  /\ afp \in [Ids -> {"none", "guest", "in"}]
  /\ kept \in [Keys -> Response \cup {None}]
  /\ continues \subseteq [key : Keys, run : Nat, id : Ids, born : Nat, retries : 0..WriteRetries]
  /\ toWorkstation \in [Nodes -> SUBSET Frames]
  /\ born \in Nat
  /\ ran \in [Keys -> Nat]
  /\ wrote \subseteq Nat \X Nat

LEMMA TypeOKIs ==
  /\ TypeOK => ServerType
  /\ ServerType' /\ ToServerType /\ ClientType => TypeOK'
BY DEF TypeOK, ServerType, ToServerType, ClientType

LEMMA SessionAt ==
  ASSUME TypeOK, NEW id \in Ids
  PROVE  /\ sessions[id] # None => sessions[id] \in Session
         /\ sessions[id] # None => sessions[id].node \in Nodes /\ sessions[id].born \in Nat
              /\ sessions[id].silent \in 0..SessionTimeout
BY DEF TypeOK, Session

LEMMA HeardType ==
  ASSUME TypeOK, NEW id \in Ids, sessions[id] # None, Heard(id)
  PROVE  /\ sessions' \in [Ids -> Session \cup {None}]
         /\ \A other \in Ids : /\ sessions'[other] = None <=> sessions[other] = None
                               /\ sessions[other] # None => sessions'[other].born = sessions[other].born
<1> PICK s \in Session : s = sessions[id]
  BY SessionAt
<1>1. [s EXCEPT !.silent = 0] \in Session /\ [s EXCEPT !.silent = 0].born = s.born
  BY DEF Session
<1>2. sessions' = [sessions EXCEPT ![id] = [s EXCEPT !.silent = 0]]
  BY DEF Heard
<1> QED
  BY <1>1, <1>2 DEF TypeOK

LEMMA OpenSessionType ==
  ASSUME TypeOK, Lines, NEW n \in Nodes, toServer[n] # <<>>, OpenSession(n, Head(toServer[n]))
  PROVE  ServerType'
<1> PICK f \in Frames : f = Head(toServer[n]) /\ f.tid \in 0..MaxTID /\ f.kind = "open"
  BY ReceivedIs DEF OpenSession
<1> PICK k \in Keys : k = <<n, f.tid>>
  BY ReceivedIs DEF Requests
<1>1. OpenSession(n, f)
  OBVIOUS
<1>2. KeepNew(k) \in [Keys -> Response \cup {None}]
  BY KeepNewType
<1>3. ran' \in [Keys -> Nat] /\ continues' = continues /\ wrote' = wrote
  BY <1>1, SMTT(30) DEF OpenSession, TypeOK
<1>4. CASE /\ Answer(KeepNew(k), k, Frame("refusal", f.tid, 0, 0), FALSE)
           /\ UNCHANGED <<sessions, nextID, afp, born>>
  <2>1. Frame("refusal", f.tid, 0, 0) \in Frames
    <3>1. 0 \in 0..MaxID /\ 0 \in Nat
      OBVIOUS
    <3> QED BY <3>1 DEF Frame, Frames
  <2>2. kept' \in [Keys -> Response \cup {None}] /\ toWorkstation' \in [Nodes -> SUBSET Frames]
    BY <1>2, <1>4, <2>1, AnswerType
  <2> QED BY <1>3, <1>4, <2>2 DEF ServerType, TypeOK
<1>5. CASE /\ ~Full /\ nextID' = FreshId /\ born' = born + 1
           /\ sessions' = [sessions EXCEPT ![FreshId] = [node |-> n, born |-> born + 1, silent |-> 0]]
           /\ afp' = [afp EXCEPT ![FreshId] = "guest"]
           /\ Answer(KeepNew(k), k, Frame("answer", f.tid, FreshId, 0), FALSE)
  <2> PICK id \in Ids : id = FreshId
    BY <1>5, FreshIdIs DEF TypeOK
  <2>1. Frame("answer", f.tid, id, 0) \in Frames
    BY DEF Frame, Frames, Ids
  <2>2. kept' \in [Keys -> Response \cup {None}] /\ toWorkstation' \in [Nodes -> SUBSET Frames]
    BY <1>2, <1>5, <2>1, AnswerType
  <2>3. born' \in Nat /\ [node |-> n, born |-> born + 1, silent |-> 0] \in Session
    BY <1>5 DEF Session, TypeOK
  <2>4. sessions' \in [Ids -> Session \cup {None}]
    BY <1>5, <2>3 DEF TypeOK
  <2>5. nextID' \in 0..MaxID /\ afp' \in [Ids -> {"none", "guest", "in"}]
    BY <1>5 DEF TypeOK, Ids
  <2> QED BY <1>3, <2>2, <2>3, <2>4, <2>5 DEF ServerType, TypeOK
<1> QED
  BY <1>1, <1>4, <1>5 DEF OpenSession

LEMMA SessionRequestType ==
  ASSUME TypeOK, Lines, NEW n \in Nodes, toServer[n] # <<>>, SessionRequest(n, Head(toServer[n]))
  PROVE  ServerType'
<1> PICK f \in Frames : /\ f = Head(toServer[n]) /\ f.tid \in 0..MaxTID /\ f.kind \in Calls
                        /\ f.id \in Ids /\ f.run \in Nat /\ <<n, f.tid>> \in Keys
  BY ReceivedIs DEF SessionRequest, Requests
<1> PICK k \in Keys : k = <<n, f.tid>>
  OBVIOUS
<1> PICK reply \in Frames : reply = Frame("answer", f.tid, f.id, 0)
  BY DEF Frame, Frames, Ids
<1>1. SessionRequest(n, f) /\ sessions[f.id] # None
  BY DEF SessionRequest, Mine
<1>2. KeepNew(k) \in [Keys -> Response \cup {None}]
  BY KeepNewType
<1>3. /\ ran' = [ran EXCEPT ![k] = @ + 1] /\ ran[k] \in Nat
      /\ nextID' = nextID /\ born' = born /\ wrote' = wrote
  BY <1>1 DEF SessionRequest, TypeOK
<1>4. ran' \in [Keys -> Nat]
  BY <1>3, SMTT(30) DEF TypeOK
<1>5. CASE /\ Heard(f.id) /\ continues' = continues /\ Answer(KeepNew(k), k, reply, FALSE)
           /\ afp' = IF f.kind = "login" THEN [afp EXCEPT ![f.id] = "in"] ELSE afp
  <2>1. kept' \in [Keys -> Response \cup {None}] /\ toWorkstation' \in [Nodes -> SUBSET Frames]
    BY <1>2, <1>5, AnswerType
  <2>2. sessions' \in [Ids -> Session \cup {None}]
    BY <1>1, <1>5, HeardType
  <2>3. afp' \in [Ids -> {"none", "guest", "in"}]
    BY <1>5 DEF TypeOK
  <2> QED BY <1>3, <1>4, <1>5, <2>1, <2>2, <2>3 DEF ServerType, TypeOK
<1>6. CASE /\ Heard(f.id)
           /\ continues' = continues \cup {[key |-> k, run |-> ran[k] + 1, id |-> f.id,
                               born |-> sessions[f.id].born, retries |-> WriteRetries]}
           /\ kept' = KeepNew(k)
           /\ Post(n, {Frame("continue", f.tid, f.id, ran[k] + 1)})
           /\ afp' = afp
  <2>1. ran[k] + 1 \in Nat
    BY <1>3
  <2>2. Frame("continue", f.tid, f.id, ran[k] + 1) \in Frames
    BY <2>1 DEF Frame, Frames, Ids
  <2>3. toWorkstation' \in [Nodes -> SUBSET Frames]
    BY <1>6, <2>2, PostType
  <2>4. sessions' \in [Ids -> Session \cup {None}] /\ sessions[f.id].born \in Nat
    BY <1>1, <1>6, HeardType, SessionAt
  <2>5. [key |-> k, run |-> ran[k] + 1, id |-> f.id, born |-> sessions[f.id].born,
         retries |-> WriteRetries]
          \in [key : Keys, run : Nat, id : Ids, born : Nat, retries : 0..WriteRetries]
    BY <2>1, <2>4
  <2>6. continues' \subseteq [key : Keys, run : Nat, id : Ids, born : Nat, retries : 0..WriteRetries]
    BY <1>6, <2>5 DEF TypeOK
  <2> QED BY <1>2, <1>3, <1>4, <1>6, <2>3, <2>4, <2>6 DEF ServerType, TypeOK
<1>7. CASE /\ sessions' = [sessions EXCEPT ![f.id] = None]
           /\ afp' = [afp EXCEPT ![f.id] = "none"]
           /\ Answer(KeepNew(k), k, reply, TRUE)
           /\ continues' = continues
  <2>1. kept' \in [Keys -> Response \cup {None}] /\ toWorkstation' \in [Nodes -> SUBSET Frames]
    BY <1>2, <1>7, AnswerType
  <2> QED BY <1>3, <1>4, <1>7, <2>1 DEF ServerType, TypeOK
<1> QED
  BY <1>1, <1>5, <1>6, <1>7 DEF SessionRequest

LEMMA DataType ==
  ASSUME TypeOK, Lines, NEW n \in Nodes, toServer[n] # <<>>, Data(n, Head(toServer[n])),
         AfpHasTheSessions
  PROVE  ServerType'
<1> PICK f \in Frames : f = Head(toServer[n]) /\ f.tid \in 0..MaxTID
  BY ReceivedIs
<1> PICK mine \in SUBSET continues :
      mine = {c \in continues : c.key = <<n, f.tid>> /\ c.run = f.run}
  OBVIOUS
<1>1. /\ continues' = continues \ mine
      /\ sessions' = sessions /\ nextID' = nextID /\ afp' = afp /\ born' = born /\ ran' = ran
  BY DEF Data
<1>2. CASE kept' = kept /\ toWorkstation' = toWorkstation /\ wrote' = wrote
  BY <1>1, <1>2 DEF ServerType, TypeOK
<1>3. ASSUME NEW c \in mine,
             wrote' = IF afp[RunsIn(c)] = "in"
                      THEN wrote \cup {<<c.born, sessions[RunsIn(c)].born>>} ELSE wrote,
             Answer(kept, c.key, Frame("answer", f.tid, c.id, 0), FALSE)
      PROVE  ServerType'
  <2>1. c.key \in Keys /\ c.id \in Ids /\ c.born \in Nat
    BY SMTT(30) DEF TypeOK
  <2>2. Frame("answer", f.tid, c.id, 0) \in Frames
    BY <2>1 DEF Frame, Frames, Ids
  <2>3. kept' \in [Keys -> Response \cup {None}] /\ toWorkstation' \in [Nodes -> SUBSET Frames]
    <3>1. kept \in [Keys -> Response \cup {None}]
      BY DEF TypeOK
    <3> QED BY <1>3, <2>1, <2>2, <3>1, AnswerType
  <2>4. afp[c.id] = "in" => sessions[c.id].born \in Nat
    BY <2>1, SessionAt DEF AfpHasTheSessions
  <2>5. wrote' \subseteq Nat \X Nat
    BY <1>3, <2>1, <2>4, SMTT(30) DEF RunsIn, TypeOK
  <2> QED BY <1>1, <2>3, <2>5 DEF ServerType, TypeOK
<1> QED
  BY <1>2, <1>3 DEF Data

LEMMA TickType ==
  ASSUME TypeOK, Tick
  PROVE  ServerType'
<1>1. nextID' = nextID /\ born' = born /\ ran' = ran /\ wrote' = wrote
  BY DEF Tick
<1>2. kept' \in [Keys -> Response \cup {None}]
  <2>1. ASSUME NEW k \in Keys, kept[k] # None, kept[k].left # 0
        PROVE  [kept[k] EXCEPT !.left = @ - 1] \in Response
    <3>1. kept[k] \in Response
      BY <2>1 DEF TypeOK
    <3>2. kept[k].left - 1 \in 0..KeptTime
      BY <2>1, <3>1 DEF Response
    <3> QED BY <3>1, <3>2 DEF Response
  <2> QED BY <2>1 DEF Tick
<1>3. Continued \subseteq [key : Keys, run : Nat, id : Ids, born : Nat, retries : 0..WriteRetries]
  <2>1. ASSUME NEW c \in continues, c.retries > 0
        PROVE  [c EXCEPT !.retries = @ - 1]
                 \in [key : Keys, run : Nat, id : Ids, born : Nat, retries : 0..WriteRetries]
    <3>1. c \in [key : Keys, run : Nat, id : Ids, born : Nat, retries : 0..WriteRetries]
      BY DEF TypeOK
    <3>2. c.retries - 1 \in 0..WriteRetries
      BY <2>1, <3>1
    <3> QED BY <3>1, <3>2
  <2> QED BY <2>1 DEF Continued
<1>4. sessions' \in [Ids -> Session \cup {None}]
  <2>1. ASSUME NEW id \in Ids, sessions[id] # None, ~TimedOut(id)
        PROVE  [sessions[id] EXCEPT !.silent = @ + 1] \in Session
    <3>1. sessions[id] \in Session
      BY <2>1, SessionAt
    <3>2. sessions[id].silent + 1 \in 0..SessionTimeout
      BY <2>1, <3>1 DEF Session, TimedOut
    <3> QED BY <3>1, <3>2 DEF Session
  <2> QED BY <2>1 DEF Tick
<1>5. afp' \in [Ids -> {"none", "guest", "in"}]
  BY DEF Tick, AfpAfterTick, TypeOK
<1>6. toWorkstation' \in [Nodes -> SUBSET Frames]
  <2>1. ASSUME NEW c \in Continued
        PROVE  Frame("continue", c.key[2], c.id, c.run) \in Frames
    <3>1. c.key[2] \in 0..MaxTID /\ c.id \in 0..MaxID /\ c.run \in Nat
      BY <1>3 DEF Keys, Ids
    <3> QED BY <3>1 DEF Frame, Frames
  <2>2. ASSUME NEW n \in Nodes
        PROVE  Posted(n, {Frame("continue", c.key[2], c.id, c.run) :
                            c \in {d \in Continued : d.key[1] = n}}) \in SUBSET Frames
    <3>1. toWorkstation[n] \subseteq Frames
      BY DEF TypeOK
    <3> QED BY <2>1, <3>1 DEF Posted
  <2> HIDE DEF Posted
  <2> QED BY <2>2 DEF Tick
<1> QED
  BY <1>1, <1>2, <1>3, <1>4, <1>5, <1>6 DEF ServerType, TypeOK, Tick

\* The other calls the server gets.
LEMMA SmallCallsType ==
  ASSUME TypeOK, Lines, NEW n \in Nodes, toServer[n] # <<>>,
         LET f == Head(toServer[n])
         IN  Retry(n, f) \/ Release(n, f) \/ TickleHeard(n, f) \/ Stray(n, f)
  PROVE  ServerType'
<1> PICK f \in Frames : /\ f = Head(toServer[n]) /\ f.tid \in 0..MaxTID
                        /\ f.kind \in Requests => <<n, f.tid>> \in Keys
                        /\ f.kind \in Calls \cup {"tickle"} => f.id \in Ids
  BY ReceivedIs
<1>1. CASE Retry(n, f)
  <2> PICK k \in Keys : k = <<n, f.tid>>
    BY <1>1 DEF Retry, Requests
  <2>1. {kept[k].answer} \ {None} \in SUBSET Frames
    <3>1. kept[k] \in Response
      BY <1>1 DEF Retry, TypeOK
    <3> QED BY <3>1 DEF Response
  <2>2. toWorkstation' \in [Nodes -> SUBSET Frames]
    BY <1>1, <2>1, PostType DEF Retry
  <2> QED BY <1>1, <2>2 DEF Retry, server, ServerType, TypeOK
<1>2. CASE Release(n, f)
  <2>1. kept' \in [Keys -> Response \cup {None}]
    BY <1>2 DEF Release, TypeOK
  <2> QED BY <1>2, <2>1 DEF Release, ServerType, TypeOK
<1>3. CASE TickleHeard(n, f)
  <2>1. sessions' \in [Ids -> Session \cup {None}]
    <3>1. CASE Mine(n, f.id)
      BY <1>3, <3>1, HeardType DEF TickleHeard, Mine
    <3>2. CASE sessions' = sessions
      BY <3>2 DEF TypeOK
    <3> QED BY <1>3, <3>1, <3>2 DEF TickleHeard
  <2> QED BY <1>3, <2>1 DEF TickleHeard, ServerType, TypeOK
<1>4. CASE Stray(n, f)
  <2>1. kept' \in [Keys -> Response \cup {None}]
    BY <1>4, KeepNewType DEF Stray, Requests
  <2> QED BY <1>4, <2>1 DEF Stray, ServerType, TypeOK
<1> QED
  BY <1>1, <1>2, <1>3, <1>4

\* A step of a workstation, or of the network, takes nothing from the server.
ClientStep(n) ==
  \/ \E kind \in Calls \cup {"open"} : Ask(n, kind)
  \/ AskAgain(n) \/ Tickle(n) \/ GiveUp(n) \/ Restart(n) \/ Lose(n)
  \/ \E f \in toWorkstation[n] : Hear(n, f)

LEMMA ClientStepIs ==
  ASSUME TypeOK, NEW n \in Nodes, ClientStep(n)
  PROVE  UNCHANGED server /\ toWorkstation' \in [Nodes -> SUBSET Frames]
<1>1. UNCHANGED server
  BY DEF ClientStep, Ask, AskAgain, Tickle, GiveUp, Restart, Lose, Hear
<1>2. toWorkstation' = toWorkstation \/ \E f : toWorkstation' = [toWorkstation EXCEPT ![n] = @ \ {f}]
  BY DEF ClientStep, Ask, AskAgain, Tickle, GiveUp, Restart, Lose, Hear
<1> QED
  BY <1>1, <1>2 DEF TypeOK

\* The steps there are.
LEMMA StepIs ==
  ASSUME [Next]_vars
  PROVE  \/ UNCHANGED vars
         \/ Tick
         \/ \E n \in Nodes : ClientStep(n) \/ Receive(n)
BY DEF Next, ClientStep

LEMMA TypeKept ==
  ASSUME TypeOK, Lines, AfpHasTheSessions, [Next]_vars
  PROVE  TypeOK'
<1>1. ServerType'
  <2>1. CASE UNCHANGED vars
    BY <2>1 DEF vars, ServerType, TypeOK
  <2>2. CASE Tick
    BY <2>2, TickType
  <2>3. ASSUME NEW n \in Nodes, ClientStep(n)
        PROVE  ServerType'
    BY <2>3, ClientStepIs, ZenonT(30) DEF server, ServerType, TypeOK
  <2>4. ASSUME NEW n \in Nodes, Receive(n)
        PROVE  ServerType'
    BY <2>4, OpenSessionType, SessionRequestType, DataType, SmallCallsType DEF Receive
  <2> QED BY <2>1, <2>2, <2>3, <2>4, StepIs
<1> QED
  BY <1>1, LinesKept, TypeOKIs

-----------------------------------------------------------------------------
(* The sessions of AFP.                                                    *)

LEMMA OpenIdsShrink ==
  ASSUME TypeOK, AfpHasTheSessions,
         \A id \in Ids : sessions'[id] # None => sessions[id] # None
  PROVE  Cardinality(OpenIds') <= MaxSessions
<1>1. OpenIds' \subseteq OpenIds
  BY DEF OpenIds
<1> PICK now : now = OpenIds'
  OBVIOUS
<1>2. Cardinality(now) \in Nat /\ Cardinality(now) <= Cardinality(OpenIds)
  BY <1>1, OpenIdsAreFinite, FS_Subset, FS_CardinalityType
<1> QED
  BY <1>2, OpenIdsAreFinite DEF AfpHasTheSessions

LEMMA AfpStays ==
  ASSUME TypeOK, AfpHasTheSessions, afp' = afp,
         \A id \in Ids : sessions'[id] = None <=> sessions[id] = None
  PROVE  AfpHasTheSessions'
BY OpenIdsShrink DEF AfpHasTheSessions

LEMMA OpenSessionAfp ==
  ASSUME TypeOK, Lines, AfpHasTheSessions, NEW n \in Nodes, toServer[n] # <<>>,
         OpenSession(n, Head(toServer[n]))
  PROVE  AfpHasTheSessions'
<1>1. CASE sessions' = sessions /\ afp' = afp
  BY <1>1, AfpStays
<1>2. CASE /\ ~Full /\ afp' = [afp EXCEPT ![FreshId] = "guest"]
           /\ sessions' = [sessions EXCEPT ![FreshId] = [node |-> n, born |-> born + 1, silent |-> 0]]
  <2> PICK id \in Ids \ OpenIds : id = FreshId
    BY <1>2, FreshIdIs DEF TypeOK
  <2>1. [node |-> n, born |-> born + 1, silent |-> 0] # None
    <3>1. [node |-> n, born |-> born + 1, silent |-> 0] \in Session
      BY DEF Session, TypeOK
    <3> QED BY <3>1
  <2>2. \A j \in Ids : sessions'[j] = None <=> (sessions[j] = None /\ j # id)
    BY <1>2, <2>1 DEF TypeOK
  <2>3. \A j \in Ids : afp'[j] # "none" <=> (afp[j] # "none" \/ j = id)
    BY <1>2 DEF TypeOK
  <2>4. OpenIds' = OpenIds \cup {id}
    BY <2>2 DEF OpenIds
  <2>5. Cardinality(OpenIds') <= MaxSessions
    <3>1. Cardinality(OpenIds \cup {id}) = Cardinality(OpenIds) + 1
      BY OpenIdsAreFinite, FS_AddElement
    <3> QED BY <1>2, <2>4, <3>1, OpenIdsAreFinite DEF Full
  <2> QED BY <2>2, <2>3, <2>5 DEF AfpHasTheSessions
<1> QED
  BY <1>1, <1>2 DEF OpenSession

LEMMA SessionRequestAfp ==
  ASSUME TypeOK, Lines, AfpHasTheSessions, NEW n \in Nodes, toServer[n] # <<>>,
         SessionRequest(n, Head(toServer[n]))
  PROVE  AfpHasTheSessions'
<1> PICK f \in Frames : f = Head(toServer[n]) /\ f.id \in Ids
  BY ReceivedIs DEF SessionRequest
<1>1. sessions[f.id] # None
  BY DEF SessionRequest, Mine
<1>2. CASE Heard(f.id) /\ afp' = afp
  BY <1>1, <1>2, HeardType, AfpStays
<1>3. CASE Heard(f.id) /\ afp' = [afp EXCEPT ![f.id] = "in"]
  <2>1. \A id \in Ids : sessions'[id] = None <=> sessions[id] = None
    BY <1>1, <1>3, HeardType
  <2>2. \A id \in Ids : afp'[id] # "none" <=> afp[id] # "none"
    BY <1>1, <1>3 DEF AfpHasTheSessions, TypeOK
  <2> QED BY <2>1, <2>2, OpenIdsShrink DEF AfpHasTheSessions
<1>4. CASE sessions' = [sessions EXCEPT ![f.id] = None] /\ afp' = [afp EXCEPT ![f.id] = "none"]
  <2>1. \A id \in Ids : sessions'[id] # None <=> (sessions[id] # None /\ id # f.id)
    BY <1>4 DEF TypeOK
  <2>2. \A id \in Ids : afp'[id] # "none" <=> (afp[id] # "none" /\ id # f.id)
    BY <1>4 DEF TypeOK
  <2> QED BY <2>1, <2>2, OpenIdsShrink DEF AfpHasTheSessions
<1> QED
  BY <1>2, <1>3, <1>4 DEF SessionRequest

\* The sessions a tick leaves.
LEMMA TickEnds ==
  ASSUME TypeOK, Tick
  PROVE  \A id \in Ids : /\ sessions'[id] # None <=> sessions[id] # None /\ ~TimedOut(id)
                         /\ sessions'[id] # None => sessions'[id].born = sessions[id].born
<1> SUFFICES ASSUME NEW id \in Ids
             PROVE  /\ sessions'[id] # None <=> sessions[id] # None /\ ~TimedOut(id)
                    /\ sessions'[id] # None => sessions'[id].born = sessions[id].born
  OBVIOUS
<1>1. CASE sessions[id] = None \/ TimedOut(id)
  BY <1>1 DEF Tick
<1>2. CASE sessions[id] # None /\ ~TimedOut(id)
  <2> PICK s \in Session : s = sessions[id] /\ s.silent + 1 \in 0..SessionTimeout
    BY <1>2, SessionAt DEF TimedOut, Session
  <2>1. [s EXCEPT !.silent = @ + 1] \in Session /\ [s EXCEPT !.silent = @ + 1].born = s.born
    BY DEF Session
  <2>2. sessions'[id] = [s EXCEPT !.silent = @ + 1]
    BY <1>2 DEF Tick
  <2> QED BY <1>2, <2>1, <2>2
<1> QED BY <1>1, <1>2

LEMMA TickAfp ==
  ASSUME TypeOK, AfpHasTheSessions, Tick
  PROVE  AfpHasTheSessions'
<1>1. \A id \in Ids : afp'[id] # "none" <=> afp[id] # "none" /\ ~TimedOut(id)
  BY DEF Tick, AfpAfterTick
<1> QED
  BY <1>1, TickEnds, OpenIdsShrink DEF AfpHasTheSessions

LEMMA AfpKept ==
  ASSUME TypeOK, Lines, AfpHasTheSessions, [Next]_vars
  PROVE  AfpHasTheSessions'
<1>1. CASE afp' = afp /\ sessions' = sessions
  BY <1>1, AfpStays
<1>2. ASSUME NEW n \in Nodes, ClientStep(n)
      PROVE  AfpHasTheSessions'
  BY <1>1, <1>2, ClientStepIs DEF server
<1>3. ASSUME NEW n \in Nodes, Receive(n)
      PROVE  AfpHasTheSessions'
  <2> DEFINE f == Head(toServer[n])
  <2>1. CASE TickleHeard(n, f)
    <3>1. Mine(n, f.id) => f.id \in Ids /\ sessions[f.id] # None
      BY <1>3, <2>1, ReceivedIs DEF TickleHeard, Mine, Receive
    <3> QED BY <1>1, <2>1, <3>1, HeardType, AfpStays DEF TickleHeard
  <2>2. CASE Retry(n, f) \/ Release(n, f) \/ Stray(n, f) \/ Data(n, f)
    BY <1>1, <2>2 DEF Retry, Release, Stray, Data, server
  <2> HIDE DEF f
  <2> QED BY <1>3, <2>1, <2>2, OpenSessionAfp, SessionRequestAfp DEF Receive, f
<1> QED
  BY <1>1, <1>2, <1>3, TickAfp, StepIs DEF vars

-----------------------------------------------------------------------------
(* The writes that wait for their data.                                    *)

Continue == [key : Keys, run : Nat, id : Ids, born : Nat, retries : 0..WriteRetries]

LEMMA ContinueIs ==
  ASSUME TypeOK, NEW c \in continues
  PROVE  /\ c \in Continue /\ c.key \in Keys /\ c.id \in Ids /\ c.born \in Nat /\ c.run \in Nat
         /\ c.retries \in 0..WriteRetries
         /\ c.key[1] \in Nodes /\ c.key[2] \in 1..MaxTID /\ c.key[2] \in 0..MaxTID
         /\ c.key = <<c.key[1], c.key[2]>>
BY SMTT(30) DEF TypeOK, Continue, Keys

\* The answer to a request leaves how long it is kept.
LEMMA AnswerKeeps ==
  ASSUME NEW base \in [Keys -> Response \cup {None}], NEW k \in Keys, NEW frame \in Frames,
         NEW isNil \in BOOLEAN, Answer(base, k, frame, isNil)
  PROVE  \A j \in Keys : base[j] # None => kept'[j] # None /\ kept'[j].left = base[j].left
<1>1. CASE kept' = base
  BY <1>1
<1>2. CASE kept' = Kept(base, k, frame) /\ base[k] # None
  <2>1. base[k] \in Response
    BY <1>2
  <2>2. [base[k] EXCEPT !.answer = frame] \in Response
        /\ [base[k] EXCEPT !.answer = frame].left = base[k].left
    BY <2>1 DEF Response
  <2>3. kept' = [base EXCEPT ![k] = [base[k] EXCEPT !.answer = frame]]
    BY <1>2 DEF Kept
  <2> QED BY <2>2, <2>3
<1> QED
  BY <1>1, <1>2 DEF Answer, Kept

\* The writes that wait wait on, if nothing of what is kept goes.
LEMMA HeldStays ==
  ASSUME TypeOK, TypeOK', \A m \in Nodes : LineKept(m), NEW c \in continues, Held(c),
         kept[c.key] # None =>
           \/ kept'[c.key] # None /\ kept'[c.key].left >= kept[c.key].left
           \/ Past(c.key[1], c.key[2])' /\ Clear(c.key[1], c.key[2])'
  PROVE  Held(c)'
<1>1. kept[c.key] # None => kept[c.key].left \in 0..KeptTime
  BY ContinueIs DEF TypeOK, Response
<1>2. kept'[c.key] # None => kept'[c.key].left \in 0..KeptTime
  BY ContinueIs DEF TypeOK, Response
<1>3. c.retries \in 0..WriteRetries
  BY ContinueIs
<1>4. Past(c.key[1], c.key[2]) /\ Clear(c.key[1], c.key[2])
        => Past(c.key[1], c.key[2])' /\ Clear(c.key[1], c.key[2])'
  BY ContinueIs DEF LineKept
<1> QED
  BY <1>1, <1>2, <1>3, <1>4 DEF Held

Waiting == (\A c \in continues : Held(c)) /\ WorkedOutOnce

\* Of writes none of which is new, nothing has to be said but that.
LEMMA NoneIsNew ==
  ASSUME TypeOK, TypeOK', \A m \in Nodes : LineKept(m), Waiting, continues' \subseteq continues,
         \A c \in continues : kept[c.key] # None =>
           \/ kept'[c.key] # None /\ kept'[c.key].left >= kept[c.key].left
           \/ Past(c.key[1], c.key[2])' /\ Clear(c.key[1], c.key[2])'
  PROVE  Waiting'
<1>1. \A c \in continues' : Held(c)'
  BY HeldStays DEF Waiting
<1>2. WorkedOutOnce'
  BY DEF Waiting, WorkedOutOnce
<1> QED
  BY <1>1, <1>2 DEF Waiting

\* What is kept of a new request is kept as long as any.
LEMMA KeptAnew ==
  ASSUME TypeOK, TypeOK', NEW k \in Keys,
         \/ kept' = KeepNew(k)
         \/ \E frame \in Frames, isNil \in BOOLEAN : Answer(KeepNew(k), k, frame, isNil)
  PROVE  \A j \in Keys : /\ kept[j] # None \/ j = k =>
                              kept'[j] # None /\ kept'[j].left \in 0..KeptTime
                         /\ kept[j] # None => kept'[j].left >= kept[j].left
                         /\ j = k => kept'[j].left = KeptTime
<1>1. \A j \in Keys : /\ kept[j] # None => kept[j].left \in 0..KeptTime
                      /\ kept'[j] # None => kept'[j].left \in 0..KeptTime
  BY DEF TypeOK, Response
<1> PICK base \in [Keys -> Response \cup {None}] :
      /\ base = KeepNew(k) /\ base[k] # None /\ base[k].left = KeptTime
      /\ \A j \in Keys \ {k} : base[j] = kept[j]
  BY KeepNewType
<1>2. \A j \in Keys : base[j] # None => kept'[j] # None /\ kept'[j].left = base[j].left
  BY AnswerKeeps
<1> QED
  BY <1>1, <1>2

LEMMA RequestWaiting ==
  ASSUME TypeOK, TypeOK', \A m \in Nodes : LineKept(m), Lines, Waiting, NEW n \in Nodes,
         toServer[n] # <<>>,
         LET f == Head(toServer[n])
         IN  OpenSession(n, f) \/ Stray(n, f) \/ SessionRequest(n, f)
  PROVE  Waiting'
<1> PICK f \in Frames : f = Head(toServer[n]) /\ f = toServer[n][1] /\ 1 \in 1..Len(toServer[n])
  BY QueueLen, HeadTailProperties, EmptySeq, LenProperties
<1>8. /\ f.id \in 0..MaxID /\ f.tid \in 0..MaxTID /\ f.run \in Nat
      /\ f.kind \in Requests => <<n, f.tid>> \in Keys
      /\ f.kind \in Calls => f.id \in Ids
  BY ReceivedIs
<1>1. f.kind \in Requests /\ kept[<<n, f.tid>>] = None
  BY DEF OpenSession, Stray, SessionRequest, Requests
<1> PICK k \in Keys : k = <<n, f.tid>> /\ kept[k] = None
  BY <1>1, <1>8
<1>2. /\ Frame("refusal", f.tid, 0, 0) \in Frames
      /\ Frame("answer", f.tid, f.id, 0) \in Frames
      /\ ~Full => Frame("answer", f.tid, FreshId, 0) \in Frames
  <2>1. 0 \in 0..MaxID /\ 0 \in Nat
    BY ONLY ASPAssumption
  <2>2. ~Full => FreshId \in 0..MaxID
    BY FreshIdIs DEF TypeOK, Ids
  <2> QED BY <1>8, <2>1, <2>2 DEF Frame, Frames
<1>3. \/ kept' = KeepNew(k)
      \/ \E frame \in Frames, isNil \in BOOLEAN : Answer(KeepNew(k), k, frame, isNil)
  BY <1>2 DEF OpenSession, Stray, SessionRequest
<1>4. \A j \in Keys : /\ kept[j] # None \/ j = k =>
                           kept'[j] # None /\ kept'[j].left \in 0..KeptTime
                      /\ kept[j] # None => kept'[j].left >= kept[j].left
                      /\ j = k => kept'[j].left = KeptTime
  BY <1>3, KeptAnew
<1>5. CASE continues' = continues
  BY <1>4, <1>5, NoneIsNew, ContinueIs
<1>6. ASSUME NEW d \in Continue, d.key = k, d.retries = WriteRetries,
             continues' = continues \cup {d}
      PROVE  Waiting'
  <2>1. \A c \in continues : Held(c)'
    BY <1>4, HeldStays, ContinueIs DEF Waiting
  <2>2. Held(d)'
    BY <1>4, <1>6 DEF Held
  <2>3. ASSUME NEW c \in continues, c.key = k
        PROVE  d.retries - c.retries > KeptTime
    <3>1. ~Clear(n, f.tid)
      BY <1>1 DEF Clear
    <3> QED BY <1>6, <2>3, <3>1 DEF Waiting, Held
  <2>4. WorkedOutOnce'
    BY <1>6, <2>3 DEF WorkedOutOnce, Waiting
  <2> QED BY <1>6, <2>1, <2>2, <2>4 DEF Waiting
<1>7. ASSUME f.id \in Ids, sessions[f.id] # None,
             continues' = continues \cup {[key |-> k, run |-> ran[k] + 1, id |-> f.id,
                            born |-> sessions[f.id].born, retries |-> WriteRetries]}
      PROVE  Waiting'
  <2>1. ran[k] + 1 \in Nat /\ sessions[f.id].born \in Nat
    BY <1>7, SessionAt DEF TypeOK
  <2> DEFINE d == [key |-> k, run |-> ran[k] + 1, id |-> f.id, born |-> sessions[f.id].born,
                   retries |-> WriteRetries]
  <2>2. d \in Continue /\ d.key = k /\ d.retries = WriteRetries
    BY <1>7, <2>1 DEF Continue
  <2>3. continues' = continues \cup {d}
    BY <1>7
  <2> HIDE DEF d
  <2> QED BY <1>6, <2>2, <2>3
<1>9. CASE SessionRequest(n, f)
  <2>1. f.id \in Ids /\ sessions[f.id] # None
    BY <1>8, <1>9 DEF SessionRequest, Mine
  <2>2. \/ continues' = continues
        \/ continues' = continues \cup {[key |-> k, run |-> ran[k] + 1, id |-> f.id,
                            born |-> sessions[f.id].born, retries |-> WriteRetries]}
    BY <1>9 DEF SessionRequest
  <2> QED BY <1>5, <1>7, <2>1, <2>2
<1>10. CASE OpenSession(n, f) \/ Stray(n, f)
  BY <1>5, <1>10 DEF OpenSession, Stray
<1> QED
  BY <1>9, <1>10

\* The writes a tick leaves waiting.
LEMMA TickContinues ==
  ASSUME TypeOK, Tick
  PROVE  \A c \in continues' : \E d \in continues :
           /\ d.retries > 0 /\ c.retries = d.retries - 1 /\ c.key = d.key
           /\ c.id = d.id /\ c.born = d.born /\ c = [d EXCEPT !.retries = @ - 1]
<1> SUFFICES ASSUME NEW c \in continues'
             PROVE  \E d \in continues :
                      /\ d.retries > 0 /\ c.retries = d.retries - 1 /\ c.key = d.key
                      /\ c.id = d.id /\ c.born = d.born /\ c = [d EXCEPT !.retries = @ - 1]
  OBVIOUS
<1> PICK d \in continues : d.retries > 0 /\ c = [d EXCEPT !.retries = @ - 1]
  BY DEF Tick, Continued
<1>1. d \in Continue
  BY ContinueIs
<1>2. c.retries = d.retries - 1 /\ c.key = d.key /\ c.id = d.id /\ c.born = d.born
  BY <1>1 DEF Continue
<1> QED BY <1>2

LEMMA TickWaiting ==
  ASSUME TypeOK, TypeOK', \A m \in Nodes : LineKept(m), Waiting, Tick
  PROVE  Waiting'
<1>1. ASSUME NEW c \in continues'
      PROVE  \E d \in continues : /\ d.retries > 0 /\ c.retries = d.retries - 1 /\ c.key = d.key
                                  /\ c = [d EXCEPT !.retries = @ - 1]
  BY TickContinues
<1>2. ASSUME NEW c \in continues'
      PROVE  Held(c)'
  <2> PICK d \in continues : d.retries > 0 /\ c.retries = d.retries - 1 /\ c.key = d.key
    BY <1>1
  <2> PICK k \in Keys : k = d.key /\ k[1] \in Nodes /\ k[2] \in 0..MaxTID
    BY ContinueIs
  <2>1. d.retries \in 0..WriteRetries /\ Held(d)
    BY ContinueIs DEF Waiting
  <2>2. Past(k[1], k[2]) /\ Clear(k[1], k[2]) => Past(k[1], k[2])' /\ Clear(k[1], k[2])'
    BY DEF LineKept
  <2>3. kept[k] # None => kept[k] \in Response /\ kept[k].left \in 0..KeptTime
    BY DEF TypeOK, Response
  <2>4. CASE kept[k] = None
    BY <2>1, <2>2, <2>4 DEF Held
  <2>5. CASE kept[k] # None /\ kept[k].left = 0
    BY <2>1, <2>2, <2>5 DEF Held
  <2>6. CASE kept[k] # None /\ kept[k].left # 0
    <3> PICK r \in Response : r = kept[k] /\ r.left \in 1..KeptTime
      BY <2>3, <2>6
    <3>1. kept'[k] = [r EXCEPT !.left = @ - 1]
      BY <2>6 DEF Tick
    <3>2. [r EXCEPT !.left = @ - 1] \in Response /\ [r EXCEPT !.left = @ - 1].left = r.left - 1
      BY DEF Response
    <3> QED BY <2>1, <2>2, <3>1, <3>2 DEF Held
  <2> QED BY <2>4, <2>5, <2>6
<1>3. WorkedOutOnce'
  <2> SUFFICES ASSUME NEW c \in continues', NEW d \in continues', c.key = d.key, c # d
               PROVE  c.retries - d.retries > KeptTime \/ d.retries - c.retries > KeptTime
    BY DEF WorkedOutOnce
  <2> PICK a \in continues : /\ a.retries > 0 /\ c.retries = a.retries - 1 /\ c.key = a.key
                             /\ c = [a EXCEPT !.retries = @ - 1]
    BY <1>1
  <2> PICK b \in continues : /\ b.retries > 0 /\ d.retries = b.retries - 1 /\ d.key = b.key
                             /\ d = [b EXCEPT !.retries = @ - 1]
    BY <1>1
  <2>1. a.retries - b.retries > KeptTime \/ b.retries - a.retries > KeptTime
    BY DEF Waiting, WorkedOutOnce
  <2>2. a.retries \in 0..WriteRetries /\ b.retries \in 0..WriteRetries
    BY ContinueIs
  <2> QED BY <2>1, <2>2
<1> QED
  BY <1>2, <1>3 DEF Waiting

LEMMA WaitingKept ==
  ASSUME TypeOK, TypeOK', Lines, Waiting, [Next]_vars
  PROVE  Waiting'
<1>1. \A m \in Nodes : LineKept(m)
  BY LinesKept
<1>2. CASE continues' = continues /\ kept' = kept
  <2>1. \A c \in continues : kept[c.key] # None => kept[c.key].left \in Nat
    BY ContinueIs DEF TypeOK, Response
  <2> QED BY <1>1, <1>2, <2>1, NoneIsNew
<1>3. ASSUME NEW n \in Nodes, ClientStep(n)
      PROVE  Waiting'
  BY <1>2, <1>3, ClientStepIs DEF server
<1>4. ASSUME NEW n \in Nodes, Receive(n)
      PROVE  Waiting'
  <2> PICK f \in Frames : f = Head(toServer[n]) /\ f.tid \in 0..MaxTID
    BY <1>4, ReceivedIs DEF Receive
  <2>1. CASE Retry(n, f) \/ TickleHeard(n, f)
    BY <1>2, <2>1 DEF Retry, TickleHeard, server
  <2>2. CASE Release(n, f)
    <3>1. Past(n, f.tid)' /\ Clear(n, f.tid)'
      BY <1>4, <2>2, ReceiveLine DEF Receive, Release
    <3>2. \A c \in continues : kept[c.key] # None => kept[c.key].left \in Nat
      BY ContinueIs, SMTT(30) DEF TypeOK, Response
    <3>3. \A c \in continues : c.key # <<n, f.tid>> => kept'[c.key] = kept[c.key]
      BY <2>2, ContinueIs DEF Release, TypeOK
    <3>4. \A c \in continues : c.key = <<n, f.tid>> => c.key[1] = n /\ c.key[2] = f.tid
      BY ContinueIs
    <3>5. continues' = continues
      BY <2>2 DEF Release
    <3>6. \A c \in continues : kept[c.key] # None =>
           \/ kept'[c.key] # None /\ kept'[c.key].left >= kept[c.key].left
           \/ Past(c.key[1], c.key[2])' /\ Clear(c.key[1], c.key[2])'
      BY <3>1, <3>2, <3>3, <3>4
    <3> QED BY <1>1, <3>5, <3>6, NoneIsNew
  <2>3. CASE Data(n, f)
    <3>1. continues' \subseteq continues
      BY <2>3 DEF Data
    <3>2. \A j \in Keys : kept[j] # None => kept'[j] # None /\ kept'[j].left = kept[j].left
      <4>1. CASE kept' = kept
        BY <4>1
      <4>2. ASSUME NEW c \in continues, Answer(kept, c.key, Frame("answer", f.tid, c.id, 0), FALSE)
            PROVE  \A j \in Keys : kept[j] # None => kept'[j] # None /\ kept'[j].left = kept[j].left
        <5>1. Frame("answer", f.tid, c.id, 0) \in Frames /\ c.key \in Keys
          BY ContinueIs DEF Frame, Frames, Ids
        <5>2. kept \in [Keys -> Response \cup {None}]
          BY DEF TypeOK
        <5> QED BY <4>2, <5>1, <5>2, AnswerKeeps
      <4> QED BY <2>3, <4>1, <4>2 DEF Data
    <3>3. \A j \in Keys : kept[j] # None => kept[j].left \in Nat
      BY DEF TypeOK, Response
    <3> QED BY <1>1, <3>1, <3>2, <3>3, NoneIsNew, ContinueIs
  <2> QED BY <1>1, <1>4, <2>1, <2>2, <2>3, RequestWaiting DEF Receive
<1> QED
  BY <1>1, <1>2, <1>3, <1>4, TickWaiting, StepIs DEF vars

-----------------------------------------------------------------------------
(* The ids of the writes that wait.                                        *)

LEMMA FreeAheadIsFinite ==
  \A id : IsFiniteSet(FreeAhead(id)) /\ Cardinality(FreeAhead(id)) \in Nat
<1>1. \A id : FreeAhead(id) \subseteq Ids
  BY DEF FreeAhead
<1> QED
  BY <1>1, OpenIdsAreFinite, FS_Subset, FS_CardinalityType

\* Sessions that end leave the room there was.
LEMMA RoomStays ==
  ASSUME TypeOK, born' = born, nextID' = nextID,
         \A j \in Ids : sessions'[j] # None => sessions[j] # None,
         NEW id \in Ids, NEW b \in Nat, Room(id, b)
  PROVE  Room(id, b)'
<1> PICK old : old = FreeAhead(id) /\ IsFiniteSet(old) /\ Cardinality(old) \in Nat
  BY FreeAheadIsFinite
<1> PICK now : now = FreeAhead(id)'
  OBVIOUS
<1>1. old \subseteq now /\ now \subseteq Ids
  BY DEF FreeAhead
<1>2. IsFiniteSet(now) /\ Cardinality(now) \in Nat /\ Cardinality(old) <= Cardinality(now)
  BY <1>1, OpenIdsAreFinite, FS_Subset, FS_CardinalityType
<1>3. born \in Nat /\ Spare \in Nat
  BY DEF TypeOK, Spare
<1>4. Room(id, b)' <=> born - b > Spare \/ Cardinality(now) + (born - b) >= Spare
  BY DEF Room, Spare
<1> QED
  BY <1>2, <1>3, <1>4 DEF Room

\* A session opened uses one of the ids there were, and the id it is given had
\* come round.
Opens(id, s) ==
  /\ ~Full /\ nextID' = id /\ born' = born + 1
  /\ s # None /\ sessions' = [sessions EXCEPT ![id] = s]

LEMMA RoomOpens ==
  ASSUME TypeOK, NEW s, Opens(FreshId, s), NEW id \in Ids, NEW b \in Nat, Room(id, b)
  PROVE  /\ Room(id, b)'
         /\ id = FreshId => born' - b > Spare
<1> PICK new \in Ids : new = FreshId /\ \A j \in Ids : Between(nextID, j, new) => j \in OpenIds
  BY FreshIdIs DEF TypeOK, Opens
<1> PICK old : old = FreeAhead(id) /\ IsFiniteSet(old) /\ Cardinality(old) \in Nat
  BY FreeAheadIsFinite
<1>1. born \in Nat /\ Spare \in Nat /\ born' = born + 1 /\ nextID \in 0..MaxID
  BY DEF TypeOK, Spare, Opens
<1>2. Room(id, b) <=> born - b > Spare \/ Cardinality(old) + (born - b) >= Spare
  BY DEF Room
<1>3. \A j \in old : j \in Ids /\ Between(nextID, j, id) /\ ~Between(nextID, j, new)
                     /\ sessions[j] = None
  BY DEF FreeAhead, OpenIds
<1>4. CASE id = new \/ ~Between(nextID, new, id)
  <2>1. old = {}
    <3> SUFFICES ASSUME NEW j \in old PROVE FALSE
      OBVIOUS
    <3> QED BY <1>1, <1>3, <1>4 DEF Between, Ids
  <2>2. Cardinality(old) = 0
    BY <2>1, FS_EmptySet
  <2>3. born' - b > Spare
    BY <1>1, <1>2, <2>2
  <2>4. Room(id, b)'
    BY <2>3 DEF Room, Spare
  <2> QED BY <2>3, <2>4
<1>5. CASE id # new /\ Between(nextID, new, id)
  <2> PICK now : now = FreeAhead(id)'
    OBVIOUS
  <2>1. now = {j \in Ids : Between(new, j, id) /\ sessions'[j] = None}
    BY DEF FreeAhead, Opens
  <2>2. old \subseteq now \cup {new}
    <3> SUFFICES ASSUME NEW j \in old, j # new PROVE j \in now
      OBVIOUS
    <3>1. Between(new, j, id)
      BY <1>1, <1>3, <1>5 DEF Between, Ids
    <3>2. sessions'[j] = None
      BY <1>3 DEF Opens, TypeOK
    <3> QED BY <1>3, <2>1, <3>1, <3>2
  <2>3. now \subseteq Ids
    BY <2>1
  <2>4. IsFiniteSet(now) /\ Cardinality(now) \in Nat
    BY <2>3, OpenIdsAreFinite, FS_Subset, FS_CardinalityType
  <2>5. IsFiniteSet(now \cup {new}) /\ Cardinality(now \cup {new}) <= Cardinality(now) + 1
    <3>1. /\ IsFiniteSet(now \cup {new})
          /\ Cardinality(now \cup {new}) = IF new \in now THEN Cardinality(now) ELSE Cardinality(now) + 1
      BY ONLY <2>4, FS_AddElement
    <3> QED BY <2>4, <3>1
  <2>6. Cardinality(old) <= Cardinality(now) + 1
    BY <2>2, <2>4, <2>5, FS_Subset, FS_CardinalityType
  <2>7. Room(id, b)' <=> born' - b > Spare \/ Cardinality(now) + (born' - b) >= Spare
    BY DEF Room, Spare
  <2> QED BY <1>1, <1>2, <1>5, <2>4, <2>6, <2>7
<1> QED
  BY <1>4, <1>5

\* All the ids but those taken are before the id of a new session.
LEMMA RoomNew ==
  ASSUME TypeOK, TypeOK', AfpHasTheSessions', NEW s, NEW new \in Ids, Opens(new, s), NEW b, b = born'
  PROVE  Room(new, b)'
<1> PICK open : open = OpenIds'
  OBVIOUS
<1>1. open \subseteq Ids /\ Cardinality(open) <= MaxSessions /\ new \in open
  BY DEF OpenIds, AfpHasTheSessions, Opens, TypeOK
<1>2. \A j \in Ids : Between(new, j, new) <=> j # new
  BY DEF Between, Ids
<1> PICK now : now = FreeAhead(new)'
  OBVIOUS
<1>3. now = Ids \ open
  BY <1>1, <1>2 DEF FreeAhead, OpenIds, Opens
<1>4. IsFiniteSet(open) /\ Cardinality(open) \in Nat
  BY <1>1, OpenIdsAreFinite, FS_Subset, FS_CardinalityType
<1>5. Cardinality(Ids \ open) = MaxID - Cardinality(open)
  <2>1. Ids \cap open = open
    BY <1>1
  <2>2. IsFiniteSet(Ids) /\ Cardinality(Ids) = MaxID
    BY OpenIdsAreFinite
  <2>3. Cardinality(Ids \ open) = Cardinality(Ids) - Cardinality(Ids \cap open)
    BY ONLY <2>2, FS_Difference
  <2> QED BY <2>1, <2>2, <2>3
<1>6. b \in Nat
  BY DEF TypeOK
<1>7. Cardinality(now) >= Spare
  BY <1>1, <1>3, <1>4, <1>5 DEF Spare
<1>8. Cardinality(now) + (b - b) >= Spare
  BY <1>1, <1>3, <1>4, <1>5, <1>6, <1>7
<1> QED
  BY <1>8 DEF Room, Spare

LEMMA BirthsStay ==
  ASSUME TypeOK, Births, born' = born, nextID' = nextID,
         \A id \in Ids : sessions'[id] # None =>
           sessions[id] # None /\ sessions'[id].born = sessions[id].born,
         \A c \in continues' : c.id \in Ids /\
           \/ \E d \in continues : d.id = c.id /\ d.born = c.born
           \/ sessions[c.id] # None /\ c.born = sessions[c.id].born
  PROVE  Births'
<1>1. ASSUME NEW id \in Ids, sessions'[id] # None
      PROVE  (sessions[id].born <= born /\ Room(id, sessions[id].born))'
  <2> PICK b \in Nat : b = sessions[id].born
    BY <1>1, SessionAt
  <2>1. b <= born /\ Room(id, b) /\ b = sessions'[id].born
    BY <1>1 DEF Births
  <2>2. Room(id, b)'
    BY <2>1, RoomStays
  <2> QED BY <2>1, <2>2 DEF Room
<1>2. ASSUME NEW c \in continues'
      PROVE  (Room(c.id, c.born) /\ (sessions[c.id] # None =>
               sessions[c.id].born = c.born \/ sessions[c.id].born - c.born > Spare))'
  <2> PICK id \in Ids : id = c.id
    BY <1>2
  <2>1. CASE \E d \in continues : d.id = c.id /\ d.born = c.born
    <3> PICK d \in continues : d.id = id /\ d.born = c.born /\ d.born \in Nat
      BY <2>1, ContinueIs
    <3>1. Room(id, d.born)'
      BY RoomStays DEF Births
    <3>2. sessions'[id] # None =>
            sessions'[id].born = c.born \/ sessions'[id].born - c.born > Spare
      BY DEF Births
    <3> QED BY <3>1, <3>2 DEF Spare
  <2>2. CASE sessions[id] # None /\ c.born = sessions[id].born
    <3>1. c.born \in Nat /\ Room(id, c.born)
      BY <2>2, SessionAt DEF Births
    <3>2. Room(id, c.born)'
      BY <3>1, RoomStays
    <3> QED BY <2>2, <3>2
  <2> QED BY <1>2, <2>1, <2>2
<1> QED
  BY <1>1, <1>2 DEF Births

LEMMA BirthsOpen ==
  ASSUME TypeOK, TypeOK', Births, AfpHasTheSessions', NEW s, Opens(FreshId, s),
         s.born = born', continues' = continues
  PROVE  Births'
<1> PICK new \in Ids : new = FreshId
  BY FreshIdIs DEF TypeOK, Opens
<1> PICK b \in Nat : b = born' /\ s.born = b /\ b = born + 1 /\ b > born
  BY DEF TypeOK, Opens
<1>1. Opens(new, s) /\ sessions'[new] = s /\ \A id \in Ids \ {new} : sessions'[id] = sessions[id]
  BY DEF Opens, TypeOK
<1>2. Room(new, b)'
  BY <1>1, RoomNew
<1>3. ASSUME NEW id \in Ids, NEW a \in Nat, Room(id, a)
      PROVE  Room(id, a)' /\ (id = new => b - a > Spare)
  BY <1>3, RoomOpens
<1>4. born \in Nat
  BY DEF TypeOK
<1>5. ASSUME NEW id \in Ids, sessions'[id] # None
      PROVE  (sessions[id].born <= born /\ Room(id, sessions[id].born))'
  <2>1. CASE id = new
    BY <1>1, <1>2, <2>1 DEF Room
  <2>2. CASE id # new
    <3> PICK a \in Nat : a = sessions[id].born /\ a = sessions'[id].born
      BY <1>1, <1>5, <2>2, SessionAt
    <3>1. a <= born /\ Room(id, a)
      BY <1>1, <1>5, <2>2 DEF Births
    <3>2. Room(id, a)'
      BY <1>3, <3>1
    <3> QED BY <1>4, <3>1, <3>2 DEF Room
  <2> QED BY <2>1, <2>2
<1>6. ASSUME NEW c \in continues
      PROVE  (Room(c.id, c.born) /\ (sessions[c.id] # None =>
               sessions[c.id].born = c.born \/ sessions[c.id].born - c.born > Spare))'
  <2>1. c.id \in Ids /\ c.born \in Nat /\ Room(c.id, c.born)
    BY ContinueIs DEF Births
  <2>2. Room(c.id, c.born)' /\ (c.id = new => b - c.born > Spare)
    BY <1>3, <2>1
  <2>3. sessions'[c.id] # None =>
          sessions'[c.id].born = c.born \/ sessions'[c.id].born - c.born > Spare
    BY <1>1, <2>1, <2>2 DEF Births
  <2> QED BY <2>2, <2>3 DEF Spare
<1> QED
  BY <1>5, <1>6 DEF Births

LEMMA BirthsKept ==
  ASSUME TypeOK, TypeOK', Lines, Births, AfpHasTheSessions', [Next]_vars
  PROVE  Births'
<1> DEFINE Ending == \A id \in Ids : sessions'[id] # None =>
                       sessions[id] # None /\ sessions'[id].born = sessions[id].born
           Going == \A c \in continues' : \E d \in continues : d.id = c.id /\ d.born = c.born
           Quiet == born' = born /\ nextID' = nextID
<1>1. ASSUME Quiet, Ending, Going
      PROVE  Births'
  <2>1. ASSUME NEW c \in continues'
        PROVE  c.id \in Ids
    <3> PICK d \in continues : d.id = c.id
      BY <1>1
    <3> QED BY ContinueIs
  <2> QED BY <1>1, <2>1, BirthsStay
<1>2. CASE UNCHANGED <<born, nextID, sessions, continues>>
  BY <1>1, <1>2
<1>3. ASSUME NEW n \in Nodes, ClientStep(n)
      PROVE  Births'
  BY <1>2, <1>3, ClientStepIs DEF server
<1>4. CASE Tick
  <2>1. Quiet
    BY <1>4 DEF Tick
  <2>2. Ending
    BY <1>4, TickEnds
  <2>3. Going
    BY <1>4, TickContinues
  <2> QED BY <1>1, <2>1, <2>2, <2>3
<1>5. ASSUME NEW n \in Nodes, Receive(n)
      PROVE  Births'
  <2> PICK f : f = Head(toServer[n]) /\ toServer[n] # <<>>
    BY <1>5 DEF Receive
  <2>1. f.id \in 0..MaxID /\ (f.kind \in Calls \cup {"tickle"} => f.id \in Ids)
    BY ReceivedIs
  <2>2. CASE Retry(n, f) \/ Release(n, f) \/ Stray(n, f)
    BY <1>2, <2>2 DEF Retry, Release, Stray, server
  <2>3. CASE TickleHeard(n, f)
    <3>1. Quiet /\ Going
      BY <2>3 DEF TickleHeard
    <3>2. Ending
      <4>1. Mine(n, f.id) => f.id \in Ids /\ sessions[f.id] # None
        BY <2>1, <2>3 DEF TickleHeard, Mine
      <4> QED BY <2>3, <4>1, HeardType DEF TickleHeard
    <3> QED BY <1>1, <3>1, <3>2
  <2>4. CASE Data(n, f)
    BY <1>1, <2>4 DEF Data
  <2>5. CASE SessionRequest(n, f)
    <3>1. Quiet /\ f.id \in Ids /\ sessions[f.id] # None
      BY <2>1, <2>5 DEF SessionRequest, Mine
    <3>2. Ending
      <4>1. CASE Heard(f.id)
        BY <3>1, <4>1, HeardType
      <4>2. CASE sessions' = [sessions EXCEPT ![f.id] = None]
        BY <4>2 DEF TypeOK
      <4> QED BY <2>5, <4>1, <4>2 DEF SessionRequest
    <3>3. \A c \in continues' : c.id \in Ids /\
            \/ \E d \in continues : d.id = c.id /\ d.born = c.born
            \/ sessions[c.id] # None /\ c.born = sessions[c.id].born
      <4>1. CASE continues' = continues
        BY <4>1, ContinueIs
      <4>2. CASE continues' = continues \cup {[key |-> <<n, f.tid>>, run |-> ran[<<n, f.tid>>] + 1,
                   id |-> f.id, born |-> sessions[f.id].born, retries |-> WriteRetries]}
        BY <3>1, <4>2, ContinueIs
      <4> QED BY <2>5, <4>1, <4>2 DEF SessionRequest
    <3> QED BY <3>1, <3>2, <3>3, BirthsStay
  <2>6. CASE OpenSession(n, f)
    <3>1. CASE UNCHANGED <<sessions, nextID, afp, born>>
      BY <1>2, <2>6, <3>1 DEF OpenSession
    <3>2. CASE /\ ~Full /\ nextID' = FreshId /\ born' = born + 1
               /\ sessions' = [sessions EXCEPT ![FreshId] = [node |-> n, born |-> born + 1, silent |-> 0]]
      <4> DEFINE s == [node |-> n, born |-> born + 1, silent |-> 0]
      <4>3. s \in Session /\ s.born = born + 1
        <5>1. 0 \in 0..SessionTimeout
          BY ONLY ASPAssumption
        <5>2. born + 1 \in Nat
          BY DEF TypeOK
        <5> QED BY <5>1, <5>2 DEF Session
      <4>4. sessions' = [sessions EXCEPT ![FreshId] = s]
        BY <3>2
      <4> HIDE DEF s
      <4>1. Opens(FreshId, s) /\ s.born = born'
        BY <3>2, <4>3, <4>4 DEF Opens
      <4>2. continues' = continues
        BY <2>6 DEF OpenSession
      <4> QED BY <4>1, <4>2, BirthsOpen
    <3> QED BY <2>6, <3>1, <3>2 DEF OpenSession
  <2> QED BY <1>5, <2>2, <2>3, <2>4, <2>5, <2>6 DEF Receive
<1> QED
  BY <1>2, <1>3, <1>4, <1>5, StepIs DEF vars

LEMMA WritesKept ==
  ASSUME TypeOK, Lines, AfpHasTheSessions, Births, WritesStayInTheirSession, [Next]_vars
  PROVE  WritesStayInTheirSession'
<1>1. CASE wrote' = wrote
  BY <1>1 DEF WritesStayInTheirSession
<1>2. ASSUME NEW n \in Nodes, ClientStep(n)
      PROVE  WritesStayInTheirSession'
  BY <1>1, <1>2, ClientStepIs DEF server
<1>3. ASSUME NEW c \in continues, afp[c.id] = "in",
             wrote' = wrote \cup {<<c.born, sessions[c.id].born>>}
      PROVE  WritesStayInTheirSession'
  <2> PICK b : b = sessions[c.id].born
    OBVIOUS
  <2>1. c.born = b \/ b - c.born > Spare
    BY <1>3, ContinueIs DEF Births, AfpHasTheSessions
  <2> QED BY <1>3, <2>1 DEF WritesStayInTheirSession, Spare
<1>4. ASSUME NEW n \in Nodes, Receive(n)
      PROVE  WritesStayInTheirSession'
  <2> PICK f : f = Head(toServer[n])
    OBVIOUS
  <2>1. CASE Data(n, f)
    BY <1>1, <1>3, <2>1 DEF Data, RunsIn
  <2>2. CASE ~Data(n, f)
    BY <1>1, <1>4, <2>2 DEF Receive, Retry, Release, OpenSession, TickleHeard, Stray, SessionRequest, server
  <2> QED BY <2>1, <2>2
<1>5. CASE Tick
  BY <1>1, <1>5 DEF Tick
<1> QED
  BY <1>1, <1>2, <1>4, <1>5, StepIs DEF vars

-----------------------------------------------------------------------------
(* The theorems.                                                           *)

LEMMA InitIInv == Init => IInv
<1> SUFFICES ASSUME Init PROVE IInv
  OBVIOUS
<1> USE DEF Init
<1>1. TypeOK
  <2>1. 0 \in 0..MaxID /\ 0 \in 0..MaxTID /\ MaxAgain \in 0..MaxAgain
    BY ONLY ASPAssumption
  <2>2. [id |-> 0, asked |-> None, again |-> MaxAgain] \in Client
    BY <2>1 DEF Client
  <2>3. <<>> \in Seq(Frames)
    OBVIOUS
  <2> QED BY <2>1, <2>2, <2>3 DEF TypeOK
<1>2. Lines
  BY DEF Lines, Line
<1>3. AfpHasTheSessions
  <2>1. OpenIds = {}
    BY DEF OpenIds
  <2> QED BY <2>1, FS_EmptySet DEF AfpHasTheSessions
<1>4. (\A c \in continues : Held(c)) /\ WorkedOutOnce /\ Births /\ WritesStayInTheirSession
  BY DEF WorkedOutOnce, Births, WritesStayInTheirSession
<1> QED
  BY <1>1, <1>2, <1>3, <1>4 DEF IInv

LEMMA NextIInv == IInv /\ [Next]_vars => IInv'
<1> SUFFICES ASSUME IInv, [Next]_vars PROVE IInv'
  OBVIOUS
<1>1. TypeOK'
  BY TypeKept DEF IInv
<1>2. Lines'
  BY LinesKept DEF IInv, Lines, LineKept
<1>3. AfpHasTheSessions'
  BY AfpKept DEF IInv
<1>4. Waiting'
  BY <1>1, WaitingKept DEF IInv, Waiting
<1>5. Births' /\ WritesStayInTheirSession'
  BY <1>1, <1>3, BirthsKept, WritesKept DEF IInv
<1> QED
  BY <1>1, <1>2, <1>3, <1>4, <1>5 DEF IInv, Waiting

LEMMA AlwaysIInv == Spec => []IInv
BY InitIInv, NextIInv, PTL DEF Spec

\* Everything is of its type: what is on the way, what is kept, and what the
\* server and the workstations know of the sessions (asp.go, atp.go).
THEOREM TypeCorrect == Spec => []TypeOK
<1>1. IInv => TypeOK
  BY DEF IInv
<1> QED
  BY <1>1, AlwaysIInv, PTL

\* AFP has the sessions the listener has, and there are no more than fit,
\* for any number of workstations and any ids (asp.go:164-185, 239-250).
THEOREM AfpAlwaysHasThem == Spec => []AfpHasTheSessions
<1>1. IInv => AfpHasTheSessions
  BY DEF IInv
<1> QED
  BY <1>1, AlwaysIInv, PTL

\* A write is run in the session it was made in, but if more sessions than
\* MaxID - MaxSessions were opened while it waited (asp.go:173-178, 234).
THEOREM WritesAlwaysStay == Spec => []WritesStayInTheirSession
<1>1. IInv => WritesStayInTheirSession
  BY DEF IInv
<1> QED
  BY <1>1, AlwaysIInv, PTL

\* A write that waits for its data is not run again for as long as it is kept,
\* however it is retried, released or given up (atp.go:143-172).
THEOREM AlwaysWorkedOutOnce == Spec => []WorkedOutOnce
<1>1. IInv => WorkedOutOnce
  BY DEF IInv
<1> QED
  BY <1>1, AlwaysIInv, PTL
=============================================================================
