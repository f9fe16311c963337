-------------------------------- MODULE ASP --------------------------------
(***************************************************************************)
(* The AppleTalk Session Protocol, appletalk/asp.go: the Listener that     *)
(* opens, tickles, times out and closes the sessions workstations run AFP  *)
(* calls in, over the exactly once requests of appletalk/atp.go, and the   *)
(* sessions of afp/server.go under it.                                     *)
(*                                                                         *)
(* Every request is one packet and made exactly once, as the workstations  *)
(* of the tests make theirs; the packets of a response are module ATP's.   *)
(* What a workstation does, which is not this repository's code, is what   *)
(* the client of appletalk/asp_test.go does, and what a Macintosh that is  *)
(* switched off does: it asks again as long as it likes and may forget     *)
(* everything.  A node's transaction ids go up across its sockets, so one  *)
(* map stands for what the listening and the session socket keep.          *)
(*                                                                         *)
(* A tick is the time between two tries of a WriteContinue.  The tickles   *)
(* the server sends are left out: nothing in this repository hears them.   *)
(***************************************************************************)
EXTENDS Integers, Sequences, FiniteSets

CONSTANTS
  Nodes,           \* the workstations
  MaxID,           \* session ids are 1..MaxID, 255 in the code
  MaxSessions,     \* the sessions open at a time, 64 in the code
  MaxTID,          \* how many requests a workstation makes (bound)
  MaxAgain,        \* how often a workstation asks again (bound)
  MaxQueue,        \* the frames on the way from a workstation (bound)
  MaxMail,         \* the frames on the way to one (bound); the older are lost
  KeptTime,        \* the ticks a response is kept, 15 by default
  WriteRetries,    \* the retries of a WriteContinue, 30 in the code
  SessionTimeout,  \* the silent ticks a session lasts, 60 in the code
  None

ASSUME ASPAssumption ==
  /\ IsFiniteSet(Nodes)
  /\ MaxID \in 1..255
  /\ MaxSessions \in Nat
  /\ MaxSessions < MaxID
  /\ {MaxTID, MaxAgain, MaxQueue, MaxMail, KeptTime, WriteRetries, SessionTimeout} \subseteq Nat

Ids == 1..MaxID
Keys == Nodes \X (1..MaxTID)
Calls == {"login", "work", "write", "close"}

VARIABLES
  sessions,       \* Listener.sessions: by id, a session or None
  nextID,         \* Listener.nextID
  afp,            \* afp Server.sessions: by id, "none", "guest" or "in"
  kept,           \* by transaction, what ATP keeps of its response, or None
  continues,      \* the WriteContinues waiting for their data
  toServer,       \* by workstation, the frames on the way from it
  toWorkstation,  \* by workstation, the frames on the way to it
  ws,             \* by workstation, the session it is in and what it asked
  lastTID,        \* by workstation, its last transaction id
  born,           \* history: how many sessions were opened
  ran,            \* history: how often a request was handed to the listener
  wrote           \* history: for the writes AFP ran, the session each was
                  \* made in and the one it ran in

server == <<sessions, nextID, afp, kept, continues, born, ran, wrote>>
workstations == <<ws, lastTID>>
vars == <<sessions, nextID, afp, kept, continues, toServer, toWorkstation,
          ws, lastTID, born, ran, wrote>>

-----------------------------------------------------------------------------
(* The workstations.                                                       *)

Frame(kind, tid, id, run) == [kind |-> kind, tid |-> tid, id |-> id, run |-> run]

\* A frame leaves a workstation.
Send(n, f) ==
  /\ Len(toServer[n]) < MaxQueue
  /\ toServer' = [toServer EXCEPT ![n] = Append(@, f)]

\* A workstation out of a session asks for one; one in a session makes a call.
Ask(n, kind) ==
  LET t == lastTID[n] + 1
  IN  /\ ws[n].asked = None
      /\ kind = "open" <=> ws[n].id = 0
      /\ t <= MaxTID
      /\ lastTID' = [lastTID EXCEPT ![n] = t]
      /\ ws' = [ws EXCEPT ![n].asked = [kind |-> kind, tid |-> t]]
      /\ Send(n, Frame(kind, t, ws[n].id, 0))
      /\ UNCHANGED <<server, toWorkstation>>

\* It asks again what was not answered.
AskAgain(n) ==
  /\ ws[n].asked # None
  /\ ws[n].again > 0
  /\ ws' = [ws EXCEPT ![n].again = @ - 1]
  /\ Send(n, Frame(ws[n].asked.kind, ws[n].asked.tid, ws[n].id, 0))
  /\ UNCHANGED <<server, toWorkstation, lastTID>>

\* It says it is there.
Tickle(n) ==
  /\ ws[n].id # 0
  /\ Send(n, Frame("tickle", 0, ws[n].id, 0))
  /\ UNCHANGED <<server, toWorkstation, workstations>>

\* It is switched off and on, and knows of no session.
Restart(n) ==
  /\ ws[n].id # 0 \/ ws[n].asked # None
  /\ ws' = [ws EXCEPT ![n].id = 0, ![n].asked = None]
  /\ UNCHANGED <<server, toServer, toWorkstation, lastTID>>

\* It stops waiting for an answer.
GiveUp(n) ==
  /\ ws[n].asked # None
  /\ ws' = [ws EXCEPT ![n].asked = None]
  /\ UNCHANGED <<server, toServer, toWorkstation, lastTID>>

\* The session it is in once what it asked is answered.
IdOnceAnswered(n, f) ==
  CASE ws[n].asked.kind = "open" -> f.id
    [] ws[n].asked.kind = "close" -> 0
    [] OTHER -> ws[n].id

\* It takes a frame: an answer to what it asked, which it releases, or a
\* WriteContinue, which it answers with the data whatever it is waiting for.
Hear(n, f) ==
  LET asked == ws[n].asked
      Waiting == asked # None /\ asked.tid = f.tid
  IN  /\ toWorkstation' = [toWorkstation EXCEPT ![n] = @ \ {f}]
      /\ \/ /\ f.kind \in {"answer", "refusal"}
            /\ Waiting
            /\ ws' = [ws EXCEPT ![n].id = IdOnceAnswered(n, f), ![n].asked = None]
            /\ Send(n, Frame("release", f.tid, 0, 0))
         \/ /\ f.kind = "continue"
            /\ Send(n, Frame("data", f.tid, f.id, f.run))
            /\ UNCHANGED ws
         \/ /\ f.kind # "continue"
            /\ ~Waiting
            /\ UNCHANGED <<ws, toServer>>
      /\ UNCHANGED <<server, lastTID>>

-----------------------------------------------------------------------------
(* The exactly once requests of atp.go, as the listener has them.          *)

\* The frames on the way to a workstation once more are sent.
Posted(n, frames) ==
  LET all == toWorkstation[n] \cup frames
  IN  IF Cardinality(all) <= MaxMail THEN all ELSE frames

Post(n, frames) == toWorkstation' = [toWorkstation EXCEPT ![n] = Posted(n, frames)]

\* What is kept once a request is answered, nothing if the request is not.
Kept(base, k, frame) ==
  IF base[k] = None THEN base ELSE [base EXCEPT ![k].answer = frame]

\* The answer to a request goes out and is kept; a nil one, which is an empty
\* packet on the network, is kept as no answer at all.
Answer(base, k, frame, isNil) ==
  /\ kept' = IF isNil THEN base ELSE Kept(base, k, frame)
  /\ Post(k[1], {frame})

\* Mutant of KeepNew: nothing is kept of a request until it is answered.
KeepNothing(k) == kept

\* A request new to the server is kept with no answer, for the listener.
KeepNew(k) == [kept EXCEPT ![k] = [answer |-> None, left |-> KeptTime]]

Take(n) == toServer' = [toServer EXCEPT ![n] = Tail(@)]

\* A request that finds its response kept: it goes again, if it is there.
Retry(n, f) ==
  LET k == <<n, f.tid>>
  IN  /\ f.kind \in Calls \cup {"open"}
      /\ kept[k] # None
      /\ Post(n, {kept[k].answer} \ {None})
      /\ UNCHANGED server

Release(n, f) ==
  /\ f.kind = "release"
  /\ kept' = [kept EXCEPT ![<<n, f.tid>>] = None]
  /\ UNCHANGED <<sessions, nextID, afp, continues, toWorkstation, born, ran, wrote>>

-----------------------------------------------------------------------------
(* The listener.                                                           *)

OpenIds == {id \in Ids : sessions[id] # None}

\* The next id after the last one given that is not taken, passing over zero.
FreshId ==
  LET Ahead(i) == ((nextID + i - 1) % MaxID) + 1
  IN  Ahead(CHOOSE i \in Ids : /\ Ahead(i) \notin OpenIds
                               /\ \A j \in Ids : j < i => Ahead(j) \in OpenIds)

Full == Cardinality(OpenIds) >= MaxSessions

\* openSession, on the listening socket, for the version of ASP spoken here:
\* the refusal of another (asp.go:166-168) answers, and changes no session.
OpenSession(n, f) ==
  LET k == <<n, f.tid>>
      id == FreshId
  IN  /\ f.kind = "open"
      /\ kept[k] = None
      /\ ran' = [ran EXCEPT ![k] = @ + 1]
      /\ \/ /\ Full
            /\ Answer(KeepNew(k), k, Frame("refusal", f.tid, 0, 0), FALSE)
            /\ UNCHANGED <<sessions, nextID, afp, born>>
         \/ /\ ~Full
            /\ nextID' = id
            /\ born' = born + 1
            /\ sessions' = [sessions EXCEPT ![id] =
                 [node |-> n, born |-> born + 1, silent |-> 0]]
            /\ afp' = [afp EXCEPT ![id] = "guest"]
            /\ Answer(KeepNew(k), k, Frame("answer", f.tid, id, 0), FALSE)
      /\ UNCHANGED <<continues, wrote>>

\* A session this workstation has.
Mine(n, id) == sessions[id] # None /\ sessions[id].node = n

\* Mutant of Heard: what is heard of a workstation counts for all its sessions.
HeardAll(id) ==
  sessions' = [other \in Ids |->
    IF sessions[other] # None /\ sessions[other].node = sessions[id].node
    THEN [sessions[other] EXCEPT !.silent = 0] ELSE sessions[other]]

Heard(id) == sessions' = [sessions EXCEPT ![id].silent = 0]

\* listening, of a tickle: it is heard and not answered.
TickleHeard(n, f) ==
  /\ f.kind = "tickle"
  /\ IF Mine(n, f.id) THEN Heard(f.id) ELSE UNCHANGED sessions
  /\ UNCHANGED <<nextID, afp, kept, continues, toWorkstation, born, ran, wrote>>

\* sessionRequest, for a session that is not this workstation's: no answer.
Stray(n, f) ==
  /\ f.kind \in Calls
  /\ kept[<<n, f.tid>>] = None
  /\ ~Mine(n, f.id)
  /\ kept' = KeepNew(<<n, f.tid>>)
  /\ UNCHANGED <<sessions, nextID, afp, continues, toWorkstation, born, ran, wrote>>

\* sessionRequest, for one that is: the call is run.
SessionRequest(n, f) ==
  LET k == <<n, f.tid>>
      reply == Frame("answer", f.tid, f.id, 0)
  IN  /\ f.kind \in Calls
      /\ kept[k] = None
      /\ Mine(n, f.id)
      /\ ran' = [ran EXCEPT ![k] = @ + 1]
      /\ \/ /\ f.kind \in {"login", "work"}
            /\ Heard(f.id)
            /\ afp' = IF f.kind = "login" THEN [afp EXCEPT ![f.id] = "in"] ELSE afp
            /\ Answer(KeepNew(k), k, reply, FALSE)
            /\ UNCHANGED continues
         \/ /\ f.kind = "write"
            /\ Heard(f.id)
            /\ continues' = continues \cup {[key |-> k, run |-> ran[k] + 1, id |-> f.id,
                               born |-> sessions[f.id].born, retries |-> WriteRetries]}
            /\ kept' = KeepNew(k)
            /\ Post(n, {Frame("continue", f.tid, f.id, ran[k] + 1)})
            /\ UNCHANGED afp
         \/ /\ f.kind = "close"
            /\ sessions' = [sessions EXCEPT ![f.id] = None]
            /\ afp' = [afp EXCEPT ![f.id] = "none"]
            /\ Answer(KeepNew(k), k, reply, TRUE)
            /\ UNCHANGED continues
      /\ UNCHANGED <<nextID, born, wrote>>

\* Mutant of RunsIn: in the session the workstation opened last.
RunsInTheLast(c) ==
  CHOOSE id \in OpenIds \cup {c.id} :
    \A other \in OpenIds : sessions[other].node = c.key[1] /\ other # id =>
      sessions[id] # None /\ sessions[other].born < sessions[id].born

\* The session a write is run in: the one it was made in, by its number.
RunsIn(c) == c.id

\* The data of a write is in: AFP runs it, if it still has the session and
\* the workstation logged in to it, and the write is answered.
Data(n, f) ==
  LET mine == {c \in continues : c.key = <<n, f.tid>> /\ c.run = f.run}
  IN  /\ f.kind = "data"
      /\ continues' = continues \ mine
      /\ \/ /\ mine = {}
            /\ UNCHANGED <<kept, toWorkstation, wrote>>
         \/ \E c \in mine :
              /\ wrote' = IF afp[RunsIn(c)] = "in"
                          THEN wrote \cup {<<c.born, sessions[RunsIn(c)].born>>} ELSE wrote
              /\ Answer(kept, c.key, Frame("answer", f.tid, c.id, 0), FALSE)
      /\ UNCHANGED <<sessions, nextID, afp, born, ran>>

\* frame, of whatever a workstation sent.
Receive(n) ==
  LET f == Head(toServer[n])
  IN  /\ toServer[n] # <<>>
      /\ Take(n)
      /\ \/ Retry(n, f)
         \/ Release(n, f)
         \/ OpenSession(n, f)
         \/ TickleHeard(n, f)
         \/ Stray(n, f)
         \/ SessionRequest(n, f)
         \/ Data(n, f)
      /\ UNCHANGED workstations

\* A session its workstation has left.
TimedOut(id) == sessions[id] # None /\ sessions[id].silent >= SessionTimeout

\* Mutant of AfpAfterTick: AFP is not told of the sessions timed out.
AfpUntold == afp

AfpAfterTick == [id \in Ids |-> IF TimedOut(id) THEN "none" ELSE afp[id]]

\* The WriteContinues this tick leaves, those not given up, a retry less each.
Continued == {[c EXCEPT !.retries = @ - 1] : c \in {d \in continues : d.retries > 0}}

\* tick: kept responses whose time is over go, WriteContinues are sent again
\* or given up, their writes never answered, and the sessions left are closed.
Tick ==
  /\ kept' = [k \in Keys |->
       IF kept[k] = None THEN None
       ELSE IF kept[k].left = 0 THEN None
       ELSE [kept[k] EXCEPT !.left = @ - 1]]
  /\ continues' = Continued
  /\ sessions' = [id \in Ids |->
       IF sessions[id] = None \/ TimedOut(id) THEN None
       ELSE [sessions[id] EXCEPT !.silent = @ + 1]]
  /\ afp' = AfpAfterTick
  /\ toWorkstation' = [n \in Nodes |-> Posted(n,
       {Frame("continue", c.key[2], c.id, c.run) : c \in {d \in Continued : d.key[1] = n}})]
  /\ UNCHANGED <<nextID, toServer, workstations, born, ran, wrote>>

\* The network loses a frame.
Lose(n) ==
  /\ \/ /\ toServer[n] # <<>>
        /\ Take(n)
        /\ UNCHANGED toWorkstation
     \/ \E f \in toWorkstation[n] :
          /\ toWorkstation' = [toWorkstation EXCEPT ![n] = @ \ {f}]
          /\ UNCHANGED toServer
  /\ UNCHANGED <<server, workstations>>

-----------------------------------------------------------------------------
Init ==
  /\ sessions = [id \in Ids |-> None]
  /\ nextID = 0
  /\ afp = [id \in Ids |-> "none"]
  /\ kept = [k \in Keys |-> None]
  /\ continues = {}
  /\ toServer = [n \in Nodes |-> <<>>]
  /\ toWorkstation = [n \in Nodes |-> {}]
  /\ ws = [n \in Nodes |-> [id |-> 0, asked |-> None, again |-> MaxAgain]]
  /\ lastTID = [n \in Nodes |-> 0]
  /\ born = 0
  /\ ran = [k \in Keys |-> 0]
  /\ wrote = {}

Next ==
  \/ \E n \in Nodes :
       \/ \E kind \in Calls \cup {"open"} : Ask(n, kind)
       \/ AskAgain(n)
       \/ Tickle(n)
       \/ GiveUp(n)
       \/ Restart(n)
       \/ \E f \in toWorkstation[n] : Hear(n, f)
       \/ Receive(n)
       \/ Lose(n)
  \/ Tick

Spec == Init /\ [][Next]_vars

\* The node's goroutine keeps running its timers.
FairSpec == Spec /\ WF_vars(Tick)

-----------------------------------------------------------------------------
(* Properties.                                                             *)

Session == [node : Nodes, born : Nat, silent : 0..SessionTimeout]

Frames == [kind : Calls \cup {"open", "tickle", "release", "data", "answer", "refusal", "continue"},
           tid : 0..MaxTID, id : 0..MaxID, run : Nat]

Response == [answer : Frames \cup {None}, left : 0..KeptTime]

Request == [kind : Calls \cup {"open"}, tid : 1..MaxTID]

Client == [id : 0..MaxID, asked : Request \cup {None}, again : 0..MaxAgain]

ASSUME NoneIsApart == None \notin Session \cup Frames \cup Response \cup Request

TypeOK ==
  /\ sessions \in [Ids -> Session \cup {None}]
  /\ nextID \in 0..MaxID
  /\ afp \in [Ids -> {"none", "guest", "in"}]
  /\ kept \in [Keys -> Response \cup {None}]
  /\ continues \subseteq [key : Keys, run : Nat, id : Ids, born : Nat, retries : 0..WriteRetries]
  /\ toServer \in [Nodes -> Seq(Frames)]
  /\ toWorkstation \in [Nodes -> SUBSET Frames]
  /\ ws \in [Nodes -> Client]
  /\ lastTID \in [Nodes -> 0..MaxTID]
  /\ born \in Nat
  /\ ran \in [Keys -> Nat]
  /\ wrote \subseteq Nat \X Nat

\* AFP has exactly the sessions the listener has: each is opened and closed
\* there as it is here, whichever way it ends, and there are no more than fit
\* (asp.go:164-185, 239-250).
AfpHasTheSessions ==
  /\ \A id \in Ids : afp[id] # "none" <=> sessions[id] # None
  /\ Cardinality(OpenIds) <= MaxSessions

\* A write whose data comes in after its session is gone is not run in the
\* session another workstation has opened since: ids go round before one is
\* given again, and AFP knows no session by the old one.  For its id to come
\* round while it waits, which is a minute, more than MaxID - MaxSessions
\* sessions have to be opened, 191 in the code (asp.go:173-178, 234).
WritesStayInTheirSession ==
  \A pair \in wrote : pair[1] = pair[2] \/ pair[2] - pair[1] > MaxID - MaxSessions

\* A request still being worked out is not run again when it is retried, for
\* as long as it is kept: of two WriteContinues of the same write, the second
\* was sent after the time of the first was over, which with the shortest
\* release timeout, 15 ticks, is before it is given up, 30 (atp.go:143-147,
\* 157-166 and asp.go:61-64).
WorkedOutOnce ==
  \A c, d \in continues : c.key = d.key /\ c # d =>
    c.retries - d.retries > KeptTime \/ d.retries - c.retries > KeptTime

\* A session its workstation knows nothing of ends.
Left(id) == sessions[id] # None /\ ws[sessions[id].node].id # id

\* Every session a workstation left, by being switched off or by losing the
\* answer to its OpenSess, is closed, unless it comes back to it (tick), and
\* every write waiting for its data gets it or is given up (asp.go:61-64).
NothingWaitsForEver ==
  /\ \A id \in Ids : Left(id) ~> ~Left(id)
  /\ (continues # {}) ~> (continues = {})
=============================================================================
