---------------------------- MODULE Transaction ----------------------------
(***************************************************************************)
(* What the AppleTalk Transaction Protocol of appletalk/atp.go promises    *)
(* about its exactly once requests: a request runs at most once, it is     *)
(* answered once, and a requester that is told of success is given that    *)
(* very answer, whole.  A requester may give up at any time, before the    *)
(* request has run, while it runs, or after.  No packet, retry, bitmap,    *)
(* timer or kept response is visible here.                                 *)
(***************************************************************************)
CONSTANTS
  Keys,      \* the transactions: a requester and a transaction id
  Replies,   \* the answers a responder may give
  None       \* no answer yet

VARIABLES
  stage,     \* what the requester knows: "idle", "waiting", "ok" or "failed"
  executed,  \* how often the responder has run each
  reply,     \* the answer the responder gave, or None
  result     \* the answer the requester was given, or None

vars == <<stage, executed, reply, result>>

Init ==
  /\ stage = [k \in Keys |-> "idle"]
  /\ executed = [k \in Keys |-> 0]
  /\ reply = [k \in Keys |-> None]
  /\ result = [k \in Keys |-> None]

\* The requester makes the request.
Start(k) ==
  /\ stage[k] = "idle"
  /\ stage' = [stage EXCEPT ![k] = "waiting"]
  /\ UNCHANGED <<executed, reply, result>>

\* The responder runs the request, which it does only once.
Execute(k) ==
  /\ stage[k] # "idle"
  /\ executed[k] = 0
  /\ executed' = [executed EXCEPT ![k] = 1]
  /\ UNCHANGED <<stage, reply, result>>

\* The responder answers what it has run.
Reply(k) ==
  /\ executed[k] = 1
  /\ reply[k] = None
  /\ \E a \in Replies : reply' = [reply EXCEPT ![k] = a]
  /\ UNCHANGED <<stage, executed, result>>

\* The requester has the answer, all of it.
Complete(k) ==
  /\ stage[k] = "waiting"
  /\ reply[k] # None
  /\ stage' = [stage EXCEPT ![k] = "ok"]
  /\ result' = [result EXCEPT ![k] = reply[k]]
  /\ UNCHANGED <<executed, reply>>

\* The requester gives up, any number of requests in the same tick.
GiveUp ==
  \E ks \in SUBSET {k \in Keys : stage[k] = "waiting"} :
    /\ ks # {}
    /\ stage' = [k \in Keys |-> IF k \in ks THEN "failed" ELSE stage[k]]
    /\ UNCHANGED <<executed, reply, result>>

Next ==
  \/ \E k \in Keys : Start(k) \/ Execute(k) \/ Reply(k) \/ Complete(k)
  \/ GiveUp

Spec == Init /\ [][Next]_vars
=============================================================================
