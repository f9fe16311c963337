-------------------------------- MODULE UDP --------------------------------
(***************************************************************************)
(* LocalTalk over UDP, localtalk/udp.go: the frames a program puts on the  *)
(* network of one transport, on their way to the network of another on the *)
(* same computer, and Deliver, with which the program waits for them.      *)
(*                                                                         *)
(* The program is one goroutine that sends frames and calls Deliver, as    *)
(* the one that runs two machines in step does; the transport's sender,    *)
(* the other's listener and the network between them run on their own.     *)
(* Frames are numbered as they are sent.  A datagram may be lost, and may  *)
(* be late; it is not duplicated.                                          *)
(***************************************************************************)
EXTENDS Integers, Sequences, FiniteSets

CONSTANTS
  MaxFrames,  \* the frames the program sends (bound)
  SendQueue   \* sendQueue, the frames waiting to be sent, 64 in the code

ASSUME UDPAssumption ==
  /\ MaxFrames \in Nat
  /\ SendQueue \in Nat \ {0}

Frames == 1..MaxFrames

VARIABLES
  running,   \* whether the transport has not been closed
  offered,   \* how many frames the program has sent
  outgoing,  \* UDP.outgoing: the frames queued
  queued,    \* UDP.queued
  lost,      \* UDP.lost, of the other transport
  deliver,   \* where the program is in Deliver: "out", "looking", "looked"
  seen,      \* what Deliver last read of the other's heard
  air,       \* the datagrams between the transports
  handing,   \* the frame the other's listener has not yet counted, if any
  arrived,   \* the frames handed to the other's network
  heard,     \* the other's UDP.heard, of this one
  entered,   \* history: the frames that found room in the queue
  counted,   \* history: the frames in heard when Deliver last read it
  inVain,    \* history: the frames the last Deliver to fail waited for
  told       \* history: what the last Deliver told, and what was missing then

program == <<offered, queued, lost, deliver, seen, entered, counted, inVain, told>>
listener == <<handing, arrived, heard>>
udpVars == <<running, offered, outgoing, queued, lost, deliver, seen, air, handing,
          arrived, heard, entered, counted, inVain, told>>

-----------------------------------------------------------------------------
(* The program.                                                            *)

HasRoom == Len(outgoing) < SendQueue

\* Receive: a frame of the network is queued, or dropped with the queue full.
\* The send and the count under the lock (udp.go:166-170) are one step: only
\* Deliver reads queued, and it is the same program that sends the frame.
Receive ==
  /\ running
  /\ deliver = "out"
  /\ offered < MaxFrames
  /\ offered' = offered + 1
  /\ \/ /\ HasRoom
        /\ outgoing' = Append(outgoing, offered + 1)
        /\ queued' = queued + 1
        /\ entered' = entered \cup {offered + 1}
     \/ /\ ~HasRoom
        /\ UNCHANGED <<outgoing, queued, entered>>
  /\ UNCHANGED <<running, lost, deliver, seen, air, listener, counted, inVain, told>>

\* Deliver is called.
CallDeliver ==
  /\ deliver = "out"
  /\ deliver' = "looking"
  /\ UNCHANGED <<running, offered, outgoing, queued, lost, seen, air, listener,
                 entered, counted, inVain, told>>

\* It reads what is counted; queued and lost are the program's own.
Look ==
  /\ deliver = "looking"
  /\ deliver' = "looked"
  /\ seen' = heard
  /\ counted' = arrived \ handing
  /\ UNCHANGED <<running, offered, outgoing, queued, lost, air, listener,
                 entered, inVain, told>>

\* Mutant of AllHeard: one frame more is waited for.
AllHeardAndMore == seen + lost > queued

\* Everything queued is heard, but for what is lost.
AllHeard == seen + lost >= queued

\* It returns, and tells whether everything came in.
Answer(ok) ==
  /\ deliver' = "out"
  /\ told' = [ok |-> ok, missing |-> entered \ arrived]
  /\ UNCHANGED <<running, offered, outgoing, queued, seen, air, listener, entered, counted>>

DeliverTrue ==
  /\ deliver = "looked"
  /\ AllHeard
  /\ Answer(TRUE)
  /\ UNCHANGED <<lost, inVain>>

\* Its time is not up, and it looks again.
LookAgain ==
  /\ deliver = "looked"
  /\ ~AllHeard
  /\ deliver' = "looking"
  /\ UNCHANGED <<running, offered, outgoing, queued, lost, seen, air, listener,
                 entered, counted, inVain, told>>

\* What had not come in at the last look is taken as lost from now on.
LostNow == queued - seen

\* Its time is up.
DeliverFalse ==
  /\ deliver = "looked"
  /\ ~AllHeard
  /\ Answer(FALSE)
  /\ lost' = LostNow
  /\ inVain' = entered \ counted

-----------------------------------------------------------------------------
(* The transport's sender and the group.                                   *)

\* sending: the next frame goes out.
SendOut ==
  /\ running
  /\ outgoing # <<>>
  /\ outgoing' = Tail(outgoing)
  /\ air' = air \cup {Head(outgoing)}
  /\ UNCHANGED <<running, program, listener>>

\* sending: it does not get out in time, and is gone.
SendFails ==
  /\ running
  /\ outgoing # <<>>
  /\ outgoing' = Tail(outgoing)
  /\ UNCHANGED <<running, program, air, listener>>

\* A datagram is lost.
Lose(f) ==
  /\ air' = air \ {f}
  /\ UNCHANGED <<running, program, outgoing, listener>>

\* Close: off the network, and the sender stops, whatever is queued.
Close ==
  /\ running
  /\ running' = FALSE
  /\ UNCHANGED <<program, outgoing, air, listener>>

-----------------------------------------------------------------------------
(* The other transport's listener.                                         *)

\* listen: a datagram is read and its frame goes on the network.
Hand(f) ==
  /\ handing = {}
  /\ air' = air \ {f}
  /\ handing' = {f}
  /\ arrived' = arrived \cup {f}
  /\ UNCHANGED <<running, program, outgoing, heard>>

\* listen: it is counted once it has.
Count ==
  /\ handing # {}
  /\ handing' = {}
  /\ heard' = heard + 1
  /\ UNCHANGED <<running, program, outgoing, air, arrived>>

-----------------------------------------------------------------------------
UDPInit ==
  /\ running = TRUE
  /\ offered = 0 /\ outgoing = <<>> /\ queued = 0 /\ lost = 0
  /\ deliver = "out" /\ seen = 0
  /\ air = {}
  /\ handing = {} /\ arrived = {} /\ heard = 0
  /\ entered = {} /\ counted = {} /\ inVain = {}
  /\ told = [ok |-> TRUE, missing |-> {}]

UDPNext ==
  \/ Receive \/ CallDeliver \/ Look \/ DeliverTrue \/ LookAgain \/ DeliverFalse
  \/ SendOut \/ SendFails \/ Close
  \/ \E f \in air : Lose(f) \/ Hand(f)
  \/ Count

UDPSpec == UDPInit /\ [][UDPNext]_udpVars

-----------------------------------------------------------------------------
(* Properties.                                                             *)

\* The type of every variable; no more is queued than the queue holds.
UDPTypeOK ==
  /\ running \in BOOLEAN
  /\ offered \in 0..MaxFrames
  /\ outgoing \in Seq(Frames)
  /\ Len(outgoing) <= SendQueue
  /\ {queued, lost, seen, heard} \subseteq 0..MaxFrames
  /\ deliver \in {"out", "looking", "looked"}
  /\ {air, handing, arrived, entered, counted, inVain} \subseteq SUBSET Frames
  /\ told \in [ok : BOOLEAN, missing : SUBSET Frames]

\* A Deliver that tells everything has come in misses no more than frames
\* that an earlier one waited for in vain, and as many others as of those
\* have come in late; before any was waited for in vain, it misses nothing
\* (Deliver, udp.go:187-208, and listen, 284-289).
TrueButForTheLate ==
  told.ok => Cardinality(told.missing \ inVain) <= Cardinality(inVain \cap arrived)

\* A Deliver that tells something has not come in is right: when it last
\* looked a frame had not, however many it had given up before
\* (udp.go:197-204).
FalseMeansMissing == ~told.ok => inVain # {}

\* What Deliver tells is so, but for the frames that came late.
DeliverTells == TrueButForTheLate /\ FalseMeansMissing

=============================================================================
