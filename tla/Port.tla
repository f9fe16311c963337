-------------------------------- MODULE Port --------------------------------
(***************************************************************************)
(* AppleTalk on the printer port: from the network to the driver of the    *)
(* Macintosh and back.  The chip is channel B of SCC; the port, which does *)
(* the handshake of LocalTalk for the stations of the network, is          *)
(* src/appletalk.go.  The driver is external: the .MPP of the ROM, as the  *)
(* tests of the chip drive it.  Interleaved are the run loop (the chip     *)
(* after every instruction, the port once a scan line), the network from   *)
(* goroutines of its own, and the driver, which a reset takes with it.     *)
(***************************************************************************)
EXTENDS SCC, SequencesExt

CONSTANTS Node,         \* the address of the machine
          Server,       \* the address of the station it talks to
          MaxIncoming,  \* frames that can wait for the run loop
          OfferLines,   \* scan lines the machine has to answer an offer
          MaxOffers,    \* times a frame is offered
          Arriving,     \* the frames the network sends: for each, its kinds
          Outgoing,     \* the frames the machine has to send, in order
          MaxOn,        \* bound: times AppleTalk is turned on
          MaxResets     \* bound: resets of the machine

ASSUME PortAssumption ==
    /\ {MaxIncoming, OfferLines, MaxOffers, MaxQueued, FifoSize} \subseteq
           Nat \ {0}
    /\ {Node, Server} \subseteq Nat
    /\ Node \notin {Server, Server + 1}
    /\ Broadcast \notin {Node, Server, Server + 1}
    /\ Outgoing \in Seq(Nat \X Nat \X Nat)

VARIABLES chip,      \* the channel of the SCC
          port,      \* the frame on offer: offered, offeredLines, offers
          incoming,  \* the frames waiting for the run loop
          mpp,       \* the .MPP driver
          sent,      \* history: frames the driver wrote whole
          went,      \* history: frames the network got
          took,      \* history: data frames the driver took
          answer,    \* history: the answer that has to be next on the wire
          counts     \* what is bounded: arrivals, on, resets

vars == <<chip, port, incoming, mpp, sent, went, took, answer, counts>>

\* Frames are <<destination, source, kind>>: the type of a data frame is a
\* number of its own here, so that each can be told from the others.
NoFrame == <<>>
lapEnq == 129
lapAck == 130
lapRts == 132
lapCts == 133
To(frame) == frame[1]
From(frame) == frame[2]
Kind(frame) == frame[3]
IsData(frame) == Kind(frame) < lapEnq
IsAck(frame) == Len(frame) >= 3 /\ Kind(frame) = lapAck
IsHandshake(frame) == Kind(frame) \in {lapRts, lapCts}

\* The next frame of the network, of one of the kinds that may arrive.
Arrival(kind) ==
    LET n == counts.arrivals + 1
    IN  CASE kind = "data" -> <<Node, Server, n>>
          [] kind = "other" -> <<Server + 1, Server, n>>
          [] kind = "broadcast" -> <<Broadcast, Server, n>>
          [] kind = "enq" -> <<Node, Server, lapEnq>>
          [] kind = "ack" -> <<Node, Server, lapAck>>
          [] OTHER -> <<Node>>

Idle == [doing |-> "off", in |-> <<>>, out |-> <<>>, frame |-> NoFrame,
         then |-> NoFrame]

NoAnswer == [frame |-> NoFrame, alone |-> FALSE]
NothingOffered == [offered |-> NoFrame, offeredLines |-> 0, offers |-> 0]

Init ==
    /\ chip = Fresh
    /\ port = NothingOffered
    /\ incoming = <<>>
    /\ mpp = Idle
    /\ sent = <<>> /\ went = <<>> /\ took = <<>>
    /\ answer = NoAnswer
    /\ counts = [arrivals |-> 0, on |-> 0, resets |-> 0]

-----------------------------------------------------------------------------
(* The port: the frames of the machine go out to the network, except for   *)
(* the handshake, which is answered here.                                  *)

\* The frame a lapCTS or a lapRTS of the machine gets in answer.
AnswerTo(frame, offered) ==
    CASE Kind(frame) = lapRts /\ To(frame) # Broadcast ->
             <<From(frame), To(frame), lapCts>>
      [] /\ Kind(frame) = lapCts
         /\ offered # NoFrame
         /\ To(frame) = From(offered) /\ From(frame) = To(offered) -> offered
      [] OTHER -> NoFrame

\* Mutant of Taken: the frame stays on offer after the lapCTS.
StillOffered(frame, offered) == FALSE

\* Whether what is on offer has just been taken.
Taken(frame, offered) ==
    Kind(frame) = lapCts /\ AnswerTo(frame, offered) # NoFrame

\* The channel b, after a step of the chip, with what it handed to the link.
SendFrame(b) ==
    LET frame == b.toLink
        cleared == [b EXCEPT !.toLink = <<>>]
    IN  IF Len(frame) < 3
        THEN /\ chip' = cleared
             /\ UNCHANGED <<port, went, answer>>
        ELSE /\ chip' = AnswerFrame(cleared, AnswerTo(frame, port.offered))
             /\ port' = [port EXCEPT !.offered =
                    IF Taken(frame, @) THEN NoFrame ELSE @]
             /\ answer' = [frame |-> AnswerTo(frame, port.offered),
                           alone |-> b.rxWire = <<>>]
             /\ went' = IF IsHandshake(frame)
                        THEN went ELSE Append(went, frame)

\* The lapRTS of the frame on offer, as its sender would put it on the wire.
Offer(c, frame) ==
    ReceiveFrame(c, <<To(frame), From(frame), lapRts>>)

\* The frame on offer has had its time: it waits on if frames are on their
\* way to the machine, is offered again, or given up.
StillWaiting ==
    /\ port.offered # NoFrame
    /\ \/ port.offeredLines + 1 < OfferLines
       \/ FramesWaiting(chip) > 0

\* Mutant of OfferedAgain: every time is the first.
OfferedAfresh(p) == [p EXCEPT !.offers = 1, !.offeredLines = 0]

OfferedAgain(p) == [p EXCEPT !.offers = @ + 1, !.offeredLines = 0]

PollWaits ==
    /\ StillWaiting
    /\ port' = [port EXCEPT !.offeredLines =
           IF @ + 1 < OfferLines THEN @ + 1 ELSE 0]
    /\ UNCHANGED <<chip, incoming, answer>>

PollOffersAgain ==
    /\ port.offered # NoFrame
    /\ ~StillWaiting
    /\ port.offers < MaxOffers
    /\ port' = OfferedAgain(port)
    /\ chip' = Offer(chip, port.offered)
    /\ UNCHANGED <<incoming, answer>>

\* Whether a frame of the network waits for the machine to take it, and how
\* one that does not goes on the wire.
HasToBeOffered(frame) ==
    Len(frame) >= 3 /\ To(frame) # Broadcast /\ IsData(frame)

OnTheWire(c, frame) ==
    CASE Len(frame) < 3 -> c
      [] IsAck(frame) -> AnswerFrame(c, frame)
      [] OTHER -> ReceiveFrame(c, frame)

\* One after another, from the first.
AllOnTheWire(c, frames) == FoldLeft(OnTheWire, c, frames)

\* Nothing is on offer, or what was is given up: all that has arrived goes on
\* the wire, up to the first frame that has to be offered.
PollTakes ==
    /\ port.offered # NoFrame => ~StillWaiting /\ port.offers >= MaxOffers
    /\ LET first == SelectInSeq(incoming, HasToBeOffered)
           through == IF first = 0 THEN incoming
                                   ELSE SubSeq(incoming, 1, first - 1)
           wired == AllOnTheWire(chip, through)
           full == incoming # <<>> /\ Len(chip.rxQueue) + Len(incoming)
                                                        > MaxQueued
       IN  /\ IF first = 0
              THEN /\ port' = [port EXCEPT !.offered = NoFrame]
                   /\ chip' = wired
                   /\ incoming' = <<>>
              ELSE /\ port' = [offered |-> incoming[first],
                               offeredLines |-> 0, offers |-> 1]
                   /\ chip' = Offer(wired, incoming[first])
                   /\ incoming' = SubSeq(incoming, first + 1, Len(incoming))
           \* a lapACK goes before the answer, and a full queue drops its head
           /\ answer' = IF full \/ \E i \in DOMAIN through :
                                      IsAck(through[i])
                        THEN NoAnswer ELSE answer

Poll ==
    /\ PollWaits \/ PollOffersAgain \/ PollTakes
    /\ UNCHANGED <<mpp, sent, went, took, counts>>

\* A frame of the network, from any goroutine; a full queue drops it.
Deliver ==
    /\ counts.arrivals < Len(Arriving)
    /\ \E kind \in Arriving[counts.arrivals + 1] :
           incoming' = IF Len(incoming) < MaxIncoming
                       THEN Append(incoming, Arrival(kind)) ELSE incoming
    /\ counts' = [counts EXCEPT !.arrivals = @ + 1]
    /\ UNCHANGED <<chip, port, mpp, sent, went, took, answer>>

-----------------------------------------------------------------------------
(* The chip, ticked after every instruction.                               *)

\* On the printer port there is a network and no printer.
ByteLeaves ==
    /\ Busy(chip)
    /\ SendFrame([ByteGone(chip) EXCEPT !.toSink = <<>>])
    /\ UNCHANGED <<incoming, mpp, sent, took, counts>>

\* The quiet after a frame is over, once nothing is on the wire.  It is what
\* gives the driver the time to finish with the frame it is reading.
QuietPasses ==
    /\ mpp.doing # "reading"
    /\ chip.rxQuiet /\ chip.rxWire = <<>> /\ IsSdlc(chip)
    /\ chip' = [chip EXCEPT !.rxQuiet = FALSE]
    /\ UNCHANGED <<port, incoming, mpp, sent, went, took, answer, counts>>

Starts ==
    /\ CanStart(chip)
    /\ chip' = FrameStarts(chip)
    /\ answer' = NoAnswer
    /\ UNCHANGED <<port, incoming, mpp, sent, went, took, counts>>

\* A driver that has started to read a frame, or that polls for the answer
\* to its own, keeps up with the line.
Receives ==
    /\ IsSdlc(chip) /\ chip.rxWire # <<>>
    /\ (mpp.doing = "reading" \/ mpp.then # NoFrame)
           => ~RxCharAvailable(chip)
    /\ chip' = ReceiveByte(chip)
    /\ UNCHANGED <<port, incoming, mpp, sent, went, took, answer, counts>>

-----------------------------------------------------------------------------
(* The .MPP driver.  It writes a frame with its receiver off, and reads    *)
(* one to its end with the interrupts masked.                              *)

\* Everything the receiver holds is read and its errors are reset.
Drained(b) ==
    Command(Command([b EXCEPT !.rxFifo = <<>>, !.rxInterrupt = FALSE],
                    "error reset"), "enable rx next char")

Listen(b) == SetRegister(b, 3, {"rx", "search"})

\* The address is taken and the registers set.
TurnOn ==
    /\ mpp.doing = "off"
    /\ counts.on < MaxOn
    /\ counts' = [counts EXCEPT !.on = @ + 1]
    /\ LET mode == SetRegister(SetRegister(chip, 4, {"sdlc"}), 6, {Node})
           external == SetRegister(Listen(mode), 15, {"dcd"})
       IN  chip' = SetRegister(Drained(external), 1, {"external", "rx first"})
    /\ mpp' = [Idle EXCEPT !.doing = "listening"]
    /\ UNCHANGED <<port, incoming, sent, went, took, answer>>

\* AppleTalk is turned off: the chip is left in the SDLC mode.
TurnOff ==
    /\ mpp.doing = "listening"
    /\ mpp.then = NoFrame
    /\ mpp' = Idle
    /\ chip' = SetRegister(SetRegister(chip, 3, {}), 1, {})
    /\ UNCHANGED <<port, incoming, sent, went, took, answer, counts>>

\* The transmitter on and the receiver off, for a frame; then is the frame
\* that follows once this one has been answered.
Sending(b, frame, then) ==
    /\ chip' = SetRegister(SetRegister(b, 3, {}), 5, {"tx"})
    /\ mpp' = [doing |-> "sending", in |-> <<>>, out |-> frame,
               frame |-> frame, then |-> then]

\* The next of what it has to send, on a line that is not busy: to one node
\* after a lapRTS, and to all of them as it is.
Unsent == LET given == {i \in DOMAIN sent : Kind(sent[i]) # lapAck}
          IN  SubSeq(Outgoing, Cardinality(given) + 1, Len(Outgoing))

Send ==
    /\ mpp.doing = "listening" /\ mpp.then = NoFrame
    /\ SyncHunt(chip)
    /\ ~Interrupts(chip)
    /\ Unsent # <<>>
    /\ LET frame == Head(Unsent)
       IN  IF To(frame) = Broadcast \/ ~IsData(frame)
           THEN Sending(chip, frame, NoFrame)
           ELSE Sending(chip, <<To(frame), From(frame), lapRts>>, frame)
    /\ UNCHANGED <<port, incoming, sent, went, took, answer, counts>>

\* No lapCTS came in 200us, which an answer that is due never takes: the
\* line is tried again later.
CtsTimeout ==
    /\ mpp.doing = "listening" /\ mpp.then # NoFrame
    /\ SyncHunt(chip) /\ ~Interrupts(chip)
    /\ \A i \in DOMAIN chip.rxQueue : Kind(chip.rxQueue[i]) # lapCts
    /\ mpp' = [mpp EXCEPT !.then = NoFrame]
    /\ UNCHANGED <<chip, port, incoming, sent, went, took, answer, counts>>

WriteByte ==
    /\ mpp.doing = "sending" /\ mpp.out # <<>>
    /\ TxBufferEmpty(chip)
    /\ chip' = Transmit(chip, Head(mpp.out))
    /\ mpp' = [mpp EXCEPT !.out = Tail(@)]
    /\ UNCHANGED <<port, incoming, sent, went, took, answer, counts>>

\* The latch is reset after the last byte, before or after it has left.
ResetEom ==
    /\ mpp.doing = "sending" /\ mpp.out = <<>>
    /\ mpp' = [mpp EXCEPT !.doing = "ending"]
    /\ SendFrame(Command(chip, "reset tx underrun"))
    /\ sent' = IF IsHandshake(mpp.frame) THEN sent ELSE Append(sent, mpp.frame)
    /\ UNCHANGED <<incoming, took, counts>>

\* The frame is out: back to listening, for the lapCTS if it was a lapRTS.
Ended ==
    /\ mpp.doing = "ending"
    /\ chip.txUnderrunEom
    /\ chip' = Listen(SetRegister(chip, 5, {}))
    /\ mpp' = [Idle EXCEPT !.doing = "listening", !.then = mpp.then]
    /\ UNCHANGED <<port, incoming, sent, went, took, answer, counts>>

Interrupt ==
    /\ mpp.doing = "listening"
    /\ Vector(Fresh, chip) \in {"B received", "B special"}
    /\ mpp' = [mpp EXCEPT !.doing = "reading"]
    /\ UNCHANGED <<chip, port, incoming, sent, went, took, answer, counts>>

\* A whole frame is acted upon: a lapRTS and a lapENQ are answered, a
\* lapCTS lets the frame waiting for it go, and the rest is for the machine.
Act(b, frame) ==
    LET listening == [Idle EXCEPT !.doing = "listening", !.then = mpp.then]
        back == <<From(frame), Node, lapCts>>
    IN  CASE Kind(frame) = lapRts ->
               /\ Sending(b, back, NoFrame)
               /\ UNCHANGED took
          [] Kind(frame) = lapEnq ->
               /\ Sending(b, [back EXCEPT ![3] = lapAck], NoFrame)
               /\ UNCHANGED took
          [] Kind(frame) = lapCts /\ mpp.then # NoFrame ->
               /\ Sending(b, mpp.then, NoFrame)
               /\ UNCHANGED took
          [] OTHER ->
               /\ chip' = b
               /\ mpp' = listening
               /\ took' = IF IsData(frame) THEN Append(took, frame) ELSE took

\* A byte of the frame.  The last one tells whether it was whole; after an
\* overrun the rest of what came is dropped.
ReadByte ==
    /\ mpp.doing = "reading"
    /\ LET ended == EndOfFrame(chip)
           b == Command(Command(ReadReceived(chip), "error reset"),
                        "enable rx next char")
           bytes == Append(mpp.in, chip.rxFifo[1].value)
           dropped == [mpp EXCEPT !.doing = "listening", !.in = <<>>]
       IN  IF chip.overrun
           THEN /\ mpp' = dropped
                /\ chip' = Drained(chip)
                /\ UNCHANGED took
           ELSE /\ RxCharAvailable(chip)
                /\ CASE ~ended ->
                          /\ mpp' = [mpp EXCEPT !.in = bytes]
                          /\ chip' = ReadReceived(chip)
                          /\ UNCHANGED took
                     [] ended /\ Len(bytes) = 5 -> Act(b, SubSeq(bytes, 1, 3))
                     [] OTHER ->
                          /\ mpp' = dropped
                          /\ chip' = b
                          /\ UNCHANGED took
    /\ UNCHANGED <<port, incoming, sent, went, answer, counts>>

-----------------------------------------------------------------------------
(* The reset of the machine.                                               *)

\* The cables survive a reset, and so does the frame on offer.
Reset ==
    /\ counts.resets < MaxResets
    /\ counts' = [counts EXCEPT !.resets = @ + 1]
    /\ chip' = Fresh
    /\ mpp' = Idle
    /\ answer' = NoAnswer
    /\ sent' = went
    /\ UNCHANGED <<port, incoming, went, took>>

Chip == ByteLeaves \/ QuietPasses \/ Starts \/ Receives
Driver == TurnOn \/ Send \/ WriteByte \/ ResetEom \/ Ended
             \/ Interrupt \/ ReadByte

Next == Poll \/ Deliver \/ Chip \/ Driver \/ TurnOff \/ CtsTimeout \/ Reset

Spec == Init /\ [][Next]_vars

\* The run loop goes on as long as the program does: it polls the port every
\* scan line, ticks the chip and runs the drivers of the machine.
Fairness == WF_vars(Poll) /\ WF_vars(Chip) /\ WF_vars(Driver)
               /\ WF_vars(CtsTimeout)

FairSpec == Spec /\ Fairness

-----------------------------------------------------------------------------
\* A data frame of the network reaches the machine at most once, and the
\* ones for it alone in the order they came in, however often they are
\* offered, however late the machine answers and whatever it is sending
\* meanwhile (SendFrame, poll and offer of src/appletalk.go).
TakenInOrderOnce ==
    \A i, j \in 1..Len(took) : i < j =>
        /\ took[i] # took[j]
        /\ To(took[i]) # Broadcast /\ To(took[j]) # Broadcast
               => Kind(took[i]) < Kind(took[j])

\* The frame that starts on the wire after a lapRTS or a lapCTS of the
\* machine is the answer to it: nothing that waits comes between, and no
\* quiet is kept before it, but for the one after a frame that was on the wire
\* already.  Two things are allowed to come between, and end what is promised
\* here (see PollTakes): a queue of the receiver that is full drops its head,
\* and a lapACK goes ahead too (AnswerFrame of src/component/scc8530Sdlc.go).
AnswersComeNext ==
    answer.frame # NoFrame =>
        /\ answer.alone => ~chip.rxQuiet
        /\ chip.rxQueue # <<>> => chip.rxQueue[1] = answer.frame

\* A frame of the driver gets to the network whole, in order and once, as
\* soon as its last byte is out: nothing between two of its bytes ends it,
\* and nothing the machine does with its receiver gets into it (transmit,
\* tick and transmitterDry of the SCC, SendFrame of src/appletalk.go).
SentAsWritten ==
    /\ IF mpp.doing = "ending" /\ ~IsHandshake(mpp.frame)
       THEN sent \in {went, Append(went, mpp.frame)}
       ELSE sent = went

\* A frame on offer is taken or given up, so the ones behind it get to the
\* machine, as long as AppleTalk stays on (poll of src/appletalk.go).
OffersEnd ==
    port.offered # NoFrame
        ~> (port.offered = NoFrame \/ mpp.doing = "off")
=============================================================================
