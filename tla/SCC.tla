-------------------------------- MODULE SCC --------------------------------
(***************************************************************************)
(* A channel of the 8530 serial controller (src/component/scc8530.go and   *)
(* scc8530Sdlc.go), as operators on a record: the asynchronous transmitter *)
(* that prints, the SDLC side that LocalTalk runs on, and the carrier      *)
(* detect input that an axis of the mouse arrives on.  Time is left out: a *)
(* byte leaves, the next one arrives and the quiet of the wire passes in   *)
(* steps of whoever uses the channel.  A frame is the bytes between its    *)
(* flags.  Whatever a step hands to the other end of the port is left in   *)
(* toSink and toLink, for the user of the channel to take.                 *)
(***************************************************************************)
EXTENDS Integers, Sequences

CONSTANTS MaxQueued,    \* frames that wait for a receiver that is off
          FifoSize      \* the bytes the receiver can hold

\* The destination every station listens to, and the two bytes the receiver
\* adds to a frame.
Broadcast == 255
Crc == <<0, 0>>

\* The write registers with a meaning here, each as the set of the flags
\* that are up in it; the address in register 6 is the set of that number.
Registers == {1, 3, 4, 5, 6, 15}

\* The synchronous side, with what it hands to the link, and the rest.
Fresh ==
    [txFrame |-> <<>>, txUnderrunEom |-> TRUE,
     rxQueue |-> <<>>, rxWire |-> <<>>, rxPosition |-> 0,
     rxAccepted |-> FALSE, rxQuiet |-> FALSE, rxFifo |-> <<>>,
     rxArmed |-> FALSE, rxInterrupt |-> FALSE, specialInterrupt |-> FALSE,
     endOfFrame |-> FALSE, overrun |-> FALSE, lineQuiet |-> TRUE,
     toLink |-> <<>>,
     pointer |-> 0, write |-> [r \in Registers |-> {}],
     dcd |-> FALSE, dcdLatched |-> FALSE, extInterrupt |-> FALSE,
     txByte |-> <<>>, txBuffer |-> <<>>, txInterrupt |-> FALSE,
     toSink |-> <<>>]

IsSdlc(c) == "sdlc" \in c.write[4]
Busy(c) == c.txByte # <<>>

-----------------------------------------------------------------------------
(* The transmitter. *)

\* Mutant of Dry: every byte with nothing behind it ends a frame.
DryWhateverTheLatch(c) ==
    [c EXCEPT !.txUnderrunEom = TRUE, !.txFrame = <<>>,
              !.rxQuiet = @ \/ c.txFrame # <<>>, !.toLink = c.txFrame]

\* A frame ends when the transmitter runs dry with the latch reset; with it
\* still set only flags go out and the frame stays open.
Dry(c) ==
    IF c.txUnderrunEom
    THEN c
    ELSE [c EXCEPT !.txUnderrunEom = TRUE,
                   !.txFrame = <<>>,
                   !.rxQuiet = @ \/ c.txFrame # <<>>,
                   !.toLink = c.txFrame]

\* A byte written to the data register: a part of the frame in SDLC mode
\* with the transmitter on, and on its way now or once the wire is free.
Transmit(c, value) ==
    LET framed == IF IsSdlc(c) /\ "tx" \in c.write[5]
                  THEN [c EXCEPT !.txFrame = Append(@, value)]
                  ELSE c
    IN  IF Busy(c) THEN [framed EXCEPT !.txBuffer = <<value>>]
                   ELSE [framed EXCEPT !.txByte = <<value>>]

\* The byte on its way is out: it is handed over, unless it is part of a
\* frame, the next one is asked for, and the one in the buffer follows.
ByteGone(c) ==
    LET gone == [c EXCEPT
            !.toSink = IF IsSdlc(c) THEN <<>> ELSE c.txByte,
            !.txInterrupt = @ \/ "txInterrupt" \in c.write[1],
            !.txByte = c.txBuffer,
            !.txBuffer = <<>>]
    IN  IF c.txBuffer # <<>> \/ ~IsSdlc(c) THEN gone ELSE Dry(gone)

\* An abort, or the transmitter turned off in the middle of a frame.
Abort(c) == [c EXCEPT !.txFrame = <<>>]

-----------------------------------------------------------------------------
(* The registers. *)

ResetExternalStatus(c) ==
    [c EXCEPT !.extInterrupt = FALSE, !.dcdLatched = c.dcd]

\* The commands of a write to register 0, which leaves the pointer at the
\* register the same byte names.
Command(c, command) ==
    CASE command = "reset external status" -> ResetExternalStatus(c)
      [] command = "reset tx interrupt" -> [c EXCEPT !.txInterrupt = FALSE]
      [] command = "send abort" -> Abort(c)
      [] command = "enable rx next char" -> [c EXCEPT !.rxArmed = TRUE]
      [] command = "error reset" ->
             [c EXCEPT !.specialInterrupt = FALSE, !.endOfFrame = FALSE,
                       !.overrun = FALSE]
      [] command = "reset tx underrun" ->
             \* a transmitter that is already empty underruns at once
             LET armed == [c EXCEPT !.txUnderrunEom = FALSE]
             IN  IF ~Busy(c) /\ c.txFrame # <<>> THEN Dry(armed) ELSE armed
      [] OTHER -> c

\* The pointer is three bits wide: a register from 8 up is the one eight
\* lower with the point high command in the same byte.
PointTo(c, low, high) == [c EXCEPT !.pointer = IF high THEN low + 8 ELSE low]

\* The register the pointer names is written and the pointer falls back.
Written(c, value) ==
    LET r == c.pointer
        set == [c EXCEPT !.pointer = 0, !.write[r] = value]
    IN  CASE r = 1 /\ "rx first" \in value /\ "rx first" \notin c.write[1] ->
                 [set EXCEPT !.rxArmed = TRUE]
          [] r = 5 /\ "tx" \in c.write[5] /\ "tx" \notin value -> Abort(set)
          [] OTHER -> set

SetRegister(c, r, value) == Written(PointTo(c, r % 8, r >= 8), value)

\* Bits of the status registers: RR0 and RR1.
TxBufferEmpty(c) == ~Busy(c)
AllSent(c) == ~Busy(c)
RxCharAvailable(c) == c.rxFifo # <<>>
SyncHunt(c) == IsSdlc(c) /\ c.rxWire = <<>>
BreakAbort(c) == IsSdlc(c) /\ c.lineQuiet
EndOfFrame(c) == c.endOfFrame \/ (c.rxFifo # <<>> /\ c.rxFifo[1].endOfFrame)

-----------------------------------------------------------------------------
(* The receiver. *)

\* A frame from the network waits for the wire; the one at the head of a
\* full queue is dropped.
ReceiveFrame(c, frame) ==
    IF ~IsSdlc(c) \/ frame = <<>>
    THEN c
    ELSE [c EXCEPT !.rxQueue =
             Append(IF Len(@) >= MaxQueued THEN Tail(@) ELSE @, frame)]

\* Mutant of AnswerFrame: the answer takes its turn behind the others.
AnswerFrameInTurn(c, frame) ==
    IF ~IsSdlc(c) \/ frame = <<>>
    THEN c
    ELSE [c EXCEPT !.rxQueue = Append(@, frame), !.rxQuiet = FALSE]

\* The answer to the frame the machine has just sent goes ahead of them all
\* and waits for no quiet.
AnswerFrame(c, frame) ==
    IF ~IsSdlc(c) \/ frame = <<>>
    THEN c
    ELSE [c EXCEPT !.rxQueue = <<frame>> \o @, !.rxQuiet = FALSE]

FramesWaiting(c) == Len(c.rxQueue) + (IF c.rxWire # <<>> THEN 1 ELSE 0)

\* A frame starts on a wire that has been quiet, for a receiver that is on,
\* and never in the middle of one being sent.
CanStart(c) ==
    /\ IsSdlc(c)
    /\ c.rxWire = <<>>
    /\ ~c.rxQuiet
    /\ c.rxQueue # <<>>
    /\ "rx" \in c.write[3]
    /\ c.txFrame = <<>>

FrameStarts(c) ==
    [c EXCEPT !.rxQueue = Tail(@), !.rxWire = c.rxQueue[1] \o Crc,
              !.rxPosition = 0, !.lineQuiet = FALSE]

\* A byte in the FIFO, or over its end, and the interrupts it raises.
PushReceived(c, entry) ==
    LET over == c.overrun \/ Len(c.rxFifo) = FifoSize
        first == "rx first" \in c.write[1]
        all == "rx all" \in c.write[1]
        special == first \/ all \/ "rx special" \in c.write[1]
    IN  [c EXCEPT
            !.rxFifo = IF Len(@) = FifoSize THEN @ ELSE Append(@, entry),
            !.overrun = over,
            !.rxInterrupt = @ \/ all \/ (first /\ c.rxArmed),
            !.rxArmed = @ /\ ~first,
            !.specialInterrupt = @ \/ (special /\ (entry.endOfFrame \/ over))]

\* The address search lets in what is for this node and for every node.
LetIn(c, address) ==
    /\ "rx" \in c.write[3]
    /\ "search" \in c.write[3] => address \in c.write[6] \union {Broadcast}

\* The next byte of the frame comes off the wire, and with the last one the
\* quiet starts.  Where the frame was and whether it was let in are of no more
\* use then, and are cleared, which the code leaves to the next frame.
ReceiveByte(c) ==
    LET position == c.rxPosition + 1
        value == c.rxWire[position]
        last == position = Len(c.rxWire)
        accepted == IF position = 1 THEN LetIn(c, value) ELSE c.rxAccepted
        taken == [c EXCEPT !.rxAccepted = accepted, !.rxPosition = position]
        pushed == IF accepted /\ "rx" \in c.write[3]
                  THEN PushReceived(taken,
                                    [value |-> value, endOfFrame |-> last])
                  ELSE taken
        abort == "abort" \in c.write[15] /\ "external" \in c.write[1]
    IN  IF ~last THEN pushed
        ELSE [pushed EXCEPT !.rxWire = <<>>, !.rxPosition = 0,
                            !.rxAccepted = FALSE, !.rxQuiet = TRUE,
                            !.lineQuiet = TRUE,
                            !.extInterrupt = @ \/ abort]

\* A read of the data register, which nothing but the SDLC side answers.
ReadReceived(c) ==
    IF ~IsSdlc(c) \/ c.rxFifo = <<>>
    THEN c
    ELSE LET rest == Tail(c.rxFifo)
         IN  [c EXCEPT
                !.rxFifo = rest,
                !.endOfFrame = @ \/ c.rxFifo[1].endOfFrame,
                !.rxInterrupt =
                    @ /\ "rx first" \notin c.write[1] /\ rest # <<>>]

-----------------------------------------------------------------------------
(* The carrier detect and the interrupts. *)

SetDcd(c, level) ==
    IF c.dcd = level
    THEN c
    ELSE [c EXCEPT !.dcd = level, !.dcdLatched = level,
                   !.extInterrupt = @ \/ ("external" \in c.write[1]
                                             /\ "dcd" \in c.write[15])]

\* What keeps an axis of the mouse where it is: never a byte going out.
Pending(c) == c.extInterrupt

Interrupts(c) ==
    c.extInterrupt \/ c.txInterrupt \/ c.rxInterrupt \/ c.specialInterrupt
InterruptAsserted(a, b) == Interrupts(a) \/ Interrupts(b)

\* RR2 of channel B: channel A before B, and in each the receiver, the
\* transmitter and the external status, which is also what nothing at all
\* reads as.
Vector(a, b) ==
    CASE a.specialInterrupt -> "A special"
      [] a.rxInterrupt -> "A received"
      [] a.txInterrupt -> "A sent"
      [] a.extInterrupt -> "A external"
      [] b.specialInterrupt -> "B special"
      [] b.rxInterrupt -> "B received"
      [] b.txInterrupt -> "B sent"
      [] OTHER -> "B external"
=============================================================================
