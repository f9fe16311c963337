------------------------------ MODULE Keyboard ------------------------------
(***************************************************************************)
(* The keyboard, keyboard.go, on the shift register of the VIA, via.go and *)
(* the shift register of component/mos6522.go.                             *)
(*                                                                         *)
(* The Macintosh sends a command, is told when it has gone out, turns the  *)
(* shift register around to listen, and is told when the answer is in.  A  *)
(* Macintosh busy elsewhere turns it around late, or gives the command up  *)
(* and sends another; the answer then still waiting goes back to the       *)
(* keyboard.  The Macintosh's side is the ROM's keyboard driver, as        *)
(* keyboard.go and the tests describe it.                                  *)
(***************************************************************************)
EXTENDS Integers, Sequences

CONSTANTS
  Keys,        \* the keys moved, as they are in the table keyCodes
  QueueLimit,  \* keyboardQueueLimit, 32 in the code
  MaxMoves,    \* the bytes of the keys the keyboard takes in (bound)
  MaxGiveUps,  \* how often the driver gives a command up (bound)
  MaxResets    \* how often the machine is reset (bound)

ASSUME KeyboardAssumption ==
  /\ Keys \subseteq 0..255
  /\ QueueLimit \in Nat
  /\ {MaxMoves, MaxGiveUps, MaxResets} \subseteq Nat

Byte == 0..255

CmdInquiry == 16
CmdInstant == 20
CmdModel == 22
CmdTest == 54
Commands == {CmdInquiry, CmdInstant, CmdModel, CmdTest}

Null == 123
Ack == 125
Model == 11
KeypadPrefix == 121
Shift == 113
KeyUp == 128

VARIABLES
  queue,         \* keyboard.queue: the bytes waiting to be reported
  taken,         \* keyboard.taken: the last byte reported
  prefixed,      \* keyboard.prefixed: the prefix came before it
  response,      \* keyboard.response
  stage,         \* keyboard.stage
  waiting,       \* via.keyboardAnswer, while keyboardAnswerWaiting
  sr,            \* MOS6522.sr
  flag,          \* the shift register's bit of MOS6522.ifr
  armed,         \* MOS6522.shiftInArmed
  mac,           \* where the driver is: "quiet", "sent", "listening"
  asked,         \* the command it last sent
  known,         \* the keyboard has told it its model
  afterPrefix,   \* the last byte it read was the prefix
  typed,         \* history: the moves the keyboard took in and has not reset
  heard,         \* history: the moves the driver read
  giveUps,       \* bounds
  resets

keyboard == <<queue, taken, prefixed, response, stage>>
via == <<waiting, sr, flag, armed>>
driver == <<mac, asked, known, afterPrefix>>
history == <<typed, heard, giveUps, resets>>
vars == <<keyboard, via, driver, history>>

-----------------------------------------------------------------------------
(* The keys.                                                               *)

Keypad(code) == code >= 128
Shifted(code) == Keypad(code) /\ code % 2 = 0

Transition(code) == 2 * ((code % 128) \div 2) + 1

\* What a key that goes down or comes up puts in the queue.
Bytes(code, up) ==
     (IF Shifted(code) THEN <<Shift + up>> ELSE <<>>)
  \o (IF Keypad(code) THEN <<KeypadPrefix>> ELSE <<>>)
  \o <<Transition(code) + up>>

\* The moves in it: a byte, and whether the prefix is before it.
Move(byte, keypad) == [byte |-> byte, prefixed |-> keypad]
MovesOf(code, up) ==
     (IF Shifted(code) THEN <<Move(Shift + up, FALSE)>> ELSE <<>>)
  \o <<Move(Transition(code) + up, Keypad(code))>>

PutKey(code, up) ==
  /\ Len(queue) < QueueLimit - 2
  /\ Len(typed) + Len(MovesOf(code, up)) <= MaxMoves
  /\ queue' = queue \o Bytes(code, up)
  /\ typed' = typed \o MovesOf(code, up)
  /\ UNCHANGED <<taken, prefixed, response, stage, via, driver, heard, giveUps, resets>>

-----------------------------------------------------------------------------
(* The shift register.                                                     *)

\* It is written to, in a mode that shifts out.
WriteRegister(value) == sr' = value /\ flag' = FALSE /\ armed' = FALSE

\* It is read, in the mode that shifts in, and listens from then on.
ReadRegister == flag' = FALSE /\ armed' = TRUE /\ UNCHANGED sr

ResetRegister == flag' = FALSE /\ armed' = FALSE /\ UNCHANGED sr

-----------------------------------------------------------------------------
(* A command written to the shift register.                                *)

\* Mutant of GivenBack: the prefix of a byte given back is left behind.
GivenBackBare(byte) ==
  IF byte \in {Null, Model, Ack} THEN queue ELSE <<byte>> \o queue

\* The queue once a byte the driver did not read is back in it.
GivenBack(byte) ==
  IF byte \in {Null, Model, Ack} THEN queue
  ELSE (IF byte = taken /\ prefixed THEN <<KeypadPrefix>> ELSE <<>>) \o <<byte>> \o queue

QueueBefore == IF waiting = <<>> THEN queue ELSE GivenBack(waiting[1])

\* Mutant of NextTransition: the last byte in the queue is taken for an empty queue.
NextTransitionButTheLast ==
  /\ IF Len(QueueBefore) < 2
     THEN response' = Null /\ queue' = QueueBefore /\ UNCHANGED <<taken, prefixed>>
     ELSE /\ response' = Head(QueueBefore)
          /\ queue' = Tail(QueueBefore)
          /\ prefixed' = (taken = KeypadPrefix)
          /\ taken' = Head(QueueBefore)

NextTransition ==
  IF QueueBefore = <<>>
  THEN response' = Null /\ queue' = <<>> /\ UNCHANGED <<taken, prefixed>>
  ELSE /\ response' = Head(QueueBefore)
       /\ queue' = Tail(QueueBefore)
       /\ prefixed' = (taken = KeypadPrefix)
       /\ taken' = Head(QueueBefore)

\* keyboard.command: what is asked is answered, once it has gone out.
Answers(value) ==
  /\ stage' = "sending"
  /\ \/ value \in {CmdInquiry, CmdInstant} /\ NextTransition
     \/ value = CmdModel /\ queue' = <<>> /\ response' = Model /\ UNCHANGED <<taken, prefixed>>
     \/ value = CmdTest /\ queue' = QueueBefore /\ response' = Ack /\ UNCHANGED <<taken, prefixed>>

\* Mutant of Command: the answer given back is left waiting too.
CommandLeavingTheAnswer(value) ==
  /\ WriteRegister(value)
  /\ Answers(value)
  /\ UNCHANGED waiting

\* The driver sets the shift register to shift out, and writes to it.
Command(value) ==
  /\ WriteRegister(value)
  /\ Answers(value)
  /\ waiting' = <<>>

-----------------------------------------------------------------------------
(* The driver.                                                             *)

\* The keyboard forgets what is in it when it is asked its model.
Sends(value) ==
  /\ Command(value)
  /\ mac' = "sent"
  /\ asked' = value
  /\ typed' = IF value = CmdModel THEN heard ELSE typed
  /\ UNCHANGED <<known, heard, resets>>

\* The next command: its model until it tells it, and the byte after a prefix
\* at once.
Send ==
  /\ mac = "quiet"
  /\ Sends(IF ~known THEN CmdModel ELSE IF afterPrefix THEN CmdInstant ELSE CmdInquiry)
  /\ UNCHANGED <<afterPrefix, giveUps>>

\* A driver that did not get to the end of its command in time, which is far
\* longer than the wire takes, starts over with an Inquiry, the model or a test.
GiveUp ==
  /\ giveUps < MaxGiveUps
  /\ mac = "sent"
  /\ stage = "idle"
  /\ \E value \in {CmdInquiry, CmdModel, CmdTest} :
       /\ known \/ value = CmdModel
       /\ Sends(value)
  /\ afterPrefix' = FALSE
  /\ giveUps' = giveUps + 1

\* The command has gone out: the register is turned around, and read.
Listen ==
  /\ mac = "sent"
  /\ flag
  /\ mac' = "listening"
  /\ ReadRegister
  /\ UNCHANGED <<keyboard, waiting, asked, known, afterPrefix, history>>

\* What the driver makes of the byte it reads.
Reads(byte) ==
  /\ known' = (known \/ asked = CmdModel)
  /\ LET reported == asked \in {CmdInquiry, CmdInstant} /\ byte # Null
     IN /\ afterPrefix' = (reported /\ byte = KeypadPrefix)
        /\ heard' = IF reported /\ byte # KeypadPrefix
                    THEN Append(heard, Move(byte, afterPrefix)) ELSE heard

\* The answer is in: reading it has the register listen again.
Take ==
  /\ mac = "listening"
  /\ flag
  /\ mac' = "quiet"
  /\ ReadRegister
  /\ Reads(sr)
  /\ UNCHANGED <<keyboard, waiting, asked, typed, giveUps, resets>>

-----------------------------------------------------------------------------
(* The time on the wire, and the reset.                                    *)

\* keyboard.tick once its delay is over: the command has gone out, or the
\* answer is due.
NextStage == IF stage = "sending" THEN "answering" ELSE "idle"
SentNow == stage = "sending"
Due == IF stage = "answering" THEN <<response>> ELSE waiting

Ready == armed

\* MOS6522.ShiftIn
ShiftIn(byte) ==
  /\ sr' = byte
  /\ flag' = TRUE
  /\ armed' = FALSE

\* via.tick: what the keyboard's tick tells, and an answer that goes in when the
\* register is ready for it.
Tick ==
  /\ stage # "idle" \/ (waiting # <<>> /\ Ready)
  /\ stage' = NextStage
  /\ \/ /\ Due # <<>> /\ Ready
        /\ ShiftIn(Due[1])
        /\ waiting' = <<>>
     \/ /\ ~(Due # <<>> /\ Ready)
        /\ waiting' = Due
        /\ flag' = (flag \/ SentNow)
        /\ UNCHANGED <<sr, armed>>
  /\ UNCHANGED <<queue, taken, prefixed, response, driver, history>>

\* keyboard.reset
KeyboardReset ==
  /\ queue' = <<>>
  /\ stage' = "idle"
  /\ UNCHANGED <<taken, prefixed, response>>

\* The machine is reset: the answer that waits and the byte last reported stay.
Reset ==
  /\ resets < MaxResets
  /\ KeyboardReset
  /\ ResetRegister
  /\ mac' = "quiet"
  /\ known' = FALSE
  /\ afterPrefix' = FALSE
  /\ typed' = heard
  /\ resets' = resets + 1
  /\ UNCHANGED <<waiting, asked, heard, giveUps>>

-----------------------------------------------------------------------------
Init ==
  /\ queue = <<>> /\ taken = 0 /\ prefixed = FALSE /\ response = 0 /\ stage = "idle"
  /\ waiting = <<>> /\ sr = 0 /\ flag = FALSE /\ armed = FALSE
  /\ mac = "quiet" /\ asked = CmdModel /\ known = FALSE /\ afterPrefix = FALSE
  /\ typed = <<>> /\ heard = <<>> /\ giveUps = 0 /\ resets = 0

Next ==
  \/ \E code \in Keys, up \in {0, KeyUp} : PutKey(code, up)
  \/ Send
  \/ GiveUp
  \/ Listen
  \/ Take
  \/ Tick
  \/ Reset

Spec == Init /\ [][Next]_vars

\* The machine runs on, and the driver goes on with what it started.
FairSpec ==
  /\ Spec
  /\ WF_vars(Send)
  /\ WF_vars(Listen)
  /\ WF_vars(Take)
  /\ WF_vars(Tick)

-----------------------------------------------------------------------------
(* What must hold.                                                         *)

Moves == [byte : Byte, prefixed : BOOLEAN]

\* Each variable holds what it may, the queue and the register bytes.
TypeOK ==
  /\ queue \in Seq(Byte)
  /\ {taken, response, sr} \subseteq Byte
  /\ {prefixed, flag, armed, known, afterPrefix} \subseteq BOOLEAN
  /\ stage \in {"idle", "sending", "answering"}
  /\ waiting \in {<<>>} \cup {<<byte>> : byte \in Byte}
  /\ mac \in {"quiet", "sent", "listening"}
  /\ asked \in Commands
  /\ typed \in Seq(Moves)
  /\ heard \in Seq(Moves)
  /\ giveUps \in 0..MaxGiveUps
  /\ resets \in 0..MaxResets

\* Between resets the keyboard, the VIA and the driver are in the same exchange:
\* no answer waits while another is on the wire or no one asked, a Macintosh
\* that listens has an answer coming, and one that sent a command will be told
\* that it has gone out (the two events of keyboard.tick, and via.tick).
OneExchangeAtATime ==
  /\ stage # "idle" => waiting = <<>> /\ mac # "quiet"
  /\ stage = "sending" => mac = "sent" /\ ~flag
  /\ mac = "sent" => stage = "sending" \/ flag
  /\ mac = "listening" => stage = "answering" \/ waiting # <<>> \/ flag
  /\ mac = "listening" /\ flag => stage = "idle" /\ waiting = <<>>

\* The byte on its way to the driver, when it carries a key.
InFlight ==
  IF asked \notin {CmdInquiry, CmdInstant} \/ ~known THEN <<>>
  ELSE IF stage # "idle" THEN <<response>>
  ELSE IF mac = "listening" /\ flag THEN <<sr>>
  ELSE waiting

\* All the bytes on their way.
OnTheirWay == InFlight \o queue

\* The places of the moves in a line of bytes, and what the driver makes of the
\* byte of a place when it reads the line, after a prefix or not.
MovesIn(line) == {i \in DOMAIN line : line[i] \notin {KeypadPrefix, Null}}
MoveAt(line, after, i) ==
  Move(line[i], IF i = 1 THEN after ELSE line[i - 1] = KeypadPrefix)

\* A move is as the key was typed: the prefix of a key of the keypad is there.
AsTyped(move, key) ==
  move.byte = key.byte /\ (key.prefixed => move.prefixed)

\* The moves in the line are the keys from the given one on, one for one and in
\* order: each key has its place, and no place is without its key.
InLine(line, after, keys, first) ==
  \E at \in [first..Len(keys) -> MovesIn(line)] :
    /\ \A m, n \in first..Len(keys) : m < n => at[m] < at[n]
    /\ \A i \in MovesIn(line) : \E n \in first..Len(keys) : at[n] = i
    /\ \A n \in first..Len(keys) : AsTyped(MoveAt(line, after, at[n]), keys[n])

\* "An answer still waiting for the last one goes back to the keyboard first,
\* so that a key it reported is not lost" (via.poke): every move the keyboard
\* took in since it was last asked its model is read by the driver once and in
\* order, or still on its way, and one of the keypad with its prefix.
EveryMoveArrives ==
  /\ Len(heard) <= Len(typed)
  /\ \A n \in 1..Len(heard) : AsTyped(heard[n], typed[n])
  /\ InLine(OnTheirWay, afterPrefix, typed, Len(heard) + 1)

\* Once the driver stops giving up, it comes to have heard every move: neither
\* side waits for the other for ever (the stages of keyboard.tick).
MovesAreHeard == []<>(Len(heard) = Len(typed))
=============================================================================
