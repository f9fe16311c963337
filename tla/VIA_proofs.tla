----------------------------- MODULE VIA_proofs -----------------------------
(***************************************************************************)
(* What holds of the two things the VIA is in the middle of: the keyboard  *)
(* on its shift register (Keyboard), and the clock and the mouse on its    *)
(* port B (PortB).                                                         *)
(*                                                                         *)
(* The keyboard, for any keys, any queue and any number of commands given  *)
(* up and of resets.  Its first two theorems are about the exchanges, and  *)
(* their invariant is IInv.  The third is about the keys: every one of     *)
(* them that is not taken for an answer of the keyboard arrives once, in   *)
(* order, and with its prefix.  It is an argument about lines of bytes: a  *)
(* byte read off the front of a line, put at the end of it or given back   *)
(* before it leaves the other moves in their places, or one place on       *)
(* (Carried).                                                              *)
(*                                                                         *)
(* The port B, for any chip, any routines of the clock and any of their    *)
(* values.  The mouse comes first (PointerIInv).  Then the clock: what the *)
(* chip makes of each bit of a routine and of what cuts it short (During), *)
(* so that what it keeps is what the routines meant (ClockIInv), and what  *)
(* the bytes of the counter read so far say of the time (TimeIInv).  A     *)
(* byte of the counter is read in one step of the model, a fold over the   *)
(* steps of a routine, which is followed one step at a time (FoldSteps).   *)
(***************************************************************************)
EXTENDS Keyboard, PortB, SequenceTheorems, WellFoundedInduction, TLAPS

\* A driver that waits for its command to go out does not listen, so that the
\* answer it has coming waits for it.
AnswerKept ==
  mac = "sent" => ~armed /\ (stage = "idle" => waiting # <<>>)

IInv == TypeOK /\ OneExchangeAtATime /\ AnswerKept

-----------------------------------------------------------------------------
(* The bytes.                                                              *)

\* A transition of the table fits in a byte with the release bit.
LEMMA TransitionFits ==
  ASSUME NEW code \in Byte, NEW up \in {0, KeyUp}
  PROVE  Transition(code) + up \in Byte
<1>1. (code % 128) \div 2 \in 0..63
  BY DEF Byte
<1> QED BY <1>1 DEF Transition, Byte, KeyUp

\* What putKey appends are bytes, and what the driver makes of them moves.
LEMMA BytesOfKeys ==
  ASSUME NEW code \in Keys, NEW up \in {0, KeyUp}
  PROVE  Bytes(code, up) \in Seq(Byte) /\ MovesOf(code, up) \in Seq(Moves)
<1>1. code \in Byte
  BY KeyboardAssumption DEF Byte
<1>2. Transition(code) + up \in Byte
  BY <1>1, TransitionFits
<1>3. Shift + up \in Byte /\ KeypadPrefix \in Byte
  BY DEF Shift, KeypadPrefix, KeyUp, Byte
<1>4. Keypad(code) \in BOOLEAN
  BY <1>1 DEF Keypad, Byte
<1>5. Bytes(code, up) \in Seq(Byte)
  BY <1>2, <1>3 DEF Bytes
<1>6. Move(Shift + up, FALSE) \in Moves /\ Move(Transition(code) + up, Keypad(code)) \in Moves
  BY <1>2, <1>3, <1>4 DEF Move, Moves
<1>7. MovesOf(code, up) \in Seq(Moves)
  <2> DEFINE shift == Move(Shift + up, FALSE)
             key == Move(Transition(code) + up, Keypad(code))
  <2>1. shift \in Moves /\ key \in Moves
    BY <1>6
  <2>2. MovesOf(code, up) = (IF Shifted(code) THEN <<shift>> ELSE <<>>) \o <<key>>
    BY DEF MovesOf
  <2> HIDE DEF shift, key
  <2> QED BY <2>1, <2>2
<1> QED BY <1>5, <1>7

\* The queue with the answer given back holds bytes.
LEMMA QueueBeforeType ==
  ASSUME TypeOK
  PROVE  QueueBefore \in Seq(Byte)
<1>1. CASE waiting = <<>>
  BY <1>1 DEF QueueBefore, TypeOK
<1>2. CASE waiting # <<>>
  <2>1. waiting[1] \in Byte
    BY <1>2 DEF TypeOK
  <2>2. KeypadPrefix \in Byte
    BY DEF KeypadPrefix, Byte
  <2>3. GivenBack(waiting[1]) \in Seq(Byte)
    BY <2>1, <2>2 DEF GivenBack, TypeOK
  <2> QED BY <1>2, <2>3 DEF QueueBefore
<1> QED BY <1>1, <1>2

-----------------------------------------------------------------------------
(* One lemma for a command, one for each step.                             *)

\* A command starts an exchange: whatever waited has gone back to the queue.
LEMMA CommandType ==
  ASSUME TypeOK, NEW value \in Commands, Command(value)
  PROVE  /\ queue' \in Seq(Byte)
         /\ {taken', response', sr'} \subseteq Byte
         /\ prefixed' \in BOOLEAN
         /\ stage' = "sending" /\ waiting' = <<>> /\ flag' = FALSE /\ armed' = FALSE
<1>1. QueueBefore \in Seq(Byte)
  BY QueueBeforeType
<1>2. value \in Byte /\ {Null, Model, Ack} \subseteq Byte
  BY DEF Commands, CmdInquiry, CmdInstant, CmdModel, CmdTest, Byte, Null, Model, Ack
<1>3. stage' = "sending" /\ waiting' = <<>> /\ flag' = FALSE /\ armed' = FALSE /\ sr' = value
  BY DEF Command, Answers, WriteRegister
<1>4. /\ queue' \in Seq(Byte)
      /\ {taken', response'} \subseteq Byte
      /\ prefixed' \in BOOLEAN
  <2>1. CASE value \in {CmdInquiry, CmdInstant} /\ NextTransition
    <3>1. CASE QueueBefore = <<>>
      BY <2>1, <3>1, <1>2 DEF NextTransition, TypeOK
    <3>2. CASE QueueBefore # <<>>
      <4>1. Head(QueueBefore) \in Byte /\ Tail(QueueBefore) \in Seq(Byte)
        BY <1>1, <3>2
      <4> QED BY <2>1, <3>2, <4>1 DEF NextTransition
    <3> QED BY <3>1, <3>2
  <2>2. CASE queue' = <<>> /\ response' = Model /\ UNCHANGED <<taken, prefixed>>
    BY <2>2, <1>2 DEF TypeOK
  <2>3. CASE queue' = QueueBefore /\ response' = Ack /\ UNCHANGED <<taken, prefixed>>
    BY <2>3, <1>1, <1>2 DEF TypeOK
  <2> QED BY <2>1, <2>2, <2>3 DEF Command, Answers, WriteRegister
<1> QED BY <1>2, <1>3, <1>4

\* Sending a command, the next or another, keeps the invariant.
LEMMA SendsInv ==
  ASSUME IInv, NEW value \in Commands, Sends(value), resets' = resets,
         afterPrefix' \in BOOLEAN, giveUps' \in 0..MaxGiveUps
  PROVE  IInv'
<1>1. /\ queue' \in Seq(Byte)
      /\ {taken', response', sr'} \subseteq Byte
      /\ prefixed' \in BOOLEAN
      /\ stage' = "sending" /\ waiting' = <<>> /\ flag' = FALSE /\ armed' = FALSE
  BY CommandType DEF IInv, Sends
<1>2. /\ mac' = "sent" /\ asked' = value
      /\ UNCHANGED <<known, heard, resets>>
      /\ typed' \in Seq(Moves)
  BY DEF IInv, TypeOK, Sends
<1>3. TypeOK'
  BY <1>1, <1>2 DEF IInv, TypeOK
<1>4. OneExchangeAtATime' /\ AnswerKept'
  BY <1>1, <1>2 DEF OneExchangeAtATime, AnswerKept
<1> QED BY <1>3, <1>4 DEF IInv

LEMMA TickInv ==
  ASSUME IInv, Tick
  PROVE  IInv'
<1>1. /\ UNCHANGED <<queue, taken, prefixed, response, driver, history>>
      /\ stage' = NextStage
      /\ stage # "idle" \/ (waiting # <<>> /\ armed)
  BY DEF Tick, Ready
<1>2. stage' \in {"idle", "answering"}
  BY <1>1 DEF NextStage
<1>3. Due \in {<<>>} \cup {<<byte>> : byte \in Byte}
  BY DEF IInv, TypeOK, Due
<1>4. CASE Due # <<>> /\ armed
  <2>1. sr' = Due[1] /\ waiting' = <<>> /\ flag' = TRUE /\ armed' = FALSE
    BY <1>4 DEF Tick, Ready, ShiftIn
  <2>2. Due[1] \in Byte
    BY <1>3, <1>4
  <2>3. TypeOK'
    BY <1>1, <1>2, <2>1, <2>2 DEF IInv, TypeOK, driver, history
  <2>4. mac' # "sent" /\ stage # "sending"
    BY <1>1, <1>4 DEF IInv, OneExchangeAtATime, AnswerKept, driver
  <2>5. stage' = "idle"
    BY <1>1, <2>4 DEF NextStage
  <2>6. OneExchangeAtATime' /\ AnswerKept'
    BY <2>1, <2>4, <2>5 DEF OneExchangeAtATime, AnswerKept
  <2> QED BY <2>3, <2>6 DEF IInv
<1>5. CASE ~(Due # <<>> /\ armed)
  <2>1. waiting' = Due /\ flag' = (flag \/ SentNow) /\ UNCHANGED <<sr, armed>>
    BY <1>5 DEF Tick, Ready, ShiftIn
  <2>2. TypeOK'
    BY <1>1, <1>2, <1>3, <2>1 DEF IInv, TypeOK, SentNow, driver, history
  <2> SUFFICES OneExchangeAtATime' /\ AnswerKept'
    BY <2>2 DEF IInv
  <2>3. CASE stage = "sending"
    BY <1>1, <2>1, <2>3 DEF IInv, OneExchangeAtATime, AnswerKept, Due, NextStage, SentNow, driver
  <2>4. CASE stage = "answering"
    <3>1. waiting' = <<response>> /\ stage' = "idle" /\ flag' = flag /\ mac' = mac /\ armed' = armed
      BY <1>1, <2>1, <2>4 DEF Due, NextStage, SentNow, IInv, TypeOK, driver
    <3> QED BY <2>4, <3>1 DEF IInv, OneExchangeAtATime, AnswerKept
  <2>5. CASE stage = "idle"
    BY <1>1, <1>5, <2>5 DEF Due
  <2> QED BY <2>3, <2>4, <2>5 DEF IInv, TypeOK
<1> QED BY <1>4, <1>5

-----------------------------------------------------------------------------
\* The invariant holds at power on, and every step keeps it.
THEOREM Invariant == Spec => []IInv
<1>1. Init => IInv
  <2> SUFFICES ASSUME Init PROVE IInv
    OBVIOUS
  <2>1. TypeOK
    <3>1. MaxGiveUps \in Nat /\ MaxResets \in Nat
      BY KeyboardAssumption
    <3>2. 0 \in Byte /\ CmdModel \in Commands
      BY DEF Byte, Commands
    <3>3. <<>> \in Seq(Byte) /\ <<>> \in Seq(Moves)
      OBVIOUS
    <3>4. /\ queue \in Seq(Byte) /\ typed \in Seq(Moves) /\ heard \in Seq(Moves)
          /\ {taken, response, sr} \subseteq Byte
          /\ asked \in Commands
          /\ giveUps \in 0..MaxGiveUps /\ resets \in 0..MaxResets
      BY <3>1, <3>2, <3>3 DEF Init
    <3>5. /\ {prefixed, flag, armed, known, afterPrefix} \subseteq BOOLEAN
          /\ stage \in {"idle", "sending", "answering"}
          /\ mac \in {"quiet", "sent", "listening"}
          /\ waiting \in {<<>>} \cup {<<byte>> : byte \in Byte}
      BY DEF Init
    <3> QED BY <3>4, <3>5 DEF TypeOK
  <2>2. OneExchangeAtATime /\ AnswerKept
    BY DEF Init, OneExchangeAtATime, AnswerKept
  <2> QED BY <2>1, <2>2 DEF IInv
<1>2. IInv /\ [Next]_vars => IInv'
  <2> SUFFICES ASSUME IInv, [Next]_vars PROVE IInv'
    OBVIOUS
  <2>1. ASSUME NEW code \in Keys, NEW up \in {0, KeyUp}, PutKey(code, up)
        PROVE  IInv'
    <3>1. queue' \in Seq(Byte) /\ typed' \in Seq(Moves)
      BY <2>1, BytesOfKeys DEF PutKey, IInv, TypeOK
    <3>2. UNCHANGED <<taken, prefixed, response, stage, via, driver, heard, giveUps, resets>>
      BY <2>1 DEF PutKey
    <3>3. TypeOK'
      BY <3>1, <3>2 DEF IInv, TypeOK, via, driver
    <3>4. OneExchangeAtATime' /\ AnswerKept'
      BY <3>2 DEF IInv, OneExchangeAtATime, AnswerKept, via, driver
    <3> QED BY <3>3, <3>4 DEF IInv
  <2>2. CASE Send
    <3>1. PICK value \in Commands : Sends(value)
      BY <2>2 DEF Send, Commands
    <3>2. UNCHANGED <<afterPrefix, giveUps, resets>>
      BY <2>2 DEF Send, Sends
    <3> QED BY <3>1, <3>2, SendsInv DEF IInv, TypeOK
  <2>3. CASE GiveUp
    <3>1. PICK value \in Commands : Sends(value)
      BY <2>3 DEF GiveUp, Commands
    <3>2. afterPrefix' = FALSE /\ giveUps' \in 0..MaxGiveUps /\ resets' = resets
      BY <2>3, KeyboardAssumption DEF GiveUp, Sends, IInv, TypeOK
    <3> QED BY <3>1, <3>2, SendsInv
  <2>4. CASE Listen
    <3>1. TypeOK'
      BY <2>4 DEF Listen, ReadRegister, IInv, TypeOK, keyboard, history
    <3>2. OneExchangeAtATime' /\ AnswerKept'
      BY <2>4 DEF Listen, ReadRegister, IInv, TypeOK, OneExchangeAtATime, AnswerKept, keyboard
    <3> QED BY <3>1, <3>2 DEF IInv
  <2>5. CASE Take
    <3>1. known' \in BOOLEAN /\ afterPrefix' \in BOOLEAN /\ heard' \in Seq(Moves)
      <4>1. Move(sr, afterPrefix) \in Moves
        BY DEF Move, Moves, IInv, TypeOK
      <4> QED BY <2>5, <4>1 DEF Take, ReadRegister, Reads, IInv, TypeOK
    <3>2. TypeOK'
      BY <2>5, <3>1 DEF Take, ReadRegister, IInv, TypeOK, keyboard
    <3>3. OneExchangeAtATime' /\ AnswerKept'
      BY <2>5 DEF Take, ReadRegister, IInv, OneExchangeAtATime, AnswerKept, keyboard
    <3> QED BY <3>2, <3>3 DEF IInv
  <2>6. CASE Tick
    BY <2>6, TickInv
  <2>7. CASE Reset
    <3>1. TypeOK'
      <4>1. resets' \in 0..MaxResets
        BY <2>7, KeyboardAssumption DEF Reset, KeyboardReset, ResetRegister, IInv, TypeOK
      <4>2. queue' \in Seq(Byte) /\ typed' \in Seq(Moves)
        BY <2>7 DEF Reset, KeyboardReset, ResetRegister, IInv, TypeOK
      <4> QED BY <2>7, <4>1, <4>2 DEF Reset, KeyboardReset, ResetRegister, IInv, TypeOK
    <3>2. OneExchangeAtATime' /\ AnswerKept'
      BY <2>7 DEF Reset, KeyboardReset, ResetRegister, OneExchangeAtATime, AnswerKept
    <3> QED BY <3>1, <3>2 DEF IInv
  <2>8. CASE UNCHANGED vars
    BY <2>8 DEF IInv, TypeOK, OneExchangeAtATime, AnswerKept, vars, keyboard, via, driver, history
  <2> QED BY <2>1, <2>2, <2>3, <2>4, <2>5, <2>6, <2>7, <2>8 DEF Next
<1> QED BY <1>1, <1>2, PTL DEF Spec

\* Every variable keeps its type, the queue and the register hold bytes.
THEOREM TypeCorrect == Spec => []TypeOK
BY Invariant, PTL DEF IInv

\* No two exchanges overlap, and neither side is left waiting for an event of
\* the other that is not to come.
THEOREM OneExchange == Spec => []OneExchangeAtATime
BY Invariant, PTL DEF IInv

-----------------------------------------------------------------------------
(* Lines of bytes, and the keys in them.                                   *)

\* The places of the moves are places of the line.
LEMMA PlacesOfMoves ==
  ASSUME NEW line \in Seq(Byte)
  PROVE  /\ Len(line) \in Nat
         /\ MovesIn(line) \subseteq 1..Len(line) /\ MovesIn(line) \subseteq Nat \ {0}
         /\ \A i \in 1..Len(line) :
              i \in MovesIn(line) <=> line[i] # KeypadPrefix /\ line[i] # Null
BY DEF MovesIn

\* What is in the move of a place.
LEMMA MoveFields ==
  ASSUME NEW line, NEW after, NEW i
  PROVE  /\ MoveAt(line, after, i).byte = line[i]
         /\ i = 1 => (MoveAt(line, after, i).prefixed = after)
         /\ i # 1 => (MoveAt(line, after, i).prefixed <=> line[i - 1] = KeypadPrefix)
BY Zenon DEF MoveAt, Move

\* A line whose moves are those of another, some places on, has the same keys,
\* if it loses no prefix.
LEMMA Carried ==
  ASSUME NEW line \in Seq(Byte), NEW other \in Seq(Byte), NEW after, NEW later,
         NEW keys \in Seq(Moves), NEW first \in Nat \ {0}, NEW d \in Int,
         InLine(line, after, keys, first),
         \A i \in MovesIn(line) :
           /\ i + d \in MovesIn(other) /\ other[i + d] = line[i]
           /\ MoveAt(line, after, i).prefixed => MoveAt(other, later, i + d).prefixed,
         \A i \in MovesIn(other) : i - d \in MovesIn(line)
  PROVE  InLine(other, later, keys, first)
<1> PICK count \in Nat : count = Len(keys)
  OBVIOUS
<1> PICK at \in [first..count -> MovesIn(line)] :
      /\ \A m, n \in first..count : m < n => at[m] < at[n]
      /\ \A i \in MovesIn(line) : \E n \in first..count : at[n] = i
      /\ \A n \in first..count : AsTyped(MoveAt(line, after, at[n]), keys[n])
  BY DEF InLine
<1> DEFINE on == [n \in first..count |-> at[n] + d]
<1>a. MovesIn(line) \subseteq Int /\ MovesIn(other) \subseteq Int
  BY PlacesOfMoves
<1>1. \A n \in first..count : at[n] \in MovesIn(line) /\ at[n] \in Int /\ on[n] = at[n] + d
  BY <1>a
<1>2. on \in [first..count -> MovesIn(other)]
  BY <1>1
<1> HIDE DEF on
<1>3. \A m, n \in first..count : m < n => on[m] < on[n]
  BY <1>1
<1>4. \A i \in MovesIn(other) : \E n \in first..count : on[n] = i
  <2> TAKE i \in MovesIn(other)
  <2>1. i - d \in MovesIn(line) /\ i \in Int
    BY <1>a
  <2> PICK n \in first..count : at[n] = i - d
    BY <2>1
  <2> WITNESS n \in first..count
  <2> QED BY <1>1, <2>1
<1>5. \A n \in first..count : AsTyped(MoveAt(other, later, on[n]), keys[n])
  <2> TAKE n \in first..count
  <2> PICK i \in MovesIn(line) : i = at[n]
    BY <1>1
  <2>1. on[n] = i + d /\ other[i + d] = line[i]
    BY <1>1
  <2>2. MoveAt(other, later, i + d).byte = MoveAt(line, after, i).byte
    BY <2>1, MoveFields
  <2>3. AsTyped(MoveAt(line, after, i), keys[n])
    OBVIOUS
  <2> QED BY <2>1, <2>2, <2>3 DEF AsTyped
<1> QED BY <1>2, <1>3, <1>4, <1>5 DEF InLine

\* Nothing on its way, when nothing is typed that was not heard.
LEMMA NoneLeft ==
  ASSUME NEW line, MovesIn(line) = {}, NEW after, NEW keys \in Seq(Moves)
  PROVE  InLine(line, after, keys, Len(keys) + 1)
<1>1. Len(keys) + 1..Len(keys) = {}
  <2>1. Len(keys) \in Nat
    OBVIOUS
  <2> QED BY ONLY <2>1
<1> DEFINE none == [n \in Len(keys) + 1..Len(keys) |-> 0]
<1>2. none \in [Len(keys) + 1..Len(keys) -> MovesIn(line)]
  BY <1>1
<1> QED BY <1>1, <1>2 DEF InLine

\* A line is a byte and the rest of it.
Begins(line, byte, rest) ==
  /\ line \in Seq(Byte) /\ Len(line) = Len(rest) + 1
  /\ line[1] = byte /\ \A i \in 1..Len(rest) : line[i + 1] = rest[i]

LEMMA BytePlaces ==
  ASSUME NEW byte \in Byte, NEW rest \in Seq(Byte)
  PROVE  Begins(<<byte>> \o rest, byte, rest)
BY DEF Begins

\* A line is another and an element at its end.
Ends(other, line, element) ==
  /\ Len(other) = Len(line) + 1
  /\ other[Len(line) + 1] = element /\ \A i \in 1..Len(line) : other[i] = line[i]

LEMMA BytePut ==
  ASSUME NEW S, NEW element \in S, NEW line \in Seq(S)
  PROVE  Append(line, element) \in Seq(S) /\ Ends(Append(line, element), line, element)
BY AppendProperties, LenProperties DEF Ends

\* A byte that is no move has been read: what follows is read after it.
LEMMA PassedOver ==
  ASSUME NEW byte \in {Null, KeypadPrefix}, NEW rest \in Seq(Byte), NEW after,
         NEW keys \in Seq(Moves), NEW first \in Nat \ {0},
         NEW line, Begins(line, byte, rest), InLine(line, after, keys, first)
  PROVE  InLine(rest, byte = KeypadPrefix, keys, first)
<1>0. /\ line \in Seq(Byte) /\ Len(line) = Len(rest) + 1 /\ Len(rest) \in Nat
      /\ line[1] = byte /\ \A i \in 1..Len(rest) : line[i + 1] = rest[i]
  BY LenProperties DEF Begins
<1> USE <1>0
<1>a. /\ MovesIn(line) \subseteq 2..Len(line)
      /\ \A i \in 1..Len(line) :
           i \in MovesIn(line) <=> line[i] # KeypadPrefix /\ line[i] # Null
  <2>1. /\ MovesIn(line) \subseteq 1..Len(line) /\ 1 \in 1..Len(line)
        /\ \A i \in 1..Len(line) :
             i \in MovesIn(line) <=> line[i] # KeypadPrefix /\ line[i] # Null
    BY PlacesOfMoves
  <2>2. 1 \notin MovesIn(line)
    BY <2>1
  <2> QED BY <2>1, <2>2
<1>b. /\ MovesIn(rest) \subseteq 1..Len(rest)
      /\ \A i \in 1..Len(rest) :
           i \in MovesIn(rest) <=> rest[i] # KeypadPrefix /\ rest[i] # Null
  BY PlacesOfMoves
<1>c. \A i \in 2..Len(line) : i - 1 \in 1..Len(rest) /\ rest[i - 1] = line[i]
  BY <1>0
<1>1. \A i \in MovesIn(line) : i - 1 \in MovesIn(rest) /\ rest[i - 1] = line[i]
  BY <1>a, <1>b, <1>c
<1>2. \A i \in MovesIn(rest) : i + 1 \in MovesIn(line)
  BY <1>a, <1>b
<1>3. ASSUME NEW i \in MovesIn(line), MoveAt(line, after, i).prefixed
      PROVE  MoveAt(rest, byte = KeypadPrefix, i - 1).prefixed
  <2>1. i \in 2..Len(line)
    BY <1>a
  <2>2. line[i - 1] = KeypadPrefix
    <3>1. i # 1 /\ MoveAt(line, after, i).prefixed
      BY <1>3, <2>1
    <3>2. MoveAt(line, after, i).prefixed <=> line[i - 1] = KeypadPrefix
      BY ONLY <3>1, Zenon DEF MoveAt, Move
    <3> QED BY ONLY <3>1, <3>2
  <2> PICK j \in Nat : j = i - 1
    BY <2>1
  <2>3. IF j = 1 THEN byte = KeypadPrefix ELSE rest[j - 1] = KeypadPrefix
    BY <1>c, <2>1, <2>2, SMTT(30)
  <2> DEFINE later == byte = KeypadPrefix
  <2>4. j = 1 => later
    BY <2>3
  <2> HIDE DEF later
  <2>5. MoveAt(rest, later, j).prefixed
    <3>1. CASE j = 1
      <4>1. MoveAt(rest, later, j).prefixed = later
        BY ONLY <3>1, Zenon DEF MoveAt, Move
      <4> QED BY ONLY <2>4, <3>1, <4>1
    <3>2. CASE j # 1
      <4>1. rest[j - 1] = KeypadPrefix
        BY <2>3, <3>2
      <4> QED BY ONLY <3>2, <4>1, MoveFields, Zenon
    <3> QED BY <3>1, <3>2
  <2> QED BY <2>5 DEF later
<1> PICK d \in Int : d = -1
  OBVIOUS
<1> DEFINE later == byte = KeypadPrefix
<1>4. \A i \in MovesIn(line) :
        /\ i + d \in MovesIn(rest) /\ rest[i + d] = line[i]
        /\ MoveAt(line, after, i).prefixed => MoveAt(rest, later, i + d).prefixed
  <2> TAKE i \in MovesIn(line)
  <2>1. i + d = i - 1
    BY <1>a
  <2> QED BY <1>1, <1>3, <2>1
<1>5. \A i \in MovesIn(rest) : i - d \in MovesIn(line)
  <2> TAKE i \in MovesIn(rest)
  <2>1. i - d = i + 1
    BY <1>b
  <2> QED BY <1>2, <2>1
<1> HIDE DEF later
<1>6. line \in Seq(Byte) /\ InLine(line, after, keys, first)
  OBVIOUS
<1>7. InLine(rest, later, keys, first)
  <2> HIDE <1>0
  <2> QED BY <1>4, <1>5, <1>6, Carried, ZenonT(20)
<1> QED BY <1>7 DEF later

\* A move has been read: it was the first of the keys in the line.
LEMMA MoveRead ==
  ASSUME NEW byte \in Byte, byte # Null, byte # KeypadPrefix, NEW rest \in Seq(Byte), NEW after,
         NEW keys \in Seq(Moves), NEW first \in Nat \ {0},
         NEW line, Begins(line, byte, rest), InLine(line, after, keys, first)
  PROVE  /\ first <= Len(keys)
         /\ AsTyped(Move(byte, after), keys[first])
         /\ InLine(rest, FALSE, keys, first + 1)
<1>0. /\ line \in Seq(Byte) /\ Len(line) = Len(rest) + 1 /\ Len(rest) \in Nat
      /\ line[1] = byte /\ \A i \in 1..Len(rest) : line[i + 1] = rest[i]
  BY LenProperties DEF Begins
<1> USE <1>0
<1>a. /\ MovesIn(line) \subseteq 1..Len(line)
      /\ \A i \in 1..Len(line) :
           i \in MovesIn(line) <=> line[i] # KeypadPrefix /\ line[i] # Null
  BY PlacesOfMoves
<1>b. /\ MovesIn(rest) \subseteq 1..Len(rest)
      /\ \A i \in 1..Len(rest) :
           i \in MovesIn(rest) <=> rest[i] # KeypadPrefix /\ rest[i] # Null
  BY PlacesOfMoves
<1>c. \A i \in 2..Len(line) : i - 1 \in 1..Len(rest) /\ rest[i - 1] = line[i]
  BY <1>0
<1> PICK count \in Nat : count = Len(keys)
  OBVIOUS
<1> PICK at \in [first..count -> MovesIn(line)] :
      /\ \A m, n \in first..count : m < n => at[m] < at[n]
      /\ \A i \in MovesIn(line) : \E n \in first..count : at[n] = i
      /\ \A n \in first..count : AsTyped(MoveAt(line, after, at[n]), keys[n])
  BY DEF InLine
<1>1. 1 \in MovesIn(line)
  BY <1>a
<1>2. \A n \in first..count : at[n] \in 1..Len(line)
  BY <1>a
<1>3. first \in first..count /\ at[first] = 1
  <2> PICK n \in first..count : at[n] = 1
    BY <1>1
  <2>1. first \in first..count /\ (first = n \/ first < n)
    OBVIOUS
  <2>2. ~(at[first] < 1)
    BY <1>2, <2>1
  <2> QED BY <2>1, <2>2
<1>4. \A n \in first + 1..count : n \in first..count /\ at[n] > 1
  BY <1>3
<1> DEFINE on == [n \in first + 1..count |-> at[n] - 1]
<1>5. \A n \in first + 1..count :
        /\ on[n] = at[n] - 1 /\ at[n] \in MovesIn(line) /\ at[n] \in 2..Len(line)
        /\ on[n] \in 1..Len(rest) /\ rest[on[n]] = line[at[n]]
  BY <1>2, <1>4, <1>c
<1>6. on \in [first + 1..count -> MovesIn(rest)]
  <2>1. \A n \in first + 1..count : on[n] \in MovesIn(rest)
    <3> TAKE n \in first + 1..count
    <3> PICK i \in MovesIn(line) : i = at[n]
      BY <1>5
    <3>1. line[i] # KeypadPrefix /\ line[i] # Null
      BY <1>a
    <3> PICK j \in 1..Len(rest) : j = on[n] /\ rest[j] = line[i]
      BY <1>5
    <3> QED BY <1>b, <3>1
  <2> HIDE <1>0
  <2> QED BY <2>1
<1> HIDE DEF on
<1>7. \A m, n \in first + 1..count : m < n => on[m] < on[n]
  BY <1>4, <1>5
<1>8. \A i \in MovesIn(rest) : \E n \in first + 1..count : on[n] = i
  <2> TAKE i \in MovesIn(rest)
  <2>1. i + 1 \in MovesIn(line) /\ i \in Nat /\ i >= 1
    BY <1>a, <1>b
  <2> PICK n \in first..count : at[n] = i + 1
    BY <2>1
  <2>2. n \in first + 1..count
    BY <1>3, <2>1
  <2>3. on[n] = i
    BY <1>5, <2>1, <2>2
  <2> QED BY <2>2, <2>3
<1>9. \A n \in first + 1..count : AsTyped(MoveAt(rest, FALSE, on[n]), keys[n])
  <2> TAKE n \in first + 1..count
  <2>0. at[n] \in 2..Len(line) /\ on[n] = at[n] - 1 /\ rest[on[n]] = line[at[n]]
    BY <1>5, Zenon
  <2> PICK i \in 2..Len(line) : i = at[n] /\ on[n] = i - 1 /\ rest[i - 1] = line[i]
    BY ONLY <2>0
  <2>1. AsTyped(MoveAt(line, after, i), keys[n])
    BY <1>4, SMTT(30)
  <2>2. IF i - 1 = 1 THEN line[i - 1] = byte ELSE rest[(i - 1) - 1] = line[i - 1]
    BY <1>c
  <2>3. rest[i - 1] = line[i] /\ i # 1
    OBVIOUS
  <2> PICK j \in 1..Len(rest) : j = i - 1
    OBVIOUS
  <2>4. IF j = 1 THEN line[i - 1] = byte ELSE rest[j - 1] = line[i - 1]
    BY <2>2
  <2>5. line[i - 1] = KeypadPrefix => MoveAt(rest, FALSE, j).prefixed
    <3> SUFFICES ASSUME line[i - 1] = KeypadPrefix PROVE MoveAt(rest, FALSE, j).prefixed
      OBVIOUS
    <3>1. j # 1 /\ rest[j - 1] = KeypadPrefix
      BY <2>4
    <3> QED BY ONLY <3>1, MoveFields, Zenon
  <2>6. MoveAt(rest, FALSE, j).byte = MoveAt(line, after, i).byte
    <3>1. rest[j] = line[i]
      BY <2>3
    <3>2. MoveAt(rest, FALSE, j).byte = rest[j]
      BY ONLY Zenon DEF MoveAt, Move
    <3>3. MoveAt(line, after, i).byte = line[i]
      BY ONLY MoveFields
    <3> QED BY ONLY <3>1, <3>2, <3>3
  <2>7. MoveAt(line, after, i).prefixed => MoveAt(rest, FALSE, j).prefixed
    BY <2>3, <2>5, MoveFields
  <2> QED BY <2>1, <2>6, <2>7 DEF AsTyped
<1>10. AsTyped(Move(byte, after), keys[first])
  BY <1>3 DEF MoveAt
<1>11. InLine(rest, FALSE, keys, first + 1)
  BY <1>6, <1>7, <1>8, <1>9 DEF InLine
<1>12. first <= Len(keys)
  BY <1>3
<1> QED BY <1>10, <1>11, <1>12

\* A byte that is no move is put at the end of the line.
LEMMA PrefixAdded ==
  ASSUME NEW line \in Seq(Byte), NEW after, NEW keys \in Seq(Moves), NEW first \in Nat \ {0},
         InLine(line, after, keys, first),
         NEW other \in Seq(Byte), Ends(other, line, KeypadPrefix)
  PROVE  InLine(other, after, keys, first)
<1>0. /\ other \in Seq(Byte) /\ Len(other) = Len(line) + 1 /\ Len(line) \in Nat
      /\ other[Len(line) + 1] = KeypadPrefix /\ \A i \in 1..Len(line) : other[i] = line[i]
  BY LenProperties DEF Ends
<1> USE <1>0
<1>a. /\ MovesIn(line) \subseteq 1..Len(line)
      /\ \A i \in 1..Len(line) :
           i \in MovesIn(line) <=> line[i] # KeypadPrefix /\ line[i] # Null
  BY PlacesOfMoves
<1>b. /\ MovesIn(other) \subseteq 1..Len(line) + 1
      /\ \A i \in 1..Len(line) + 1 :
           i \in MovesIn(other) <=> other[i] # KeypadPrefix /\ other[i] # Null
  BY PlacesOfMoves
<1> PICK d \in Int : d = 0
  OBVIOUS
<1>2. \A i \in MovesIn(line) : i \in MovesIn(other) /\ i + d = i /\ other[i] = line[i]
  BY <1>a, <1>b
<1>3. \A i \in MovesIn(other) : i \in MovesIn(line) /\ i - d = i
  BY <1>a, <1>b
<1>4. \A i \in MovesIn(line) :
        /\ i + d \in MovesIn(other) /\ other[i + d] = line[i]
        /\ MoveAt(line, after, i).prefixed => MoveAt(other, after, i + d).prefixed
  <2> TAKE i \in MovesIn(line)
  <2>1. i \in 1..Len(line) /\ (i # 1 => i - 1 \in 1..Len(line))
    BY <1>a
  <2>2. MoveAt(other, after, i) = MoveAt(line, after, i)
    BY <2>1 DEF MoveAt
  <2> HIDE <1>0
  <2> QED BY <1>2, <2>2
<1>5. \A i \in MovesIn(other) : i - d \in MovesIn(line)
  BY <1>3
<1>6. InLine(line, after, keys, first)
  OBVIOUS
<1> HIDE <1>0
<1> QED BY <1>4, <1>5, <1>6, Carried, ZenonT(20)

\* A key is typed: its move is put at the end of the line, after the prefix if
\* it is of the keypad.
LEMMA KeyAdded ==
  ASSUME NEW line \in Seq(Byte), NEW after, NEW keys \in Seq(Moves), NEW first \in Nat \ {0},
         first <= Len(keys) + 1, InLine(line, after, keys, first),
         NEW byte \in Byte, byte # Null, byte # KeypadPrefix, NEW keypad \in BOOLEAN,
         keypad => Len(line) # 0 /\ line[Len(line)] = KeypadPrefix,
         NEW other \in Seq(Byte), Ends(other, line, byte),
         NEW key \in Moves, key.byte = byte, key.prefixed = keypad,
         NEW more \in Seq(Moves), Ends(more, keys, key)
  PROVE  InLine(other, after, more, first)
<1>0. /\ other \in Seq(Byte) /\ Len(other) = Len(line) + 1 /\ Len(line) \in Nat
      /\ other[Len(line) + 1] = byte /\ \A i \in 1..Len(line) : other[i] = line[i]
  BY LenProperties DEF Ends
<1> USE <1>0
<1>e. /\ more \in Seq(Moves) /\ Len(more) = Len(keys) + 1 /\ Len(keys) \in Nat
      /\ more[Len(keys) + 1] = key /\ \A n \in 1..Len(keys) : more[n] = keys[n]
  BY LenProperties DEF Ends
<1> USE <1>e
<1> PICK count \in Nat : count = Len(keys)
  OBVIOUS
<1> PICK last \in Nat \ {0} : last = Len(other)
  OBVIOUS
<1> PICK at \in [first..count -> MovesIn(line)] :
      /\ \A m, n \in first..count : m < n => at[m] < at[n]
      /\ \A i \in MovesIn(line) : \E n \in first..count : at[n] = i
      /\ \A n \in first..count : AsTyped(MoveAt(line, after, at[n]), keys[n])
  BY DEF InLine
<1>a. /\ MovesIn(line) \subseteq 1..last - 1 /\ last - 1 = Len(line)
      /\ \A i \in 1..last - 1 :
           i \in MovesIn(line) <=> line[i] # KeypadPrefix /\ line[i] # Null
  BY PlacesOfMoves
<1>b. /\ MovesIn(other) \subseteq 1..last
      /\ \A i \in 1..last :
           i \in MovesIn(other) <=> other[i] # KeypadPrefix /\ other[i] # Null
  BY PlacesOfMoves
<1>1. \A n \in first..count : at[n] \in MovesIn(line) /\ at[n] \in 1..last - 1
  BY <1>a
<1>2. /\ \A i \in MovesIn(line) : i \in MovesIn(other) /\ i \in 1..last - 1
      /\ last \in MovesIn(other)
      /\ \A i \in MovesIn(other) : i = last \/ i \in MovesIn(line)
  <2>1. \A i \in 1..last - 1 : i \in 1..last /\ other[i] = line[i]
    BY <1>a
  <2>2. \A i \in MovesIn(line) : i \in MovesIn(other) /\ i \in 1..last - 1
    BY <1>a, <1>b, <2>1
  <2>3. last \in 1..last /\ other[last] = byte
    OBVIOUS
  <2>4. last \in MovesIn(other)
    BY <1>b, <2>3
  <2>5. \A i \in 1..last : i = last \/ i \in 1..last - 1
    OBVIOUS
  <2>6. \A i \in MovesIn(other) : i = last \/ i \in MovesIn(line)
    BY <1>a, <1>b, <2>1, <2>5
  <2> QED BY <2>2, <2>4, <2>6
<1>3. \A n \in first..count + 1 : n = count + 1 \/ n \in first..count
  OBVIOUS
<1>4. count + 1 \in first..count + 1 /\ \A n \in first..count : n \in first..count + 1 /\ n # count + 1
  OBVIOUS
<1> DEFINE on == [n \in first..count + 1 |-> IF n = count + 1 THEN last ELSE at[n]]
<1>5. on[count + 1] = last /\ \A n \in first..count : on[n] = at[n]
  BY <1>4
<1>6. on \in [first..count + 1 -> MovesIn(other)]
  BY <1>1, <1>2, <1>3
<1> HIDE DEF on
<1>7. \A m, n \in first..count + 1 : m < n => on[m] < on[n]
  <2> SUFFICES ASSUME NEW m \in first..count + 1, NEW n \in first..count + 1, m < n
               PROVE  on[m] < on[n]
    OBVIOUS
  <2>1. m \in first..count
    OBVIOUS
  <2>2. CASE n = count + 1
    BY <1>1, <1>5, <2>1, <2>2
  <2>3. CASE n \in first..count
    BY <1>5, <2>1, <2>3
  <2> QED BY <1>3, <2>2, <2>3
<1>8. \A i \in MovesIn(other) : \E n \in first..count + 1 : on[n] = i
  <2> TAKE i \in MovesIn(other)
  <2>1. CASE i = last
    BY <1>4, <1>5, <2>1
  <2>2. CASE i \in MovesIn(line)
    <3> PICK n \in first..count : at[n] = i
      BY <2>2
    <3> QED BY <1>4, <1>5
  <2> QED BY <1>2, <2>1, <2>2
<1>9. \A n \in first..count + 1 : AsTyped(MoveAt(other, after, on[n]), more[n])
  <2> TAKE n \in first..count + 1
  <2>1. CASE n = count + 1
    <3>1. other[last] = byte /\ more[n] = key /\ on[n] = last
      BY <1>5, <2>1
    <3>2. keypad => last # 1 /\ other[last - 1] = KeypadPrefix
      <4> SUFFICES ASSUME keypad PROVE last # 1 /\ other[last - 1] = KeypadPrefix
        OBVIOUS
      <4>1. last - 1 = Len(line) /\ Len(line) \in 1..Len(line)
        OBVIOUS
      <4> QED BY <4>1
    <3>3. MoveAt(other, after, last).byte = byte
      <4>1. MoveAt(other, after, last).byte = other[last]
        BY ONLY MoveFields
      <4> QED BY ONLY <3>1, <4>1
    <3>4. keypad => MoveAt(other, after, last).prefixed
      BY ONLY <3>2, MoveFields, Zenon
    <3> QED BY <3>1, <3>3, <3>4 DEF AsTyped
  <2>2. CASE n \in first..count
    <3> PICK i \in MovesIn(line) : i = at[n] /\ on[n] = i /\ i \in 1..last - 1
      BY <1>1, <1>5, <2>2
    <3>1. i \in 1..Len(line) /\ (i # 1 => i - 1 \in 1..Len(line))
      OBVIOUS
    <3>2. MoveAt(other, after, i) = MoveAt(line, after, i)
      BY <3>1 DEF MoveAt
    <3>3. AsTyped(MoveAt(line, after, i), keys[n])
      BY <2>2
    <3>4. n \in 1..Len(keys)
      BY <2>2
    <3>5. more[n] = keys[n] /\ on[n] = i
      BY <3>4
    <3> QED BY ONLY <3>2, <3>3, <3>5
  <2> QED BY <1>3, <2>1, <2>2
<1>10. count + 1 = Len(more)
  OBVIOUS
<1> HIDE <1>0, <1>e
<1>11. on \in [first..Len(more) -> MovesIn(other)]
  BY ONLY <1>6, <1>10
<1>12. \A m, n \in first..Len(more) : m < n => on[m] < on[n]
  BY ONLY <1>7, <1>10
<1>13. \A i \in MovesIn(other) : \E n \in first..Len(more) : on[n] = i
  BY ONLY <1>8, <1>10
<1>14. \A n \in first..Len(more) : AsTyped(MoveAt(other, after, on[n]), more[n])
  BY ONLY <1>9, <1>10
<1> QED BY <1>11, <1>12, <1>13, <1>14, ZenonT(20) DEF InLine

\* The line is read from its start, not after a prefix: nothing is lost if no
\* move was to be read after one.
LEMMA ReadAfresh ==
  ASSUME NEW line \in Seq(Byte), NEW after \in BOOLEAN,
         NEW keys \in Seq(Moves), NEW first \in Nat \ {0}, InLine(line, after, keys, first),
         after => 1 \notin MovesIn(line)
  PROVE  InLine(line, FALSE, keys, first)
<1> PICK d \in Int : d = 0
  OBVIOUS
<1>1. ASSUME NEW i \in MovesIn(line)
      PROVE  /\ i + d \in MovesIn(line) /\ line[i + d] = line[i]
             /\ MoveAt(line, after, i).prefixed => MoveAt(line, FALSE, i + d).prefixed
  <2>1. i + d = i
    BY PlacesOfMoves
  <2>2. CASE i = 1
    <3>1. MoveAt(line, after, i).prefixed = after
      BY ONLY <2>2, Zenon DEF MoveAt, Move
    <3>2. after = FALSE
      BY <2>2
    <3> QED BY <2>1, <3>1, <3>2
  <2>3. CASE i # 1
    <3>1. MoveAt(line, after, i) = MoveAt(line, FALSE, i)
      BY <2>3, Zenon DEF MoveAt
    <3> QED BY <2>1, <3>1
  <2> QED BY <2>2, <2>3
<1>2. \A i \in MovesIn(line) : i - d \in MovesIn(line)
  <2> TAKE i \in MovesIn(line)
  <2>1. i - d = i
    BY PlacesOfMoves
  <2> QED BY <2>1
<1>3. InLine(line, after, keys, first)
  OBVIOUS
<1> QED BY <1>1, <1>2, <1>3, Carried, ZenonT(20)

\* A prefix is put before the line.
LEMMA PrefixPut ==
  ASSUME NEW line \in Seq(Byte), NEW after,
         NEW keys \in Seq(Moves), NEW first \in Nat \ {0}, InLine(line, after, keys, first),
         NEW other, Begins(other, KeypadPrefix, line)
  PROVE  InLine(other, FALSE, keys, first)
<1>0. /\ other \in Seq(Byte) /\ Len(other) = Len(line) + 1 /\ Len(line) \in Nat
      /\ other[1] = KeypadPrefix /\ \A i \in 1..Len(line) : other[i + 1] = line[i]
  BY LenProperties DEF Begins
<1>a. /\ MovesIn(line) \subseteq 1..Len(line)
      /\ \A i \in 1..Len(line) :
           i \in MovesIn(line) <=> line[i] # KeypadPrefix /\ line[i] # Null
  BY PlacesOfMoves
<1>b. /\ MovesIn(other) \subseteq 1..Len(other)
      /\ \A i \in 1..Len(other) :
           i \in MovesIn(other) <=> other[i] # KeypadPrefix /\ other[i] # Null
  BY <1>0, PlacesOfMoves
<1> PICK d \in Int : d = 1
  OBVIOUS
<1>1. ASSUME NEW i \in MovesIn(line)
      PROVE  /\ i + d \in MovesIn(other) /\ other[i + d] = line[i]
             /\ MoveAt(line, after, i).prefixed => MoveAt(other, FALSE, i + d).prefixed
  <2> PICK j \in 1..Len(other) : j = i + d
    BY <1>0, <1>a
  <2>1. i \in 1..Len(line) /\ j = i + 1 /\ j # 1
    BY <1>0, <1>a
  <2>2. other[j] = line[i]
    BY <1>0, <2>1
  <2>3. j \in MovesIn(other)
    BY <1>a, <1>b, <2>1, <2>2
  <2>4. MoveAt(other, FALSE, j).prefixed <=> other[j - 1] = KeypadPrefix
    BY ONLY <2>1, Zenon DEF MoveAt, Move
  <2>5. CASE i = 1
    <3>1. other[j - 1] = KeypadPrefix
      BY <1>0, <2>1, <2>5
    <3> QED BY <2>2, <2>3, <2>4, <3>1
  <2>6. CASE i # 1
    <3>1. MoveAt(line, after, i).prefixed <=> line[i - 1] = KeypadPrefix
      BY ONLY <2>6, Zenon DEF MoveAt, Move
    <3>2. other[j - 1] = line[i - 1]
      BY <1>0, <2>1, <2>6
    <3> QED BY <2>2, <2>3, <2>4, <3>1, <3>2
  <2> QED BY <2>5, <2>6
<1>2. \A i \in MovesIn(other) : i - d \in MovesIn(line)
  <2> TAKE i \in MovesIn(other)
  <2>1. i \in 1..Len(other) /\ i # 1 /\ other[i] # KeypadPrefix /\ other[i] # Null
    BY <1>0, <1>b
  <2> PICK j \in 1..Len(line) : j = i - d /\ i = j + 1
    BY <1>0, <2>1
  <2> QED BY <1>0, <1>a, <2>1
<1>3. InLine(line, after, keys, first)
  OBVIOUS
<1> QED BY <1>0, <1>1, <1>2, <1>3, Carried, ZenonT(20)

\* A line without a move for another.
LEMMA NoMoves ==
  ASSUME NEW line \in Seq(Byte), NEW other \in Seq(Byte), NEW after, NEW later,
         MovesIn(line) = {}, MovesIn(other) = {},
         NEW keys \in Seq(Moves), NEW first \in Nat \ {0}, InLine(line, after, keys, first)
  PROVE  InLine(other, later, keys, first)
<1> PICK d \in Int : d = 0
  OBVIOUS
<1>1. \A i \in MovesIn(line) :
        /\ i + d \in MovesIn(other) /\ other[i + d] = line[i]
        /\ MoveAt(line, after, i).prefixed => MoveAt(other, later, i + d).prefixed
  OBVIOUS
<1>2. \A i \in MovesIn(other) : i - d \in MovesIn(line)
  OBVIOUS
<1>3. InLine(line, after, keys, first)
  OBVIOUS
<1> QED BY <1>1, <1>2, <1>3, Carried, ZenonT(20)

\* What putKey puts in the queue: no byte of it but the prefix is one, nor does
\* the driver or the keyboard take one for another thing. The table of the keys
\* has one that is not so, the G, whose transition is a model number.
NoKeyIsAnAnswer ==
  \A code \in Keys : Transition(code) \notin {Null, Model, Ack, KeypadPrefix}

LEMMA KeyBytes ==
  ASSUME NoKeyIsAnAnswer, NEW code \in Keys, NEW up \in {0, KeyUp}
  PROVE  /\ Transition(code) + up \in Byte
         /\ Transition(code) + up \notin {Null, Model, Ack, KeypadPrefix}
         /\ Shift + up \in Byte /\ Shift + up \notin {Null, Model, Ack, KeypadPrefix}
         /\ KeypadPrefix \in Byte /\ KeypadPrefix \notin {Null, Model, Ack}
         /\ Keypad(code) \in BOOLEAN /\ Shifted(code) \in BOOLEAN /\ (Shifted(code) => Keypad(code))
<1>1. code \in Byte
  BY KeyboardAssumption DEF Byte
<1>2. (code % 128) \div 2 \in 0..63
  BY <1>1 DEF Byte
<1>3. Transition(code) \in 1..127 /\ Transition(code) \notin {Null, Model, Ack, KeypadPrefix}
  BY <1>2 DEF Transition, NoKeyIsAnAnswer
<1>4. Transition(code) + up \in Byte /\ Transition(code) + up \notin {Null, Model, Ack, KeypadPrefix}
  BY <1>3 DEF Byte, KeyUp, Null, Model, Ack, KeypadPrefix
<1>5. /\ Shift + up \in Byte /\ Shift + up \notin {Null, Model, Ack, KeypadPrefix}
      /\ KeypadPrefix \in Byte /\ KeypadPrefix \notin {Null, Model, Ack}
  BY DEF Byte, KeyUp, Null, Model, Ack, KeypadPrefix, Shift
<1>6. Keypad(code) \in BOOLEAN /\ Shifted(code) \in BOOLEAN /\ (Shifted(code) => Keypad(code))
  BY <1>1 DEF Keypad, Shifted, Byte
<1> QED BY <1>4, <1>5, <1>6

LEMMA MovePut ==
  ASSUME NEW line \in Seq(Byte), NEW after, NEW keys \in Seq(Moves), NEW first \in Nat \ {0},
         first <= Len(keys) + 1, InLine(line, after, keys, first),
         NEW byte \in Byte, byte # Null, byte # KeypadPrefix, NEW keypad \in BOOLEAN,
         keypad => Len(line) # 0 /\ line[Len(line)] = KeypadPrefix
  PROVE  /\ Append(line, byte) \in Seq(Byte) /\ Append(keys, Move(byte, keypad)) \in Seq(Moves)
         /\ first <= Len(Append(keys, Move(byte, keypad))) + 1
         /\ InLine(Append(line, byte), after, Append(keys, Move(byte, keypad)), first)
<1>1. /\ Move(byte, keypad) \in Moves
      /\ Move(byte, keypad).byte = byte /\ Move(byte, keypad).prefixed = keypad
  BY Zenon DEF Move, Moves
<1> PICK key : key = Move(byte, keypad)
  OBVIOUS
<1>2. key \in Moves /\ key.byte = byte /\ key.prefixed = keypad
  BY <1>1
<1>3. /\ Append(line, byte) \in Seq(Byte) /\ Ends(Append(line, byte), line, byte)
      /\ Append(keys, key) \in Seq(Moves) /\ Ends(Append(keys, key), keys, key)
  BY <1>2, BytePut
<1>4. first <= Len(Append(keys, key)) + 1
  BY <1>2
<1>5. InLine(Append(line, byte), after, Append(keys, key), first)
  <2>1. PICK other \in Seq(Byte) : other = Append(line, byte) /\ Ends(other, line, byte)
    BY <1>3
  <2>2. PICK more \in Seq(Moves) : more = Append(keys, key) /\ Ends(more, keys, key)
    BY <1>3
  <2>3. InLine(other, after, more, first)
    BY ONLY <1>2, <2>1, <2>2, KeyAdded, first <= Len(keys) + 1, InLine(line, after, keys, first),
            byte # Null, byte # KeypadPrefix,
            keypad => Len(line) # 0 /\ line[Len(line)] = KeypadPrefix, ZenonT(20)
  <2> QED BY <2>1, <2>2, <2>3
<1> QED BY <1>2, <1>3, <1>4, <1>5

LEMMA PrefixEnds ==
  ASSUME NEW line \in Seq(Byte), NEW after, NEW keys \in Seq(Moves), NEW first \in Nat \ {0},
         InLine(line, after, keys, first)
  PROVE  LET other == Append(line, KeypadPrefix) IN
         /\ other \in Seq(Byte) /\ Len(other) # 0 /\ other[Len(other)] = KeypadPrefix
         /\ InLine(other, after, keys, first)
<1>1. KeypadPrefix \in Byte
  BY DEF KeypadPrefix, Byte
<1>2. PICK other : other = Append(line, KeypadPrefix)
  OBVIOUS
<1>3. other \in Seq(Byte) /\ Ends(other, line, KeypadPrefix)
  BY <1>1, <1>2, BytePut
<1>4. Len(other) # 0 /\ other[Len(other)] = KeypadPrefix
  BY <1>3 DEF Ends
<1>5. InLine(line, after, keys, first)
  OBVIOUS
<1>6. InLine(other, after, keys, first)
  BY ONLY <1>3, <1>5, PrefixAdded, ZenonT(20)
<1> QED BY <1>2, <1>3, <1>4, <1>6

LEMMA Joined ==
  ASSUME NEW S, NEW s \in Seq(S), NEW a \in S
  PROVE  s \o <<a>> = Append(s, a)
BY AppendIsConcat

LEMMA JoinedBefore ==
  ASSUME NEW S, NEW s \in Seq(S), NEW a \in S, NEW t \in Seq(S)
  PROVE  s \o (<<a>> \o t) = Append(s, a) \o t
<1>1. <<a>> \in Seq(S)
  OBVIOUS
<1>2. (s \o <<a>>) \o t = s \o (<<a>> \o t)
  BY <1>1, ConcatAssociative
<1> QED BY <1>2, Joined

LEMMA Parts ==
  ASSUME NEW S, NEW a \in S, NEW b \in S, NEW c \in S
  PROVE  /\ <<>> \o <<>> \o <<c>> = <<c>>
         /\ <<>> \o <<b>> \o <<c>> = <<b, c>>
         /\ <<a>> \o <<b>> \o <<c>> = <<a>> \o <<b, c>>
         /\ <<>> \o <<c>> = <<c>>
         /\ <<b>> \o <<c>> = <<b, c>>
<1>1. <<a>> \in Seq(S) /\ <<b>> \in Seq(S) /\ <<c>> \in Seq(S)
  OBVIOUS
<1>2. <<>> \o <<c>> = <<c>> /\ <<>> \o <<b>> = <<b>>
  BY <1>1, ConcatEmptySeq
<1>3. <<b>> \o <<c>> = <<b, c>>
  <2>1. <<b>> \o <<c>> = Append(<<b>>, c)
    BY <1>1, Joined
  <2>2. Append(<<b>>, c) = <<b, c>>
    <3>1. Append(<<b>>, c) \in Seq(S) /\ <<b, c>> \in Seq(S)
      BY <1>1, AppendProperties
    <3>2. /\ Len(Append(<<b>>, c)) = 2 /\ Append(<<b>>, c)[1] = b /\ Append(<<b>>, c)[2] = c
      OBVIOUS
    <3>3. Len(<<b, c>>) = 2 /\ <<b, c>>[1] = b /\ <<b, c>>[2] = c
      OBVIOUS
    <3> PICK s : s = Append(<<b>>, c)
      OBVIOUS
    <3> PICK t : t = <<b, c>>
      OBVIOUS
    <3>4. s \in Seq(S) /\ t \in Seq(S) /\ Len(s) = 2 /\ Len(t) = 2
      BY <3>1, <3>2, <3>3
    <3>5. s[1] = t[1] /\ s[2] = t[2]
      BY <3>2, <3>3
    <3>6. \A i \in 1..Len(s) : s[i] = t[i]
      BY ONLY <3>4, <3>5
    <3>7. s = t
      BY ONLY <3>4, <3>6, SeqEqual
    <3> QED BY <3>7
  <2> QED BY <2>1, <2>2
<1>4. <<a>> \o <<b>> \o <<c>> = <<a>> \o (<<b>> \o <<c>>)
  BY <1>1, ConcatAssociative
<1>5. <<>> \o <<>> = <<>>
  OBVIOUS
<1>6. <<>> \o <<>> \o <<c>> = <<c>>
  BY <1>2, <1>5
<1>7. <<>> \o <<b>> \o <<c>> = <<b, c>>
  BY <1>2, <1>3
<1>8. <<a>> \o <<b>> \o <<c>> = <<a>> \o <<b, c>>
  BY <1>3, <1>4
<1> QED BY <1>2, <1>3, <1>6, <1>7, <1>8

\* A key that goes down or comes up: its bytes at the end of the line are its
\* moves at the end of the keys.
LEMMA KeyPut ==
  ASSUME NoKeyIsAnAnswer, NEW code \in Keys, NEW up \in {0, KeyUp},
         NEW line \in Seq(Byte), NEW after, NEW keys \in Seq(Moves), NEW first \in Nat \ {0},
         first <= Len(keys) + 1, InLine(line, after, keys, first)
  PROVE  InLine(line \o Bytes(code, up), after, keys \o MovesOf(code, up), first)
<1>1. PICK key \in Byte : key = Transition(code) + up /\ key # Null /\ key # KeypadPrefix
  BY KeyBytes
<1>2. PICK shift \in Byte : shift = Shift + up /\ shift # Null /\ shift # KeypadPrefix
  BY KeyBytes
<1>3. /\ KeypadPrefix \in Byte /\ Keypad(code) \in BOOLEAN /\ Shifted(code) \in BOOLEAN
      /\ (Shifted(code) => Keypad(code))
  BY KeyBytes
<1>4. PICK down : down = Move(shift, FALSE)
  OBVIOUS
<1>5. PICK move : move = Move(key, Keypad(code))
  OBVIOUS
<1>6. down \in Moves /\ move \in Moves
  BY <1>3, <1>4, <1>5, Zenon DEF Move, Moves
<1>7. CASE ~Keypad(code)
  <2>1. /\ Bytes(code, up) = <<>> \o <<>> \o <<key>>
        /\ MovesOf(code, up) = <<>> \o <<move>>
    BY <1>1, <1>3, <1>5, <1>7, Zenon DEF Bytes, MovesOf
  <2>2. line \o <<key>> = Append(line, key) /\ keys \o <<move>> = Append(keys, move)
    BY <1>6, Joined
  <2>3. InLine(Append(line, key), after, Append(keys, move), first)
    BY <1>1, <1>3, <1>5, <1>7, MovePut
  <2> QED BY <2>1, <2>2, <2>3, Parts
<1>8. ASSUME NEW l \in Seq(Byte), NEW k \in Seq(Moves), first <= Len(k) + 1,
             InLine(l, after, k, first), Keypad(code)
      PROVE  InLine(l \o <<KeypadPrefix, key>>, after, k \o <<move>>, first)
  <2>1. PICK other \in Seq(Byte) :
          /\ other = Append(l, KeypadPrefix) /\ Len(other) # 0 /\ other[Len(other)] = KeypadPrefix
          /\ InLine(other, after, k, first)
    BY <1>8, PrefixEnds
  <2>2. InLine(Append(other, key), after, Append(k, move), first)
    BY <1>1, <1>3, <1>5, <1>8, <2>1, MovePut
  <2>3. l \o <<KeypadPrefix, key>> = Append(other, key)
    <3> PICK tail : tail = <<key>>
      OBVIOUS
    <3>0. tail \in Seq(Byte)
      OBVIOUS
    <3>1. l \o (<<KeypadPrefix>> \o tail) = other \o tail
      BY <1>3, <2>1, <3>0, JoinedBefore, SMTT(30)
    <3>2. other \o <<key>> = Append(other, key)
      BY Joined
    <3>3. <<KeypadPrefix, key>> = <<KeypadPrefix>> \o tail
      OBVIOUS
    <3> QED BY <3>1, <3>2, <3>3, ZenonT(20)
  <2>4. k \o <<move>> = Append(k, move)
    BY <1>6, Joined
  <2> QED BY <2>2, <2>3, <2>4
<1>9. CASE Keypad(code) /\ ~Shifted(code)
  <2>1. /\ Bytes(code, up) = <<>> \o <<KeypadPrefix>> \o <<key>>
        /\ MovesOf(code, up) = <<>> \o <<move>>
    BY <1>1, <1>5, <1>9, Zenon DEF Bytes, MovesOf
  <2>2. Bytes(code, up) = <<KeypadPrefix, key>> /\ MovesOf(code, up) = <<move>>
    <3>1. <<>> \o <<KeypadPrefix>> \o <<key>> = <<KeypadPrefix, key>>
      BY <1>3, Parts, ZenonT(20)
    <3>2. <<>> \o <<move>> = <<move>>
      BY <1>6, Parts
    <3> QED BY <2>1, <3>1, <3>2
  <2> QED BY <1>8, <1>9, <2>2
<1>10. CASE Shifted(code)
  <2>1. /\ Bytes(code, up) = <<shift>> \o <<KeypadPrefix>> \o <<key>>
        /\ MovesOf(code, up) = <<down>> \o <<move>>
    BY <1>1, <1>2, <1>3, <1>4, <1>5, <1>10, Zenon DEF Bytes, MovesOf
  <2>2. /\ line \o Bytes(code, up) = Append(line, shift) \o <<KeypadPrefix, key>>
        /\ keys \o MovesOf(code, up) = Append(keys, down) \o <<move>>
    <3> PICK tail : tail = <<KeypadPrefix, key>>
      OBVIOUS
    <3> PICK rest : rest = <<move>>
      OBVIOUS
    <3>0. tail \in Seq(Byte) /\ rest \in Seq(Moves)
      BY <1>3, <1>6
    <3>1. line \o (<<shift>> \o tail) = Append(line, shift) \o tail
      BY <3>0, JoinedBefore, SMTT(30)
    <3>2. keys \o (<<down>> \o rest) = Append(keys, down) \o rest
      BY <1>6, <3>0, JoinedBefore, SMTT(30)
    <3>3. Bytes(code, up) = <<shift>> \o tail
      <4>1. <<shift>> \o <<KeypadPrefix>> \o <<key>> = <<shift>> \o <<KeypadPrefix, key>>
        BY <1>3, Parts, SMTT(30)
      <4> QED BY <2>1, <4>1
    <3> QED BY <2>1, <3>1, <3>2, <3>3
  <2>3. /\ Append(line, shift) \in Seq(Byte) /\ Append(keys, down) \in Seq(Moves)
        /\ first <= Len(Append(keys, down)) + 1
        /\ InLine(Append(line, shift), after, Append(keys, down), first)
    BY <1>2, <1>4, MovePut
  <2> QED BY <1>3, <1>8, <1>10, <2>2, <2>3
<1> QED BY <1>3, <1>7, <1>9, <1>10

-----------------------------------------------------------------------------
(* The keys in step: where the keyboard, the VIA and the driver are with   *)
(* the key on its way.                                                     *)

\* A byte of the queue is a key's: none is taken for an answer of another kind.
KeyByte == Byte \ {Null, Model, Ack}

\* The byte on its way is the one last taken from the queue, and if the driver
\* reads it after a prefix the keyboard knows of the prefix too.
FlightIsTaken ==
  InFlight # <<>> =>
    /\ InFlight[1] \notin {Model, Ack}
    /\ InFlight[1] # Null =>
         /\ taken = InFlight[1]
         /\ afterPrefix => InFlight[1] = KeypadPrefix \/ prefixed

\* A driver that has read a prefix asks on, and the prefix is the byte last taken.
PrefixIsTaken ==
  afterPrefix =>
    /\ known /\ asked \in {CmdInquiry, CmdInstant}
    /\ mac = "quiet" => taken = KeypadPrefix

\* What waits is for a driver that asked; and it asks for the model first.
AskedInTurn ==
  /\ mac = "quiet" /\ known => waiting = <<>>
  /\ mac # "quiet" /\ ~known => asked = CmdModel
  /\ mac # "quiet" /\ asked \in {CmdModel, CmdTest} =>
       /\ stage # "idle" => response \in {Model, Ack}
       /\ waiting # <<>> => waiting[1] \in {Model, Ack}

KeysInStep ==
  queue \in Seq(KeyByte) /\ FlightIsTaken /\ PrefixIsTaken /\ AskedInTurn

MovesInv == IInv /\ KeysInStep /\ EveryMoveArrives

LEMMA KeyBytesAreBytes == Seq(KeyByte) \subseteq Seq(Byte)
BY DEF KeyByte

LEMMA CommandsApart ==
  /\ CmdModel \notin {CmdInquiry, CmdInstant} /\ CmdTest \notin {CmdInquiry, CmdInstant}
  /\ CmdModel # CmdTest
  /\ Commands = {CmdInquiry, CmdInstant, CmdModel, CmdTest}
  /\ Null \notin {Model, Ack, KeypadPrefix} /\ KeypadPrefix \notin {Model, Ack}
  /\ Null \in Byte /\ KeypadPrefix \in Byte /\ KeypadPrefix \in KeyByte
BY DEF Commands, CmdInquiry, CmdInstant, CmdModel, CmdTest, Null, Model, Ack, KeypadPrefix,
       KeyByte, Byte

LEMMA FlightType ==
  ASSUME TypeOK
  PROVE  /\ InFlight = <<>> \/ \E byte \in Byte : InFlight = <<byte>>
         /\ InFlight \in Seq(Byte) /\ OnTheirWay \in Seq(Byte)
<1>1. InFlight = <<>> \/ \E byte \in Byte : InFlight = <<byte>>
  <2>1. waiting = <<>> \/ \E byte \in Byte : waiting = <<byte>>
    BY DEF TypeOK
  <2>2. response \in Byte /\ sr \in Byte
    BY DEF TypeOK
  <2> QED BY <2>1, <2>2 DEF InFlight
<1>2. queue \in Seq(Byte)
  BY DEF TypeOK
<1>3. InFlight \in Seq(Byte)
  <2>1. <<>> \in Seq(Byte) /\ \A byte \in Byte : <<byte>> \in Seq(Byte)
    OBVIOUS
  <2> QED BY <1>1, <2>1, Zenon
<1> QED BY <1>1, <1>2, <1>3, ConcatProperties DEF OnTheirWay

\* The number of the next move to be heard.
LEMMA HeardType ==
  ASSUME TypeOK
  PROVE  Len(heard) \in Nat /\ Len(typed) \in Nat /\ Len(heard) + 1 \in Nat \ {0}
BY DEF TypeOK

\* A step that leaves the line as it was, and what is typed and heard.
LEMMA LineSame ==
  ASSUME EveryMoveArrives, OnTheirWay' = OnTheirWay, afterPrefix' = afterPrefix,
         typed' = typed, heard' = heard
  PROVE  EveryMoveArrives'
BY DEF EveryMoveArrives, InLine, MovesIn, MoveAt

\* A step after which nothing is on its way, and what was typed and not heard
\* is forgotten.
LEMMA LineForgotten ==
  ASSUME TypeOK, EveryMoveArrives, OnTheirWay' = <<>>, typed' = heard, heard' = heard
  PROVE  EveryMoveArrives'
<1>1. MovesIn(OnTheirWay') = {}
  BY DEF MovesIn
<1>2. typed' \in Seq(Moves)
  BY DEF TypeOK
<1>3. InLine(OnTheirWay', afterPrefix', typed', Len(typed') + 1)
  BY <1>1, <1>2, NoneLeft, Zenon
<1>4. \A n \in 1..Len(heard) : AsTyped(heard[n], heard[n])
  BY DEF AsTyped
<1>5. Len(heard) <= Len(heard)
  BY HeardType
<1> QED BY <1>3, <1>4, <1>5 DEF EveryMoveArrives

\* A step that only takes the line on, as Carried and what follows have it.
LEMMA LineOn ==
  ASSUME EveryMoveArrives, typed' = typed, heard' = heard,
         InLine(OnTheirWay', afterPrefix', typed, Len(heard) + 1)
  PROVE  EveryMoveArrives'
BY DEF EveryMoveArrives

-----------------------------------------------------------------------------
(* The steps.                                                              *)

LEMMA PutKeyMoves ==
  ASSUME NoKeyIsAnAnswer, MovesInv, NEW code \in Keys, NEW up \in {0, KeyUp}, PutKey(code, up)
  PROVE  KeysInStep' /\ EveryMoveArrives'
<1>1. /\ queue' = queue \o Bytes(code, up) /\ typed' = typed \o MovesOf(code, up)
      /\ UNCHANGED <<taken, prefixed, response, stage, waiting, sr, flag, mac, asked, known,
                     afterPrefix, heard>>
  BY DEF PutKey, via, driver
<1>2. InFlight' = InFlight
  BY <1>1 DEF InFlight
<1>3. Bytes(code, up) \in Seq(KeyByte) /\ Bytes(code, up) \in Seq(Byte)
      /\ MovesOf(code, up) \in Seq(Moves)
  <2>1. PICK key \in KeyByte : key = Transition(code) + up
    BY KeyBytes DEF KeyByte
  <2>2. PICK shift \in KeyByte : shift = Shift + up
    BY KeyBytes DEF KeyByte
  <2>3. Bytes(code, up) \in Seq(KeyByte)
    BY <2>1, <2>2, CommandsApart DEF Bytes
  <2> QED BY <2>3, BytesOfKeys
<1>4. KeysInStep'
  <2>1. queue' \in Seq(KeyByte)
    BY <1>1, <1>3 DEF MovesInv, KeysInStep
  <2> QED BY <1>1, <1>2, <2>1 DEF MovesInv, KeysInStep, FlightIsTaken, PrefixIsTaken, AskedInTurn
<1>5. OnTheirWay' = OnTheirWay \o Bytes(code, up)
  <2>1. InFlight \in Seq(Byte)
    BY FlightType DEF MovesInv, IInv
  <2>2. queue \in Seq(Byte)
    BY DEF MovesInv, IInv, TypeOK
  <2> PICK bytes \in Seq(Byte) : bytes = Bytes(code, up)
    BY <1>3
  <2> PICK flight \in Seq(Byte) : flight = InFlight
    BY <2>1
  <2>3. flight \o (queue \o bytes) = (flight \o queue) \o bytes
    BY <2>2, ConcatAssociative, SMTT(30)
  <2> QED BY <1>1, <1>2, <2>3 DEF OnTheirWay
<1>6. InLine(OnTheirWay \o Bytes(code, up), afterPrefix, typed \o MovesOf(code, up), Len(heard) + 1)
  <2>1. /\ OnTheirWay \in Seq(Byte) /\ typed \in Seq(Moves) /\ Len(heard) + 1 \in Nat \ {0}
        /\ Len(heard) + 1 <= Len(typed) + 1 /\ InLine(OnTheirWay, afterPrefix, typed, Len(heard) + 1)
    BY FlightType, HeardType DEF MovesInv, IInv, TypeOK, EveryMoveArrives
  <2> QED BY <2>1, KeyPut, ZenonT(20)
<1>7. /\ Len(heard) <= Len(typed')
      /\ \A n \in 1..Len(heard) : typed'[n] = typed[n]
  <2>1. typed \in Seq(Moves) /\ Len(heard) \in Nat /\ Len(heard) <= Len(typed)
    BY HeardType DEF MovesInv, IInv, TypeOK, EveryMoveArrives
  <2>2. /\ Len(typed') = Len(typed) + Len(MovesOf(code, up)) /\ Len(MovesOf(code, up)) \in Nat
        /\ \A n \in 1..Len(typed) : typed'[n] = typed[n]
    BY <1>1, <1>3, <2>1, ConcatProperties, LenProperties
  <2> QED BY <2>1, <2>2
<1>8. \A n \in 1..Len(heard) : AsTyped(heard[n], typed[n])
  BY DEF MovesInv, EveryMoveArrives
<1>9. EveryMoveArrives'
  BY <1>1, <1>5, <1>6, <1>7, <1>8 DEF EveryMoveArrives
<1> QED BY <1>4, <1>9

LEMMA ListenMoves ==
  ASSUME MovesInv, Listen
  PROVE  KeysInStep' /\ EveryMoveArrives'
<1>1. /\ mac = "sent" /\ mac' = "listening" /\ flag' = FALSE
      /\ UNCHANGED <<queue, taken, prefixed, response, stage, waiting, sr, asked, known,
                     afterPrefix, typed, heard>>
  BY DEF Listen, ReadRegister, keyboard, history
<1>2. InFlight' = InFlight
  BY <1>1 DEF InFlight
<1>3. KeysInStep'
  BY <1>1, <1>2 DEF MovesInv, KeysInStep, FlightIsTaken, PrefixIsTaken, AskedInTurn
<1>4. OnTheirWay' = OnTheirWay
  BY <1>1, <1>2 DEF OnTheirWay
<1> QED BY <1>1, <1>3, <1>4, LineSame DEF MovesInv

\* The time on the wire moves the byte from the keyboard to the VIA and to the
\* driver, and changes nothing of it.
LEMMA TickMoves ==
  ASSUME MovesInv, Tick
  PROVE  KeysInStep' /\ EveryMoveArrives'
<1>1. /\ UNCHANGED <<queue, taken, prefixed, response, mac, asked, known, afterPrefix, typed, heard>>
      /\ stage' = NextStage
      /\ stage # "idle" \/ (waiting # <<>> /\ armed)
      /\ \/ /\ Due # <<>> /\ armed
            /\ sr' = Due[1] /\ flag' = TRUE /\ waiting' = <<>>
         \/ /\ ~(Due # <<>> /\ armed)
            /\ waiting' = Due /\ flag' = (flag \/ SentNow) /\ sr' = sr
  BY DEF Tick, Ready, ShiftIn, driver, history
<1>2. /\ stage \in {"idle", "sending", "answering"} /\ mac \in {"quiet", "sent", "listening"}
      /\ waiting = <<>> \/ waiting = <<waiting[1]>>
      /\ OneExchangeAtATime /\ AnswerKept /\ AskedInTurn
  BY DEF MovesInv, IInv, TypeOK, KeysInStep
<1>3. InFlight' = InFlight /\ AskedInTurn'
  <2>1. CASE stage = "sending"
    <3>1. waiting = <<>> /\ waiting' = <<>> /\ stage' = "answering"
      BY <1>1, <1>2, <2>1 DEF OneExchangeAtATime, Due, NextStage
    <3> QED BY <1>1, <1>2, <2>1, <3>1 DEF InFlight, AskedInTurn
  <2>2. CASE stage = "answering" /\ armed
    <3>1. /\ waiting' = <<>> /\ stage' = "idle" /\ sr' = response /\ flag' = TRUE
          /\ mac = "listening"
      BY <1>1, <1>2, <2>2 DEF OneExchangeAtATime, AnswerKept, Due, NextStage
    <3> QED BY <1>1, <1>2, <2>2, <3>1 DEF InFlight, AskedInTurn
  <2>3. CASE stage = "answering" /\ ~armed
    <3>1. /\ waiting' = <<response>> /\ stage' = "idle" /\ flag' = flag
          /\ ~(mac = "listening" /\ flag) /\ mac # "quiet"
      <4>1. flag \in BOOLEAN
        BY DEF MovesInv, IInv, TypeOK
      <4> QED BY <1>1, <1>2, <2>3, <4>1 DEF OneExchangeAtATime, AnswerKept, Due, NextStage, SentNow
    <3> QED BY <1>1, <1>2, <2>3, <3>1 DEF InFlight, AskedInTurn
  <2>4. CASE stage = "idle"
    <3>1. /\ waiting' = <<>> /\ stage' = "idle" /\ sr' = waiting[1] /\ flag' = TRUE
          /\ waiting # <<>> /\ armed
      BY <1>1, <2>4 DEF Due, NextStage
    <3>2. known => mac = "listening" /\ ~flag
      BY <1>2, <3>1 DEF OneExchangeAtATime, AnswerKept, AskedInTurn
    <3> QED BY <1>1, <1>2, <2>4, <3>1, <3>2 DEF InFlight, AskedInTurn
  <2> QED BY <1>2, <2>1, <2>2, <2>3, <2>4
<1>4. KeysInStep'
  BY <1>1, <1>3 DEF MovesInv, KeysInStep, FlightIsTaken, PrefixIsTaken
<1>5. OnTheirWay' = OnTheirWay
  BY <1>1, <1>3 DEF OnTheirWay
<1> QED BY <1>1, <1>4, <1>5, LineSame DEF MovesInv

\* The driver reads the byte: it is passed over, or is the next move.
LEMMA TakeMoves ==
  ASSUME MovesInv, Take
  PROVE  KeysInStep' /\ EveryMoveArrives'
<1>1. /\ mac = "listening" /\ flag /\ mac' = "quiet" /\ flag' = FALSE /\ sr' = sr
      /\ UNCHANGED <<queue, taken, prefixed, response, stage, waiting, asked, typed>>
      /\ stage = "idle" /\ waiting = <<>>
  BY DEF Take, ReadRegister, keyboard, MovesInv, IInv, OneExchangeAtATime
<1>2. /\ known' = (known \/ asked = CmdModel)
      /\ afterPrefix' = (asked \in {CmdInquiry, CmdInstant} /\ sr # Null /\ sr = KeypadPrefix)
      /\ heard' = IF asked \in {CmdInquiry, CmdInstant} /\ sr # Null /\ sr # KeypadPrefix
                  THEN Append(heard, Move(sr, afterPrefix)) ELSE heard
  BY DEF Take, Reads
<1>3. InFlight' = <<>>
  BY <1>1 DEF InFlight
<1>4. queue \in Seq(Byte) /\ queue \in Seq(KeyByte) /\ OnTheirWay' = queue
  BY <1>1, <1>3, ConcatEmptySeq DEF OnTheirWay, MovesInv, IInv, TypeOK, KeysInStep
<1>5. asked \in {CmdInquiry, CmdInstant} => known
  BY <1>1, CommandsApart DEF MovesInv, KeysInStep, AskedInTurn
<1>6. asked \in {CmdInquiry, CmdInstant} => InFlight = <<sr>>
  BY <1>1, <1>5 DEF InFlight
<1>7. KeysInStep'
  <2>1. FlightIsTaken'
    BY <1>3 DEF FlightIsTaken
  <2>2. PrefixIsTaken'
    <3> SUFFICES ASSUME afterPrefix' PROVE PrefixIsTaken'
      BY DEF PrefixIsTaken
    <3>1. asked \in {CmdInquiry, CmdInstant} /\ sr # Null /\ sr = KeypadPrefix
      BY <1>2
    <3>2. InFlight # <<>> /\ InFlight[1] = sr
      BY <1>6, <3>1
    <3>3. taken = KeypadPrefix
      BY <3>1, <3>2 DEF MovesInv, KeysInStep, FlightIsTaken
    <3> QED BY <1>1, <1>2, <1>5, <3>1, <3>3 DEF PrefixIsTaken
  <2>3. AskedInTurn'
    BY <1>1 DEF AskedInTurn
  <2> QED BY <1>1, <1>4, <2>1, <2>2, <2>3 DEF KeysInStep
<1> PICK first \in Nat \ {0} : first = Len(heard) + 1
  BY HeardType DEF MovesInv, IInv
<1>8. typed \in Seq(Moves) /\ InLine(OnTheirWay, afterPrefix, typed, first)
  BY DEF MovesInv, IInv, TypeOK, EveryMoveArrives
<1>9. CASE asked \notin {CmdInquiry, CmdInstant}
  <2>1. afterPrefix' = FALSE /\ heard' = heard
    BY <1>2, <1>9
  <2>2. afterPrefix = FALSE
    BY <1>9 DEF MovesInv, IInv, TypeOK, KeysInStep, PrefixIsTaken
  <2>3. OnTheirWay = queue
    BY <1>4, <1>9, ConcatEmptySeq DEF OnTheirWay, InFlight
  <2> QED BY <1>1, <1>4, <1>7, <2>1, <2>2, <2>3, LineSame DEF MovesInv
<1>10. CASE asked \in {CmdInquiry, CmdInstant}
  <2>1. OnTheirWay = <<sr>> \o queue /\ sr \in Byte
    BY <1>6, <1>10 DEF OnTheirWay, MovesInv, IInv, TypeOK
  <2>2. Begins(OnTheirWay, sr, queue)
    BY <1>4, <2>1, BytePlaces
  <2>3. CASE sr \in {Null, KeypadPrefix}
    <3>1. heard' = heard /\ afterPrefix' = (sr = KeypadPrefix)
      <4>1. CASE sr = Null
        <5>1. afterPrefix' = FALSE /\ (sr = KeypadPrefix) = FALSE /\ heard' = heard
          BY <1>2, <4>1, CommandsApart
        <5> QED BY <5>1
      <4>2. CASE sr = KeypadPrefix
        <5>1. afterPrefix' = TRUE /\ (sr = KeypadPrefix) = TRUE /\ heard' = heard
          BY <1>2, <1>10, <4>2, CommandsApart
        <5> QED BY <5>1
      <4> QED BY <2>3, <4>1, <4>2
    <3>2. InLine(queue, sr = KeypadPrefix, typed, first)
      BY <1>4, <1>8, <2>2, <2>3, PassedOver, ZenonT(20)
    <3> QED BY <1>1, <1>4, <1>7, <3>1, <3>2, LineOn DEF MovesInv
  <2>4. CASE sr \notin {Null, KeypadPrefix}
    <3>1. heard' = Append(heard, Move(sr, afterPrefix)) /\ afterPrefix' = FALSE
      BY <1>2, <1>10, <2>4
    <3>2. /\ first <= Len(typed) /\ AsTyped(Move(sr, afterPrefix), typed[first])
          /\ InLine(queue, FALSE, typed, first + 1)
      <4>1. sr # Null /\ sr # KeypadPrefix
        BY <2>4
      <4> QED BY <1>4, <1>8, <2>1, <2>2, <4>1, MoveRead, ZenonT(20)
    <3>3. Move(sr, afterPrefix) \in Moves /\ heard \in Seq(Moves)
      BY <2>1 DEF Move, Moves, MovesInv, IInv, TypeOK
    <3>4. /\ Len(heard') = first /\ heard'[first] = Move(sr, afterPrefix)
          /\ \A n \in 1..Len(heard) : heard'[n] = heard[n]
      BY <3>1, <3>3, AppendProperties
    <3>5. \A n \in 1..Len(heard') : AsTyped(heard'[n], typed[n])
      <4> TAKE n \in 1..Len(heard')
      <4>1. CASE n = first
        BY <3>2, <3>4, <4>1
      <4>2. CASE n # first
        <5>1. n \in 1..Len(heard) /\ heard'[n] = heard[n]
          BY <3>4, <4>2
        <5> QED BY <5>1 DEF MovesInv, EveryMoveArrives
      <4> QED BY <4>1, <4>2
    <3>6. EveryMoveArrives'
      BY <1>1, <1>4, <3>1, <3>2, <3>4, <3>5 DEF EveryMoveArrives
    <3> QED BY <1>7, <3>6
  <2> QED BY <2>3, <2>4
<1> QED BY <1>9, <1>10

LEMMA ResetMoves ==
  ASSUME MovesInv, Reset
  PROVE  KeysInStep' /\ EveryMoveArrives'
<1>1. /\ queue' = <<>> /\ mac' = "quiet" /\ known' = FALSE /\ afterPrefix' = FALSE
      /\ typed' = heard /\ heard' = heard
  BY DEF Reset, KeyboardReset
<1>2. InFlight' = <<>> /\ OnTheirWay' = <<>>
  BY <1>1 DEF InFlight, OnTheirWay
<1>3. KeysInStep'
  BY <1>1, <1>2 DEF KeysInStep, FlightIsTaken, PrefixIsTaken, AskedInTurn
<1> QED BY <1>1, <1>2, <1>3, LineForgotten DEF MovesInv, IInv

\* What a command finds in the queue is what was on its way, with the prefix of
\* a key that went back with it; the driver starts afresh after giving one up.
LEMMA GivenBackMoves ==
  ASSUME MovesInv, known,
         mac = "quiet" \/ (mac = "sent" /\ stage = "idle"),
         afterPrefix' = IF mac = "quiet" THEN afterPrefix ELSE FALSE
  PROVE  /\ QueueBefore \in Seq(KeyByte)
         /\ InLine(QueueBefore, afterPrefix', typed, Len(heard) + 1)
<1>1. queue \in Seq(KeyByte) /\ queue \in Seq(Byte)
  BY DEF MovesInv, IInv, TypeOK, KeysInStep
<1> PICK first \in Nat \ {0} : first = Len(heard) + 1
  BY HeardType DEF MovesInv, IInv
<1>2. typed \in Seq(Moves) /\ InLine(OnTheirWay, afterPrefix, typed, first)
  BY DEF MovesInv, IInv, TypeOK, EveryMoveArrives
<1>3. OneExchangeAtATime /\ AnswerKept /\ AskedInTurn /\ afterPrefix \in BOOLEAN
  BY DEF MovesInv, IInv, TypeOK, KeysInStep
<1>4. CASE mac = "quiet"
  <2>1. waiting = <<>> /\ stage = "idle"
    BY <1>3, <1>4 DEF OneExchangeAtATime, AskedInTurn
  <2>2. InFlight = <<>> /\ QueueBefore = queue
    BY <1>4, <2>1 DEF InFlight, QueueBefore
  <2>3. OnTheirWay = queue
    BY <1>1, <2>2, ConcatEmptySeq DEF OnTheirWay
  <2> QED BY <1>1, <1>2, <1>4, <2>2, <2>3
<1>5. CASE mac = "sent" /\ stage = "idle"
  <2>1. PICK w \in Byte : waiting = <<w>>
    BY <1>3, <1>5 DEF AnswerKept, MovesInv, IInv, TypeOK
  <2>2. QueueBefore = GivenBack(w)
    BY <2>1 DEF QueueBefore
  <2>3. CASE asked \in {CmdModel, CmdTest}
    <3>1. w \in {Model, Ack} /\ afterPrefix = FALSE
      BY <1>3, <1>5, <2>1, <2>3, CommandsApart
        DEF AskedInTurn, PrefixIsTaken, MovesInv, KeysInStep
    <3>2. QueueBefore = queue
      BY <2>2, <3>1 DEF GivenBack
    <3>3. InFlight = <<>>
      BY <2>3, CommandsApart DEF InFlight
    <3>4. OnTheirWay = queue
      BY <1>1, <3>3, ConcatEmptySeq DEF OnTheirWay
    <3> QED BY <1>1, <1>2, <1>5, <3>1, <3>2, <3>4
  <2>4. CASE asked \in {CmdInquiry, CmdInstant}
    <3>1. InFlight = <<w>>
      BY <1>5, <2>1, <2>4 DEF InFlight
    <3>2. OnTheirWay = <<w>> \o queue /\ Begins(OnTheirWay, w, queue)
      BY <1>1, <3>1, BytePlaces DEF OnTheirWay
    <3> PICK line \in Seq(Byte) : line = OnTheirWay
      BY <3>2 DEF Begins
    <3>3. afterPrefix' = FALSE
      BY <1>5
    <3>4. CASE w = Null
      <4>1. QueueBefore = queue
        BY <2>2, <3>4 DEF GivenBack
      <4>2. InLine(queue, w = KeypadPrefix, typed, first)
        BY <1>1, <1>2, <3>2, <3>4, PassedOver, ZenonT(20)
      <4>3. (w = KeypadPrefix) = FALSE
        BY <3>4, CommandsApart
      <4> QED BY <1>1, <3>3, <4>1, <4>2, <4>3
    <3>5. CASE w # Null
      <4>1. w \notin {Null, Model, Ack} /\ w \in KeyByte
        BY <3>1, <3>5 DEF KeyByte, MovesInv, KeysInStep, FlightIsTaken
      <4>2. line = <<w>> \o queue
        BY <3>2
      <4>3. line \in Seq(KeyByte)
        BY <1>1, <4>1, <4>2
      <4>4. CASE w = taken /\ prefixed
        <5>1. QueueBefore = <<KeypadPrefix>> \o <<w>> \o queue
          BY <2>2, <4>1, <4>4 DEF GivenBack
        <5>2. <<KeypadPrefix>> \o <<w>> \o queue = <<KeypadPrefix>> \o (<<w>> \o queue)
          <6>1. <<KeypadPrefix>> \in Seq(Byte) /\ <<w>> \in Seq(Byte)
            BY CommandsApart
          <6> QED BY <1>1, <6>1, ConcatAssociative
        <5>3. QueueBefore = <<KeypadPrefix>> \o line
          BY <4>2, <5>1, <5>2
        <5>4. Begins(QueueBefore, KeypadPrefix, line)
          BY <5>3, CommandsApart, BytePlaces
        <5>5. QueueBefore \in Seq(KeyByte)
          BY <4>3, <5>3, CommandsApart
        <5>6. InLine(line, afterPrefix, typed, first)
          BY <1>2
        <5>7. InLine(QueueBefore, FALSE, typed, first)
          BY <1>2, <5>4, <5>6, PrefixPut, ZenonT(20)
        <5> QED BY <3>3, <5>5, <5>7
      <4>5. CASE ~(w = taken /\ prefixed)
        <5>1. QueueBefore = <<>> \o <<w>> \o queue
          BY <2>2, <4>1, <4>5 DEF GivenBack
        <5>2. QueueBefore = line
          <6>1. <<>> \o <<w>> = <<w>>
            OBVIOUS
          <6> QED BY <4>2, <5>1, <6>1
        <5>3. afterPrefix => w = KeypadPrefix
          BY <3>1, <3>5, <4>5 DEF MovesInv, KeysInStep, FlightIsTaken
        <5>4. afterPrefix => 1 \notin MovesIn(line)
          <6>1. line[1] = w
            BY <3>2 DEF Begins
          <6> QED BY <5>3, <6>1 DEF MovesIn
        <5>5. InLine(line, afterPrefix, typed, first)
          BY <1>2
        <5>6. InLine(line, FALSE, typed, first)
          BY <1>2, <1>3, <5>4, <5>5, ReadAfresh, ZenonT(20)
        <5> QED BY <3>3, <4>3, <5>2, <5>6
      <4> QED BY <4>4, <4>5
    <3> QED BY <3>4, <3>5
  <2> QED BY <2>3, <2>4, CommandsApart DEF MovesInv, IInv, TypeOK
<1> QED BY <1>4, <1>5

\* A command: the keyboard forgets its keys, or goes on with what it has.
LEMMA SendsMoves ==
  ASSUME MovesInv, NEW value \in Commands, Sends(value),
         mac = "quiet" \/ (mac = "sent" /\ stage = "idle"),
         afterPrefix' = IF mac = "quiet" THEN afterPrefix ELSE FALSE,
         known \/ value = CmdModel,
         mac = "quiet" => value = IF ~known THEN CmdModel ELSE IF afterPrefix THEN CmdInstant ELSE CmdInquiry
  PROVE  KeysInStep' /\ EveryMoveArrives'
<1>1. /\ mac' = "sent" /\ asked' = value /\ stage' = "sending" /\ waiting' = <<>>
      /\ known' = known /\ heard' = heard
      /\ typed' = IF value = CmdModel THEN heard ELSE typed
  BY DEF Sends, Command, Answers
<1>2. afterPrefix \in BOOLEAN /\ PrefixIsTaken
  BY DEF MovesInv, IInv, TypeOK, KeysInStep
<1>3. CASE value = CmdModel
  <2>1. queue' = <<>> /\ response' = Model
    BY <1>3, CommandsApart DEF Sends, Command, Answers
  <2>2. InFlight' = <<>> /\ OnTheirWay' = <<>>
    BY <1>1, <1>3, <2>1, CommandsApart DEF InFlight, OnTheirWay
  <2>3. afterPrefix' = FALSE
    BY <1>2, <1>3, CommandsApart DEF PrefixIsTaken
  <2>4. KeysInStep'
    BY <1>1, <1>3, <2>1, <2>2, <2>3 DEF KeysInStep, FlightIsTaken, PrefixIsTaken, AskedInTurn
  <2> QED BY <1>1, <1>3, <2>2, <2>4, LineForgotten DEF MovesInv, IInv
<1>4. CASE value # CmdModel
  <2>1. /\ known /\ typed' = typed
        /\ QueueBefore \in Seq(KeyByte) /\ QueueBefore \in Seq(Byte)
        /\ InLine(QueueBefore, afterPrefix', typed, Len(heard) + 1)
    BY <1>1, <1>4, GivenBackMoves, KeyBytesAreBytes
  <2>2. CASE value = CmdTest
    <3>1. queue' = QueueBefore /\ response' = Ack
      BY <2>2, CommandsApart DEF Sends, Command, Answers
    <3>2. InFlight' = <<>>
      BY <1>1, <2>2, CommandsApart DEF InFlight
    <3>3. OnTheirWay' = QueueBefore
      BY <2>1, <3>1, <3>2, ConcatEmptySeq DEF OnTheirWay
    <3>4. afterPrefix' = FALSE
      BY <2>1, <2>2, CommandsApart
    <3>5. KeysInStep'
      BY <1>1, <2>1, <2>2, <3>1, <3>2, <3>4
        DEF KeysInStep, FlightIsTaken, PrefixIsTaken, AskedInTurn
    <3> QED BY <1>1, <2>1, <3>3, <3>5, LineOn DEF MovesInv
  <2>3. CASE value \in {CmdInquiry, CmdInstant}
    <3>1. NextTransition
      BY <2>3, CommandsApart DEF Sends, Command, Answers
    <3>2. InFlight' = <<response'>>
      BY <1>1, <2>1, <2>3 DEF InFlight
    <3>3. AskedInTurn'
      BY <1>1, <2>1, <2>3, CommandsApart DEF AskedInTurn
    <3>4. PrefixIsTaken'
      BY <1>1, <2>1, <2>3 DEF PrefixIsTaken
    <3>5. CASE QueueBefore = <<>>
      <4>1. response' = Null /\ queue' = <<>>
        BY <3>1, <3>5 DEF NextTransition
      <4>2. OnTheirWay' = <<Null>> /\ MovesIn(<<Null>>) = {} /\ MovesIn(<<>>) = {}
        BY <3>2, <4>1 DEF OnTheirWay, MovesIn
      <4>3. <<Null>> \in Seq(Byte) /\ <<>> \in Seq(Byte)
        BY CommandsApart
      <4>4. typed \in Seq(Moves) /\ TypeOK
        BY DEF MovesInv, IInv, TypeOK
      <4>5. Len(heard) + 1 \in Nat \ {0}
        BY <4>4, HeardType
      <4>6. InLine(<<>>, afterPrefix', typed, Len(heard) + 1)
        BY <2>1, <3>5, Zenon
      <4>7. InLine(<<Null>>, afterPrefix', typed, Len(heard) + 1)
        BY <4>2, <4>3, <4>4, <4>5, <4>6, NoMoves, ZenonT(20)
      <4>8. KeysInStep'
        BY <3>2, <3>3, <3>4, <4>1, CommandsApart DEF KeysInStep, FlightIsTaken
      <4> QED BY <1>1, <2>1, <4>2, <4>7, <4>8, LineOn DEF MovesInv
    <3>6. CASE QueueBefore # <<>>
      <4>1. /\ response' = Head(QueueBefore) /\ queue' = Tail(QueueBefore)
            /\ prefixed' = (taken = KeypadPrefix) /\ taken' = Head(QueueBefore)
        BY <3>1, <3>6 DEF NextTransition
      <4>2. /\ Head(QueueBefore) \in KeyByte /\ Tail(QueueBefore) \in Seq(KeyByte)
            /\ <<Head(QueueBefore)>> \o Tail(QueueBefore) = QueueBefore
        BY <2>1, <3>6
      <4>3. OnTheirWay' = QueueBefore
        BY <3>2, <4>1, <4>2 DEF OnTheirWay
      <4>4. afterPrefix' => taken = KeypadPrefix
        BY <1>2 DEF PrefixIsTaken
      <4>5. FlightIsTaken'
        BY <3>2, <4>1, <4>2, <4>4 DEF FlightIsTaken, KeyByte
      <4>6. KeysInStep'
        BY <3>3, <3>4, <4>1, <4>2, <4>5 DEF KeysInStep
      <4> QED BY <1>1, <2>1, <4>3, <4>6, LineOn DEF MovesInv
    <3> QED BY <3>5, <3>6
  <2> QED BY <1>4, <2>2, <2>3, CommandsApart
<1> QED BY <1>3, <1>4

\* Every move of a key the keyboard took in is read by the driver, once, in its
\* order and with its prefix, or is still on its way: through commands given up
\* with the answer waiting, answers given back and resets, for any queue and any
\* keys but one whose byte is an answer (keyboard.giveBack, via.poke).
THEOREM EveryKeyArrives == NoKeyIsAnAnswer => (Spec => []EveryMoveArrives)
<1> SUFFICES ASSUME NoKeyIsAnAnswer PROVE Spec => []EveryMoveArrives
  OBVIOUS
<1>1. Init => KeysInStep /\ EveryMoveArrives
  <2> SUFFICES ASSUME Init PROVE KeysInStep /\ EveryMoveArrives
    OBVIOUS
  <2>1. InFlight = <<>> /\ OnTheirWay = <<>>
    BY DEF Init, InFlight, OnTheirWay
  <2>2. KeysInStep
    BY <2>1 DEF Init, KeysInStep, FlightIsTaken, PrefixIsTaken, AskedInTurn
  <2>3. Len(heard) = 0 /\ Len(typed) = 0 /\ typed \in Seq(Moves) /\ MovesIn(OnTheirWay) = {}
    BY <2>1 DEF Init, MovesIn
  <2>4. InLine(OnTheirWay, afterPrefix, typed, Len(heard) + 1)
    BY <2>3, NoneLeft
  <2> QED BY <2>2, <2>3, <2>4 DEF EveryMoveArrives
<1>2. IInv /\ KeysInStep /\ EveryMoveArrives /\ [Next]_vars => KeysInStep' /\ EveryMoveArrives'
  <2> SUFFICES ASSUME MovesInv, [Next]_vars PROVE KeysInStep' /\ EveryMoveArrives'
    BY DEF MovesInv
  <2>1. ASSUME NEW code \in Keys, NEW up \in {0, KeyUp}, PutKey(code, up)
        PROVE  KeysInStep' /\ EveryMoveArrives'
    BY <2>1, PutKeyMoves
  <2>2. CASE Send
    <3>1. PICK value \in Commands :
            /\ Sends(value)
            /\ value = IF ~known THEN CmdModel ELSE IF afterPrefix THEN CmdInstant ELSE CmdInquiry
      BY <2>2 DEF Send, Commands
    <3>2. mac = "quiet" /\ afterPrefix' = afterPrefix /\ (known \/ value = CmdModel)
      BY <2>2, <3>1 DEF Send
    <3> QED BY <3>1, <3>2, SendsMoves
  <2>3. CASE GiveUp
    <3>1. PICK value \in Commands : Sends(value) /\ (known \/ value = CmdModel)
      BY <2>3 DEF GiveUp, Commands
    <3>2. mac = "sent" /\ stage = "idle" /\ afterPrefix' = FALSE
      BY <2>3 DEF GiveUp
    <3> QED BY <3>1, <3>2, SendsMoves
  <2>4. CASE Listen
    BY <2>4, ListenMoves
  <2>5. CASE Take
    BY <2>5, TakeMoves
  <2>6. CASE Tick
    BY <2>6, TickMoves
  <2>7. CASE Reset
    BY <2>7, ResetMoves
  <2>8. CASE UNCHANGED vars
    <3>1. InFlight' = InFlight /\ OnTheirWay' = OnTheirWay
      BY <2>8 DEF vars, keyboard, via, driver, history, InFlight, OnTheirWay
    <3>2. KeysInStep'
      BY <2>8, <3>1 DEF vars, keyboard, via, driver, history,
        MovesInv, KeysInStep, FlightIsTaken, PrefixIsTaken, AskedInTurn
    <3>3. EveryMoveArrives'
      BY <2>8, <3>1, LineSame DEF vars, driver, history, MovesInv
    <3> QED BY <3>2, <3>3
  <2> QED BY <2>1, <2>2, <2>3, <2>4, <2>5, <2>6, <2>7, <2>8 DEF Next
<1> QED BY <1>1, <1>2, Invariant, PTL DEF Spec

-----------------------------------------------------------------------------
(* The mouse.                                                              *)

Axis == [pending : Int, phase : 0..3, edge : BOOLEAN]

\* The channel as the mouse uses it: nothing but the carrier detect
\* interrupts, and the system has set it up for that or not.
Off == [r \in Serial!Registers |-> {}]
SetUp == [Off EXCEPT ![1] = {"external"}, ![15] = {"dcd"}]
Wired ==
  [txFrame : {<<>>}, txUnderrunEom : {TRUE},
   rxQueue : {<<>>}, rxWire : {<<>>}, rxPosition : {0},
   rxAccepted : {FALSE}, rxQuiet : {FALSE}, rxFifo : {<<>>},
   rxArmed : {FALSE}, rxInterrupt : {FALSE}, specialInterrupt : {FALSE},
   endOfFrame : {FALSE}, overrun : {FALSE}, lineQuiet : {TRUE},
   toLink : {<<>>}, pointer : {0, 1, 15},
   write : [Serial!Registers -> {{}, {"external"}, {"dcd"}}],
   dcd : BOOLEAN, dcdLatched : BOOLEAN, extInterrupt : BOOLEAN,
   txByte : {<<>>}, txBuffer : {<<>>}, txInterrupt : {FALSE},
   toSink : {<<>>}]
Channel(c) ==
  /\ c \in Wired
  /\ c.pointer = 0
  /\ (c.write = Off /\ ~c.extInterrupt) \/ c.write = SetUp

\* Nobody but the handler looks at the axis between the edge and the read.
EdgeHeld ==
  /\ handler # <<>> => /\ ~Serial!Pending(scc) /\ scc.write[1] # {} /\ Unmasked
                       /\ handler = <<Y1(mouse.phase)>>
  /\ scc.write[1] # {} => scc.dcd = ~Y1(mouse.phase)
  /\ Serial!Pending(scc) \/ handler # <<>> => mouse.edge

PointerIInv ==
  /\ mouse \in Axis
  /\ moving = <<>> \/ moving \in Int \X Int
  /\ travel \in [made : Int, counted : Int, astray : BOOLEAN]
  /\ Channel(scc)
  /\ travel.astray \/ EdgeHeld
  /\ PointerFollows

LEMMA ClampPendingType ==
  ASSUME PortBAssumption, NEW n \in Int
  PROVE  ClampPending(n) \in Int
BY DEF PortBAssumption, ClampPending

\* A step of the axis goes to the next phase and pays out one of the steps.
LEMMA MouseTickIs ==
  ASSUME NEW x \in Axis, NEW canStep \in BOOLEAN
  PROVE  /\ MouseTick(x, canStep) \in Axis
         /\ \/ MouseTick(x, canStep) = x
            \/ /\ canStep /\ ~x.edge
               /\ MouseTick(x, canStep).phase = (x.phase + Toward(x.pending) + 4) % 4
               /\ MouseTick(x, canStep).edge
                    = (Y1(MouseTick(x, canStep).phase) # Y1(x.phase))
<1> DEFINE next == (x.phase + Toward(x.pending) + 4) % 4
<1>1. x.phase \in 0..3 /\ x.pending \in Int /\ x.edge \in BOOLEAN
  BY DEF Axis
<1>2. Toward(x.pending) \in {1, -1}
  BY <1>1 DEF Toward
<1>3. next \in 0..3
  BY <1>1, <1>2
<1>4. CASE ~canStep \/ x.edge \/ x.pending = 0
  BY <1>4 DEF MouseTick
<1>5. CASE canStep /\ ~x.edge /\ x.pending # 0
  <2> DEFINE edge == (Y1(next) # Y1(x.phase))
             left == x.pending - Toward(x.pending)
  <2>1. MouseTick(x, canStep) = [pending |-> left, phase |-> next, edge |-> edge]
    BY <1>5 DEF MouseTick
  <2>2. edge \in BOOLEAN /\ left \in Int
    BY <1>1, <1>2 DEF Y1
  <2> HIDE DEF edge, left, next
  <2>3. MouseTick(x, canStep) \in Axis
    BY <2>1, <2>2, <1>3 DEF Axis
  <2> QED BY <2>1, <2>3, <1>5 DEF edge, next
<1> QED BY <1>4, <1>5

\* What the channel of the mouse has, and what is done to it.
LEMMA Registers ==
  /\ Off[1] = {} /\ Off[15] = {}
  /\ SetUp[1] = {"external"} /\ SetUp[15] = {"dcd"}
  /\ SetUp[1] # {}
  /\ [[Off EXCEPT ![1] = {"external"}] EXCEPT ![15] = {"dcd"}] = SetUp
  /\ {Off, SetUp} \subseteq [Serial!Registers -> {{}, {"external"}, {"dcd"}}]
BY DEF Off, SetUp, Serial!Registers

LEMMA FreshIs ==
  Channel(Serial!Fresh) /\ Serial!Fresh.write[1] = {} /\ ~Serial!Fresh.extInterrupt
<1> DEFINE w == [r \in Serial!Registers |-> {}]
<1>1. w = Off /\ w \in [Serial!Registers -> {{}, {"external"}, {"dcd"}}]
  BY Registers DEF Off
<1>2. w[1] = {}
  BY <1>1, Registers
<1> HIDE DEF w
<1>3. Serial!Fresh \in Wired
  BY <1>1 DEF Wired, Serial!Fresh, w
<1>4. /\ Serial!Fresh.write = w /\ Serial!Fresh.pointer = 0 /\ ~Serial!Fresh.extInterrupt
  BY DEF Serial!Fresh, w
<1> QED BY <1>1, <1>2, <1>3, <1>4 DEF Channel

\* The carrier detect follows a line: a change of it is kept, and interrupts
\* once the system has set the channel up.
LEMMA SetDcdIs ==
  ASSUME NEW c, Channel(c), NEW level \in BOOLEAN
  PROVE  LET d == Serial!SetDcd(c, level)
         IN  /\ Channel(d) /\ d.dcd = level /\ d.write = c.write
             /\ c.dcd = level => d = c
             /\ c.dcd # level => d.extInterrupt = (c.extInterrupt \/ c.write[1] # {})
<1> DEFINE e == c.extInterrupt \/ ("external" \in c.write[1] /\ "dcd" \in c.write[15])
           d == [c EXCEPT !.dcd = level, !.dcdLatched = level, !.extInterrupt = e]
<1>1. c \in Wired /\ c.pointer = 0 /\ c.dcd \in BOOLEAN
  BY DEF Channel, Wired
<1>2. e \in BOOLEAN /\ e = (c.extInterrupt \/ c.write[1] # {})
  BY Registers DEF Channel, Wired
<1>3. Serial!SetDcd(c, level) = IF c.dcd = level THEN c ELSE d
  BY DEF Serial!SetDcd
<1>4. c.write = Off => e = FALSE
  BY Registers, <1>2 DEF Channel
<1> HIDE DEF e
<1>5. /\ d.dcd = level /\ d.write = c.write /\ d.extInterrupt = e /\ d.pointer = 0
      /\ d \in Wired
  <2>1. e \in BOOLEAN
    BY <1>2
  <2>2. d \in Wired
    <3> DEFINE b == [c EXCEPT !.dcd = level, !.dcdLatched = level]
    <3>1. b \in Wired
      BY <1>1 DEF Wired
    <3>2. d = [b EXCEPT !.extInterrupt = e]
      BY <1>1 DEF Wired
    <3> HIDE DEF b
    <3>3. \A x \in BOOLEAN : [b EXCEPT !.extInterrupt = x] \in Wired
      BY <3>1 DEF Wired
    <3> QED BY <3>2, <3>3, <2>1
  <2>3. d.dcd = level
    BY <1>1 DEF Wired
  <2>4. d.write = c.write
    BY <1>1 DEF Wired
  <2>5. d.extInterrupt = e
    BY <1>1 DEF Wired
  <2>6. d.pointer = 0
    BY <1>1 DEF Wired
  <2> QED BY <2>2, <2>3, <2>4, <2>5, <2>6
<1> HIDE DEF d
<1>6. Channel(d)
  BY <1>4, <1>5 DEF Channel
<1> QED BY <1>2, <1>3, <1>5, <1>6

LEMMA ResetExternalIs ==
  ASSUME NEW c, Channel(c)
  PROVE  LET d == Serial!ResetExternalStatus(c)
         IN  Channel(d) /\ d.dcd = c.dcd /\ d.write = c.write /\ d.extInterrupt = FALSE
<1> DEFINE d == [c EXCEPT !.extInterrupt = FALSE, !.dcdLatched = c.dcd]
<1>1. Serial!ResetExternalStatus(c) = d
  BY DEF Serial!ResetExternalStatus
<1>2. /\ d \in Wired /\ d.dcd = c.dcd /\ d.write = c.write /\ d.extInterrupt = FALSE
      /\ d.pointer = 0
  BY DEF Channel, Wired
<1> HIDE DEF d
<1> QED BY <1>1, <1>2 DEF Channel

\* A register of the channel written, from the pointer and back.
LEMMA SetRegisterIs ==
  ASSUME NEW c \in Wired, c.pointer = 0, NEW r \in {1, 15},
         NEW value \in {{"external"}, {"dcd"}}
  PROVE  LET d == Serial!SetRegister(c, r, value)
         IN  /\ d \in Wired /\ d.pointer = 0 /\ d.write = [c.write EXCEPT ![r] = value]
             /\ d.dcd = c.dcd /\ d.extInterrupt = c.extInterrupt
<1> DEFINE pointed == [c EXCEPT !.pointer = r]
           w == [c.write EXCEPT ![r] = value]
           d == [pointed EXCEPT !.pointer = 0, !.write = w]
<1>1. Serial!PointTo(c, r % 8, r >= 8) = pointed
  <2>1. CASE r = 1
    BY <2>1 DEF Serial!PointTo
  <2>2. CASE r = 15
    <3>1. r % 8 = 7 /\ r >= 8 /\ r = 7 + 8
      BY <2>2
    <3> QED BY <3>1 DEF Serial!PointTo
  <2> QED BY <2>1, <2>2
<1>2. /\ pointed \in Wired /\ pointed.pointer = r /\ pointed.write = c.write
      /\ pointed.dcd = c.dcd /\ pointed.extInterrupt = c.extInterrupt
  BY DEF Wired
<1>3. w \in [Serial!Registers -> {{}, {"external"}, {"dcd"}}]
  BY DEF Wired, Serial!Registers
<1> HIDE DEF pointed
<1>4. [pointed EXCEPT !.pointer = 0, !.write[r] = value] = d
  BY <1>2 DEF Wired
<1> HIDE DEF w
<1>5. d \in Wired /\ d.pointer = 0 /\ d.write = w /\ d.dcd = c.dcd /\ d.extInterrupt = c.extInterrupt
  BY <1>2, <1>3 DEF Wired
<1>6. Serial!Written(pointed, value) = [pointed EXCEPT !.pointer = 0, !.write[r] = value]
  <2>1. CASE r = 1
    <3>1. "rx first" \notin value
      <4>1. "rx first" # "external" /\ "rx first" # "dcd"
        OBVIOUS
      <4> QED BY <4>1
    <3>2. pointed.pointer = 1 /\ 1 # 5
      BY <1>2, <2>1
    <3> QED BY <2>1, <3>1, <3>2 DEF Serial!Written
  <2>2. CASE r = 15
    BY <2>2, <1>2 DEF Serial!Written
  <2> QED BY <2>1, <2>2
<1> HIDE DEF d
<1> QED BY <1>1, <1>4, <1>5, <1>6 DEF Serial!SetRegister, w

\* The first step: the axis is still, and the system has not set the channel up.
LEMMA PointerStarts ==
  ASSUME NEW moves \in {<<>>} \union (Int \X Int)
  PROVE  /\ Still \in Axis /\ ~Still.edge
         /\ Channel(Serial!Fresh) /\ Serial!Fresh.write[1] = {}
         /\ ~Serial!Pending(Serial!Fresh)
         /\ [made |-> 0, counted |-> 0, astray |-> FALSE]
              \in [made : Int, counted : Int, astray : BOOLEAN]
         /\ moves = <<>> \/ moves \in Int \X Int
BY FreshIs DEF Still, Axis, Serial!Pending

LEMMA PointerStarted ==
  ASSUME mouse' = Still, moving' \in {<<>>} \union (Int \X Int), handler' = <<>>,
         scc' = Serial!Fresh,
         travel' = [made |-> 0, counted |-> 0, astray |-> FALSE]
  PROVE  PointerIInv'
BY PointerStarts DEF PointerIInv, EdgeHeld, PointerFollows, Serial!Pending

\* A read of the port lets the axis go, which nobody minds when the interrupt
\* has been taken.
LEMMA PortIsRead ==
  ASSUME PointerIInv, mouse' = QuadratureRead(mouse),
         travel' = [travel EXCEPT !.astray = @ \/ mouse.edge],
         UNCHANGED <<scc, handler, moving>>
  PROVE  PointerIInv'
<1>1. /\ mouse' \in Axis /\ mouse'.phase = mouse.phase /\ mouse'.edge = FALSE
      /\ mouse.edge \in BOOLEAN
  BY DEF PointerIInv, Axis, QuadratureRead
<1>2. /\ travel' \in [made : Int, counted : Int, astray : BOOLEAN]
      /\ travel'.made = travel.made /\ travel'.counted = travel.counted
      /\ travel'.astray = (travel.astray \/ mouse.edge)
  <2> DEFINE a == travel.astray \/ mouse.edge
  <2>1. a \in BOOLEAN /\ travel' = [travel EXCEPT !.astray = a]
    BY <1>1 DEF PointerIInv
  <2> HIDE DEF a
  <2>2. /\ travel' \in [made : Int, counted : Int, astray : BOOLEAN]
        /\ travel'.made = travel.made /\ travel'.counted = travel.counted
        /\ travel'.astray = a
    BY <2>1 DEF PointerIInv
  <2> QED BY <2>2 DEF a
<1>3. CASE travel'.astray
  BY <1>1, <1>2, <1>3 DEF PointerIInv, PointerFollows, EdgeHeld
<1>4. CASE ~travel'.astray
  <2>1. ~travel.astray /\ ~mouse.edge /\ ~Serial!Pending(scc) /\ handler = <<>>
    BY <1>2, <1>4 DEF PointerIInv, EdgeHeld
  <2>2. EdgeHeld'
    BY <1>1, <2>1 DEF PointerIInv, EdgeHeld, Serial!Pending
  <2>3. PointerFollows'
    BY <1>1, <1>2, <2>1 DEF PointerIInv, PointerFollows, Serial!Pending
  <2> QED BY <1>1, <1>2, <2>2, <2>3 DEF PointerIInv
<1> QED BY <1>3, <1>4

\* The line of the axis moves with it, once a scan line.
LEMMA LineTicks ==
  ASSUME PortBAssumption, PointerIInv, LineTick
  PROVE  PointerIInv'
<1> DEFINE moved == MouseTick(mouse, ~Serial!Pending(scc))
<1>1. /\ mouse \in Axis /\ Channel(scc) /\ scc.dcd \in BOOLEAN /\ scc.extInterrupt \in BOOLEAN
      /\ travel \in [made : Int, counted : Int, astray : BOOLEAN]
  BY DEF PointerIInv, Channel, Wired
<1>2. Serial!Pending(scc) = scc.extInterrupt /\ (Serial!Pending(scc))' = scc'.extInterrupt
  BY DEF Serial!Pending
<1>3. /\ moved \in Axis
      /\ \/ moved = mouse
         \/ /\ ~scc.extInterrupt /\ ~mouse.edge
            /\ moved.phase = (mouse.phase + Toward(mouse.pending) + 4) % 4
            /\ moved.edge = (Y1(moved.phase) # Y1(mouse.phase))
  BY <1>1, <1>2, MouseTickIs
<1>4. /\ mouse' = moved /\ scc' = Serial!SetDcd(scc, ~Y1(moved.phase))
      /\ travel' = IF Y1(moved.phase) = Y1(mouse.phase) THEN travel
                   ELSE [travel EXCEPT !.made = @ + Toward(mouse.pending)]
      /\ UNCHANGED <<handler, moving, routine, time>>
  BY DEF LineTick
<1> DEFINE level == ~Y1(moved.phase)
<1>5. /\ Channel(scc') /\ scc'.dcd = level /\ scc'.write = scc.write
      /\ scc.dcd = level => scc' = scc
      /\ scc.dcd # level => scc'.extInterrupt = (scc.extInterrupt \/ scc.write[1] # {})
  BY <1>1, <1>4, SetDcdIs DEF Y1
<1>6. mouse.phase \in 0..3 /\ mouse.pending \in Int /\ Toward(mouse.pending) \in {1, -1}
      /\ mouse.edge \in BOOLEAN /\ moved.phase \in 0..3 /\ moved.edge \in BOOLEAN
  BY <1>1, <1>3 DEF Axis, Toward
<1>7. scc.extInterrupt => scc.write[1] # {}
  BY <1>1, Registers DEF Channel
<1>8. /\ travel' \in [made : Int, counted : Int, astray : BOOLEAN]
      /\ travel'.counted = travel.counted /\ travel'.astray = travel.astray
      /\ travel'.made = IF Y1(moved.phase) = Y1(mouse.phase) THEN travel.made
                        ELSE travel.made + Toward(mouse.pending)
  BY <1>1, <1>4, <1>6
<1> HIDE DEF moved
<1>9. CASE travel.astray
  BY <1>1, <1>3, <1>4, <1>5, <1>8, <1>9 DEF PointerIInv, PointerFollows
<1>10. CASE ~travel.astray
  <2>1. EdgeHeld /\ PointerFollows
    BY <1>10 DEF PointerIInv
  <2>2. CASE moved = mouse
    <3>1. scc.write[1] # {} => scc' = scc
      BY <2>1, <2>2, <1>5 DEF EdgeHeld
    <3>2. scc.write[1] = {} => scc'.extInterrupt = scc.extInterrupt
      BY <1>1, <1>5
    <3>3. scc'.extInterrupt = scc.extInterrupt
      BY <3>1, <3>2
    <3>4. EdgeHeld'
      BY <2>1, <2>2, <1>2, <1>4, <1>5, <3>3 DEF EdgeHeld, Unmasked
    <3>5. PointerFollows'
      BY <2>1, <2>2, <1>2, <1>4, <1>5, <1>8, <3>3 DEF PointerFollows
    <3> QED BY <3>4, <3>5, <1>3, <1>4, <1>5, <1>8 DEF PointerIInv
  <2>3. CASE moved # mouse
    <3>1. ~scc.extInterrupt /\ handler = <<>> /\ handler' = <<>>
      BY <2>1, <2>3, <1>3, <1>4 DEF EdgeHeld
    <3>2. CASE Y1(moved.phase) = Y1(mouse.phase)
      <4>1. scc'.extInterrupt = scc.extInterrupt
        BY <2>1, <3>2, <1>1, <1>5 DEF EdgeHeld
      <4>2. EdgeHeld'
        BY <2>1, <3>1, <4>1, <1>2, <1>4, <1>5 DEF EdgeHeld
      <4>3. PointerFollows'
        BY <2>1, <3>1, <3>2, <4>1, <1>2, <1>4, <1>5, <1>8, <1>10 DEF PointerFollows
      <4> QED BY <4>2, <4>3, <1>3, <1>4, <1>5, <1>8 DEF PointerIInv
    <3>3. CASE Y1(moved.phase) # Y1(mouse.phase)
      <4>1. moved.edge
        BY <2>3, <3>3, <1>3
      <4>2. EdgeHeld'
        BY <3>1, <4>1, <1>4, <1>5 DEF EdgeHeld
      <4>3. scc.write[1] # {} => scc'.extInterrupt
        <5>1. scc.write[1] # {} => scc.dcd # level
          BY <2>1, <3>3 DEF EdgeHeld, Y1
        <5> QED BY <5>1, <1>1, <1>5
      <4>4. Toward(mouse.pending) = IF Y1(moved.phase) # Y2(moved.phase) THEN 1 ELSE -1
        BY <2>3, <3>3, <1>3, <1>6 DEF Y1, Y2
      <4>5. scc.write[1] = {} \/ travel.made - travel.counted = 0
        BY <2>1, <3>1, <1>2, <1>10 DEF PointerFollows
      <4>6. PointerFollows'
        <5>1. CASE scc.write[1] = {}
          BY <5>1, <1>5 DEF PointerFollows
        <5>2. CASE scc.write[1] # {}
          <6>1. travel'.made - travel'.counted = Toward(mouse.pending)
            BY <5>2, <4>5, <3>3, <1>6, <1>8, <1>1
          <6> QED BY <5>2, <6>1, <4>3, <4>4, <1>2, <1>4 DEF PointerFollows
        <5> QED BY <5>1, <5>2
      <4> QED BY <4>2, <4>6, <1>3, <1>4, <1>5, <1>8 DEF PointerIInv
    <3> QED BY <3>2, <3>3
  <2> QED BY <2>2, <2>3
<1> QED BY <1>9, <1>10

\* The handler enters for the carrier detect of the mouse alone, for nothing
\* else interrupts.
LEMMA HandlerEntersKeeps ==
  ASSUME PointerIInv, HandlerEnters
  PROVE  PointerIInv'
<1>1. /\ Channel(scc) /\ scc.extInterrupt \in BOOLEAN /\ scc.dcd \in BOOLEAN
      /\ ~scc.txInterrupt /\ ~scc.rxInterrupt /\ ~scc.specialInterrupt
  BY DEF PointerIInv, Channel, Wired
<1>2. scc.extInterrupt
  BY <1>1 DEF HandlerEnters, Serial!InterruptAsserted, Serial!Interrupts, Serial!Fresh
<1>3. scc.write[1] # {}
  BY <1>1, <1>2, Registers DEF Channel
<1>4. Channel(scc') /\ scc'.dcd = scc.dcd /\ scc'.write = scc.write /\ scc'.extInterrupt = FALSE
  BY <1>1, ResetExternalIs DEF HandlerEnters
<1>5. Serial!Pending(scc) = scc.extInterrupt /\ (Serial!Pending(scc))' = scc'.extInterrupt
  BY DEF Serial!Pending
<1>6. /\ UNCHANGED <<mouse, travel, moving, routine, time>>
      /\ handler = <<>> /\ handler' = <<~scc.dcd>> /\ Unmasked
  BY DEF HandlerEnters
<1>7. CASE travel.astray
  BY <1>4, <1>6, <1>7 DEF PointerIInv, PointerFollows
<1>8. CASE ~travel.astray
  <2>1. EdgeHeld /\ PointerFollows
    BY <1>8 DEF PointerIInv
  <2>2. scc.dcd = ~Y1(mouse.phase) /\ mouse.edge
    BY <2>1, <1>2, <1>3, <1>5 DEF EdgeHeld
  <2>3. handler' = <<Y1(mouse.phase)>> /\ handler' # <<>>
    <3>1. CASE mouse.phase \in {1, 2}
      <4>1. scc.dcd = FALSE /\ Y1(mouse.phase) = TRUE
        BY <3>1, <2>2 DEF Y1
      <4> QED BY <4>1, <1>6
    <3>2. CASE mouse.phase \notin {1, 2}
      <4>1. Y1(mouse.phase) = FALSE
        BY <3>2 DEF Y1
      <4>2. scc.dcd = TRUE
        BY <4>1, <2>2
      <4> QED BY <4>1, <4>2, <1>6
    <3> QED BY <3>1, <3>2
  <2>4. EdgeHeld'
    BY <2>2, <2>3, <1>3, <1>4, <1>5, <1>6 DEF EdgeHeld, Unmasked
  <2>5. PointerFollows'
    BY <2>1, <2>3, <1>2, <1>3, <1>4, <1>5, <1>6, <1>8 DEF PointerFollows
  <2> QED BY <2>4, <2>5, <1>4, <1>6 DEF PointerIInv
<1> QED BY <1>7, <1>8

\* The handler reads the way the axis went, and lets it go on.
LEMMA HandlerReadsKeeps ==
  ASSUME PointerIInv, HandlerReads
  PROVE  PointerIInv'
<1> DEFINE step == IF handler[1] # Y2(mouse.phase) THEN 1 ELSE -1
<1>1. /\ mouse' \in Axis /\ mouse'.phase = mouse.phase /\ mouse'.edge = FALSE
  BY DEF PointerIInv, Axis, QuadratureRead, HandlerReads
<1>2. /\ handler # <<>> /\ handler' = <<>> /\ UNCHANGED <<scc, moving>>
      /\ travel' = [travel EXCEPT !.counted = @ + step]
  BY DEF HandlerReads
<1>3. step \in {1, -1}
  OBVIOUS
<1> HIDE DEF step
<1>4. /\ travel' \in [made : Int, counted : Int, astray : BOOLEAN]
      /\ travel'.made = travel.made /\ travel'.counted = travel.counted + step
      /\ travel'.astray = travel.astray
      /\ travel.made \in Int /\ travel.counted \in Int
  BY <1>2, <1>3 DEF PointerIInv
<1>5. CASE travel.astray
  BY <1>1, <1>2, <1>4, <1>5 DEF PointerIInv, PointerFollows
<1>6. CASE ~travel.astray
  <2>1. /\ ~Serial!Pending(scc) /\ scc.write[1] # {} /\ handler = <<Y1(mouse.phase)>>
        /\ scc.dcd = ~Y1(mouse.phase)
    BY <1>2, <1>6 DEF PointerIInv, EdgeHeld
  <2>2. handler[1] = Y1(mouse.phase)
    BY <2>1
  <2>3. travel.made - travel.counted = step
    BY <2>1, <2>2, <1>2, <1>6 DEF PointerIInv, PointerFollows, step
  <2>4. EdgeHeld'
    BY <2>1, <1>1, <1>2 DEF EdgeHeld, Serial!Pending
  <2>5. PointerFollows'
    BY <2>1, <2>3, <1>1, <1>2, <1>3, <1>4 DEF PointerFollows, Serial!Pending
  <2> QED BY <2>4, <2>5, <1>1, <1>2, <1>4 DEF PointerIInv
<1> QED BY <1>5, <1>6

LEMMA ButtonPolledKeeps ==
  ASSUME PointerIInv, ButtonPolled
  PROVE  PointerIInv'
<1>1. /\ mouse' \in Axis /\ mouse'.phase = mouse.phase /\ mouse'.edge = FALSE
  BY DEF PointerIInv, Axis, QuadratureRead, ButtonPolled
<1>2. /\ handler = <<>> /\ ~Serial!Pending(scc) /\ UNCHANGED <<scc, handler, moving, travel>>
  BY DEF ButtonPolled, Serial!Interrupts, Serial!Pending
<1>3. travel.astray \/ EdgeHeld'
  BY <1>1, <1>2 DEF PointerIInv, EdgeHeld, Serial!Pending
<1>4. PointerFollows'
  BY <1>1, <1>2 DEF PointerIInv, PointerFollows, Serial!Pending
<1> QED BY <1>1, <1>2, <1>3, <1>4 DEF PointerIInv

\* The system sets the channel up when it agrees with the axis.
LEMMA BootKeeps ==
  ASSUME PointerIInv, Boot
  PROVE  PointerIInv'
<1> DEFINE c == Serial!SetRegister(scc, 1, {"external"})
<1>1. scc \in Wired /\ scc.pointer = 0 /\ scc.write = Off /\ ~scc.extInterrupt
  BY Registers DEF PointerIInv, Channel, Boot
<1>2. /\ c \in Wired /\ c.pointer = 0 /\ c.write = [Off EXCEPT ![1] = {"external"}]
      /\ c.dcd = scc.dcd /\ c.extInterrupt = scc.extInterrupt
  BY <1>1, SetRegisterIs
<1>3. scc' = Serial!SetRegister(c, 15, {"dcd"})
  BY DEF Boot
<1> HIDE DEF c
<1>4. /\ Channel(scc') /\ scc'.write = SetUp /\ scc'.dcd = scc.dcd /\ ~scc'.extInterrupt
  BY <1>1, <1>2, <1>3, SetRegisterIs, Registers DEF Channel
<1>5. /\ travel' \in [made : Int, counted : Int, astray : BOOLEAN]
      /\ travel'.made = travel'.counted /\ travel'.astray = travel.astray
  BY DEF PointerIInv, Boot
<1>6. UNCHANGED <<mouse, handler, moving>> /\ handler = <<>> /\ scc.dcd = ~Y1(mouse.phase)
  BY DEF Boot
<1>7. EdgeHeld'
  BY <1>4, <1>6 DEF EdgeHeld, Serial!Pending
<1>8. PointerFollows'
  BY <1>4, <1>5, <1>6 DEF PointerFollows, Serial!Pending
<1> QED BY <1>4, <1>5, <1>6, <1>7, <1>8 DEF PointerIInv

\* What the front end does to the steps that wait moves no axis.
LEMMA MovesKeep ==
  ASSUME PortBAssumption, PointerIInv,
         MoveWrites \/ \E dy \in {-1, 1} : MoveReads(dy)
  PROVE  PointerIInv'
<1>1. CASE MoveWrites
  <2>1. /\ mouse' \in Axis /\ mouse'.phase = mouse.phase /\ mouse'.edge = mouse.edge
        /\ moving' = <<>> /\ UNCHANGED <<scc, handler, travel, routine, time>>
    BY <1>1 DEF PointerIInv, Axis, MoveWrites
  <2>2. travel.astray \/ EdgeHeld'
    BY <2>1 DEF PointerIInv, EdgeHeld, Serial!Pending, Unmasked
  <2>3. PointerFollows'
    BY <2>1 DEF PointerIInv, PointerFollows, Serial!Pending
  <2> QED BY <2>1, <2>2, <2>3 DEF PointerIInv
<1>2. ASSUME NEW dy \in {-1, 1}, MoveReads(dy) PROVE PointerIInv'
  <2>1. mouse.pending + 2 * dy \in Int /\ mouse.pending \in Int
    BY DEF PointerIInv, Axis
  <2>2. moving' \in Int \X Int /\ UNCHANGED <<mouse, scc, handler, travel, routine, time>>
    BY <1>2, <2>1, ClampPendingType DEF MoveReads
  <2>3. travel.astray \/ EdgeHeld'
    BY <2>2 DEF PointerIInv, EdgeHeld, Serial!Pending, Unmasked
  <2>4. PointerFollows'
    BY <2>2 DEF PointerIInv, PointerFollows, Serial!Pending
  <2> QED BY <2>2, <2>3, <2>4 DEF PointerIInv
<1> QED BY <1>1, <1>2

\* The pointer of the machine follows the mouse: what the handler counts is
\* what the axis has moved, but for the edge under way, unless a routine of
\* the clock has read the port in between (src/mouse.go, quadratureRead).
THEOREM PointerIsTrue == PortBSpec => []PointerFollows
<1> USE PortBAssumption
<1>1. PortBInit => PointerIInv
  <2> SUFFICES ASSUME PortBInit PROVE PointerIInv
    OBVIOUS
  <2>1. /\ mouse = Still /\ moving = <<>> /\ handler = <<>> /\ scc = Serial!Fresh
        /\ travel = [made |-> 0, counted |-> 0, astray |-> FALSE]
    BY DEF PortBInit
  <2> QED BY <2>1, PointerStarts
          DEF PointerIInv, EdgeHeld, PointerFollows, Serial!Pending
<1>2. PointerIInv /\ [PortBNext]_portBVars => PointerIInv'
  <2> SUFFICES ASSUME PointerIInv, [PortBNext]_portBVars PROVE PointerIInv'
    OBVIOUS
  <2>1. ASSUME UNCHANGED <<mouse, moving, travel, scc, handler>>,
               travel.astray \/ handler = <<>> \/ UNCHANGED <<routine, time>>
        PROVE  PointerIInv'
    BY <2>1 DEF PointerIInv, EdgeHeld, PointerFollows, Serial!Pending, Unmasked
  <2>2. handler # <<>> => travel.astray \/ Unmasked
    BY DEF PointerIInv, EdgeHeld
  <2>3. CASE RoutineWrites
    BY <2>1, <2>2, <2>3 DEF RoutineWrites, Unmasked
  <2>4. CASE RoutineReads
    BY <2>4, PortIsRead DEF RoutineReads
  <2>5. ASSUME NEW call \in Calls, RoutineStarts(call) PROVE PointerIInv'
    BY <2>1, <2>5 DEF RoutineStarts
  <2>6. CASE TimeStarts
    BY <2>1, <2>6 DEF TimeStarts
  <2>7. CASE TimeByte
    BY <2>7, PortIsRead DEF TimeByte
  <2>8. CASE TimeCompared
    BY <2>1, <2>2, <2>8 DEF TimeCompared, Unmasked
  <2>9. CASE TickSecond
    BY <2>1, <2>9 DEF TickSecond
  <2>10. CASE LineTick
    BY <2>10, LineTicks
  <2>11. CASE HandlerEnters \/ HandlerReads \/ ButtonPolled \/ Boot
    BY <2>11, HandlerEntersKeeps, HandlerReadsKeeps, ButtonPolledKeeps, BootKeeps
  <2>12. CASE MoveWrites \/ \E dy \in {-1, 1} : MoveReads(dy)
    BY <2>12, MovesKeep
  <2>13. CASE MachineReset
    <3>1. moving' \in {<<>>} \union (Int \X Int)
      BY <2>13 DEF MachineReset, PointerIInv
    <3>2. /\ mouse' = Still /\ handler' = <<>> /\ scc' = Serial!Fresh
          /\ travel' = [made |-> 0, counted |-> 0, astray |-> FALSE]
      BY <2>13 DEF MachineReset
    <3> QED BY <3>1, <3>2, PointerStarted
  <2>14. CASE Restart
    <3>1. moving' \in {<<>>} \union (Int \X Int)
      BY <2>14 DEF Restart
    <3>2. /\ mouse' = Still /\ handler' = <<>> /\ scc' = Serial!Fresh
          /\ travel' = [made |-> 0, counted |-> 0, astray |-> FALSE]
      BY <2>14 DEF Restart
    <3> QED BY <3>1, <3>2, PointerStarted
  <2>15. CASE UNCHANGED portBVars
    BY <2>1, <2>15 DEF portBVars
  <2> QED BY <2>3, <2>4, <2>5, <2>6, <2>7, <2>8, <2>9, <2>10, <2>11, <2>12, <2>13, <2>14, <2>15
          DEF PortBNext
<1> QED BY <1>1, <1>2, PTL DEF PortBSpec, PointerIInv

-----------------------------------------------------------------------------
(* The chip of the clock.                                                  *)

Classics == 8..11 \union 16..31

Names == {"pram", "xpram", "seconds", "writeProtected", "enabled", "clock", "shiftIn",
          "bitCount", "command", "hasCommand", "shiftOut", "sending", "outBit",
          "extendedStage", "extendedAddress", "saving"}
IsChip(r) ==
  /\ DOMAIN r = Names
  /\ r.pram \in [0..19 -> Byte] /\ r.xpram \in [Extended -> Byte]
  /\ r.seconds \in Int /\ r.writeProtected \in BOOLEAN
  /\ r.enabled \in BOOLEAN /\ r.clock \in BOOLEAN
  /\ r.shiftIn \in Int /\ r.bitCount \in Int
  /\ r.command \in Int /\ r.hasCommand \in BOOLEAN
  /\ r.shiftOut \in Int /\ r.sending \in BOOLEAN /\ r.outBit \in BOOLEAN
  /\ r.extendedStage \in {"idle", "address", "data"} /\ r.extendedAddress \in Int
  /\ r.saving \in BOOLEAN

\* What the chip keeps, and what only the serial line is about.
Kept(r, s) ==
  /\ s.pram = r.pram /\ s.xpram = r.xpram
  /\ s.seconds = r.seconds /\ s.writeProtected = r.writeProtected
  /\ s.saving = r.saving

LEMMA BitType ==
  ASSUME NEW value, NEW n
  PROVE  Clock!Bit(value, n) \in BOOLEAN
BY DEF Clock!Bit

\* The lines between two bits.
LEMMA Raised ==
  ASSUME NEW r, IsChip(r), NEW lines, NEW k, ~lines.enabled, lines.clock \in BOOLEAN
  PROVE  LET s == Clock!SetLines(r, lines, k)
         IN  IsChip(s) /\ Kept(r, s) /\ ~s.enabled /\ s.clock = lines.clock
<1> DEFINE ended == IF r.enabled THEN Clock!EndTransaction(r) ELSE r
           s == [ended EXCEPT !.enabled = FALSE, !.clock = lines.clock]
<1>1. IsChip(ended) /\ Kept(r, ended)
  <2>1. CASE r.enabled
    <3>1. IsChip(Clock!EndTransaction(r)) /\ Kept(r, Clock!EndTransaction(r))
      BY DEF Clock!EndTransaction, IsChip, Names, Kept
    <3> QED BY <2>1, <3>1
  <2>2. CASE ~r.enabled
    BY <2>2 DEF Kept
  <2> QED BY <2>1, <2>2
<1>2. Clock!SetLines(r, lines, k) = s
  BY DEF Clock!SetLines
<1> HIDE DEF ended
<1>3. IsChip(s) /\ Kept(ended, s) /\ ~s.enabled /\ s.clock = lines.clock
  BY <1>1 DEF IsChip, Names, Kept
<1> HIDE DEF s
<1> QED BY <1>1, <1>2, <1>3 DEF Kept

Opens(r, lines, k, t) ==
  /\ IsChip(r) /\ lines.enabled /\ lines.clock = TRUE /\ ~r.enabled /\ r.clock = TRUE
  /\ t = Clock!SetLines(r, lines, k)

LEMMA Lowered ==
  ASSUME NEW r, NEW lines, NEW k, NEW t, Opens(r, lines, k, t)
  PROVE  /\ IsChip(t) /\ Kept(r, t) /\ t.enabled /\ t.clock = TRUE
         /\ ~t.sending /\ ~t.hasCommand /\ t.shiftIn = 0 /\ t.bitCount = 0
         /\ t.extendedStage = "idle"
<1> USE DEF Opens
<1> DEFINE begun == Clock!BeginTransaction(r)
           s == [begun EXCEPT !.enabled = TRUE, !.clock = lines.clock]
<1>1. /\ IsChip(begun) /\ Kept(r, begun)
      /\ ~begun.sending /\ ~begun.hasCommand /\ begun.shiftIn = 0 /\ begun.bitCount = 0
      /\ begun.extendedStage = "idle"
  BY DEF Clock!BeginTransaction, IsChip, Names, Kept
<1>2. t = s
  BY DEF Clock!SetLines
<1> HIDE DEF begun
<1>3. /\ IsChip(s) /\ Kept(begun, s) /\ s.enabled /\ s.clock = TRUE
      /\ ~s.sending /\ ~s.hasCommand /\ s.shiftIn = 0 /\ s.bitCount = 0
      /\ s.extendedStage = "idle"
  BY <1>1 DEF IsChip, Names, Kept
<1> HIDE DEF s
<1> QED BY <1>1, <1>2, <1>3 DEF Kept

\* The clock line is left alone, falls while the processor drives the data
\* line, or rises while the chip does.
LEMMA Quiet ==
  ASSUME NEW r, IsChip(r), NEW lines, NEW k,
         lines.enabled, lines.clock \in BOOLEAN, r.enabled = TRUE,
         \/ lines.clock = r.clock
         \/ ~lines.clock /\ ~r.sending
         \/ lines.clock /\ r.sending
  PROVE  Clock!SetLines(r, lines, k) = [r EXCEPT !.enabled = TRUE, !.clock = lines.clock]
<1> DEFINE on == [r EXCEPT !.enabled = TRUE, !.clock = lines.clock]
<1>1. r.clock \in BOOLEAN /\ r.sending \in BOOLEAN
  BY DEF IsChip
<1> HIDE DEF on
<1>2. CASE lines.clock = r.clock
  BY <1>2 DEF Clock!SetLines, on
<1>3. CASE lines.clock # r.clock /\ r.sending
  <2>1. lines.clock = TRUE /\ r.clock = FALSE
    BY <1>1, <1>3
  <2> QED BY <1>3, <2>1 DEF Clock!SetLines, on
<1>4. CASE lines.clock # r.clock /\ ~r.sending
  <2>1. lines.clock = FALSE
    BY <1>1, <1>4
  <2> QED BY <1>4, <2>1 DEF Clock!SetLines, on
<1> QED BY <1>1, <1>2, <1>3, <1>4 DEF on

LEMMA OnlyClock ==
  ASSUME NEW r, IsChip(r), NEW high \in BOOLEAN, r.enabled = TRUE
  PROVE  LET s == [r EXCEPT !.enabled = TRUE, !.clock = high]
         IN  /\ IsChip(s) /\ Kept(r, s) /\ s.enabled /\ s.clock = high
             /\ s.shiftIn = r.shiftIn /\ s.bitCount = r.bitCount
             /\ s.command = r.command /\ s.hasCommand = r.hasCommand
             /\ s.shiftOut = r.shiftOut /\ s.sending = r.sending /\ s.outBit = r.outBit
             /\ s.extendedStage = r.extendedStage /\ s.extendedAddress = r.extendedAddress
BY DEF IsChip, Names, Kept

\* The clock line rises on a bit from the processor: the byte grows, and with
\* its last bit it is taken.
ShiftedTo(on, value, count, s) == s = [on EXCEPT !.shiftIn = value, !.bitCount = count]

Rises(r, lines, k, on, value, s) ==
  /\ IsChip(r)
  /\ lines.enabled /\ lines.clock = TRUE /\ lines.driving /\ lines.data \in BOOLEAN
  /\ r.enabled = TRUE /\ r.clock = FALSE /\ ~r.sending
  /\ on = [r EXCEPT !.enabled = TRUE, !.clock = TRUE]
  /\ lines.data => value = 2 * r.shiftIn + 1
  /\ ~lines.data => value = 2 * r.shiftIn
  /\ s = Clock!SetLines(r, lines, k)

LEMMA BitIn ==
  ASSUME NEW r, NEW lines, NEW k, NEW on, NEW value, NEW s,
         Rises(r, lines, k, on, value, s)
  PROVE  /\ r.bitCount < 7 => ShiftedTo(on, value, r.bitCount + 1, s)
         /\ r.bitCount >= 7 => \E t : ShiftedTo(on, 0, 0, t) /\ s = Clock!ByteIn(t, value, k)
<1> USE DEF Rises
<1>1. on = [r EXCEPT !.enabled = TRUE, !.clock = lines.clock]
  OBVIOUS
<1>2. s = Clock!ShiftInBit(on, lines.data, k)
  BY <1>1 DEF Clock!SetLines
<1>3. on.shiftIn = r.shiftIn /\ on.bitCount = r.bitCount /\ r.bitCount \in Int
  BY DEF IsChip, Names
<1>6. value = 2 * r.shiftIn + (IF lines.data THEN 1 ELSE 0)
  <2>1. r.shiftIn \in Int
    BY DEF IsChip
  <2> QED BY <2>1
<1>4. ASSUME r.bitCount < 7
      PROVE  s = [on EXCEPT !.shiftIn = value, !.bitCount = r.bitCount + 1]
  <2>1. Clock!ShiftInBit(on, lines.data, k) = [on EXCEPT !.shiftIn = value, !.bitCount = @ + 1]
    BY <1>3, <1>4, <1>6 DEF Clock!ShiftInBit
  <2>2. [on EXCEPT !.shiftIn = value, !.bitCount = @ + 1]
          = [on EXCEPT !.shiftIn = value, !.bitCount = r.bitCount + 1]
    BY <1>3
  <2> QED BY <1>2, <2>1, <2>2
<1>5. ASSUME r.bitCount >= 7
      PROVE  s = Clock!ByteIn([on EXCEPT !.shiftIn = 0, !.bitCount = 0], value, k)
  BY <1>2, <1>3, <1>5, <1>6 DEF Clock!ShiftInBit
<1> QED BY <1>4, <1>5 DEF ShiftedTo

\* The clock line falls on the next bit of an answer.
LEMMA BitOut ==
  ASSUME NEW r, IsChip(r), NEW lines, NEW k,
         lines.enabled, lines.clock = FALSE,
         r.enabled = TRUE, r.clock = TRUE, r.sending, r.bitCount < 8
  PROVE  LET s == Clock!SetLines(r, lines, k)
         IN  /\ IsChip(s) /\ Kept(r, s) /\ s.enabled /\ s.clock = FALSE /\ s.sending
             /\ s.outBit = Clock!Bit(r.shiftOut, 7)
             /\ s.shiftOut = (2 * r.shiftOut) % 256 /\ s.bitCount = r.bitCount + 1
<1> DEFINE on == [r EXCEPT !.enabled = TRUE, !.clock = lines.clock]
           bit == Clock!Bit(r.shiftOut, 7)
           out == (2 * r.shiftOut) % 256
           s == [on EXCEPT !.outBit = bit, !.shiftOut = out,
                           !.bitCount = r.bitCount + 1]
<1>1. Clock!SetLines(r, lines, k) = Clock!ShiftOutBit(on)
  BY DEF Clock!SetLines
<1>2. /\ on.shiftOut = r.shiftOut /\ on.bitCount = r.bitCount /\ on.sending = r.sending
      /\ on.enabled /\ on.clock = FALSE /\ IsChip(on) /\ Kept(r, on)
  BY DEF IsChip, Names, Kept
<1>3. bit \in BOOLEAN /\ r.shiftOut \in Int /\ out \in Int /\ r.bitCount \in Int
  BY BitType DEF IsChip
<1> HIDE DEF on
<1>4. Clock!ShiftOutBit(on) = s
  BY <1>2, <1>3 DEF Clock!ShiftOutBit
<1> HIDE DEF bit, out
<1>5. /\ IsChip(s) /\ Kept(on, s) /\ s.enabled /\ s.clock = FALSE /\ s.sending = on.sending
      /\ s.outBit = bit /\ s.shiftOut = out
      /\ s.bitCount = r.bitCount + 1
  <2> DEFINE count == r.bitCount + 1
  <2>1. PICK b \in BOOLEAN : b = bit
    BY <1>3
  <2>2. s = [on EXCEPT !.outBit = b, !.shiftOut = out, !.bitCount = count]
    BY <2>1
  <2>3. count \in Int
    BY <1>3
  <2> HIDE DEF count, s
  <2>4. /\ IsChip(s) /\ Kept(on, s) /\ s.enabled /\ s.clock = FALSE /\ s.sending = on.sending
        /\ s.outBit = bit /\ s.shiftOut = out /\ s.bitCount = count
    BY <2>1, <2>2, <2>3, <1>2, <1>3 DEF IsChip, Names, Kept
  <2> QED BY <2>4 DEF count
<1> HIDE DEF s
<1> QED BY <1>1, <1>2, <1>4, <1>5 DEF Kept, bit, out

\* The bytes the processor sends: a command, and what follows it.
Answering(r, s, value) ==
  /\ IsChip(s) /\ Kept(r, s) /\ s.enabled = r.enabled /\ s.clock = r.clock
  /\ s.sending /\ s.shiftOut = value /\ s.bitCount = 0

LEMMA AnswerIs ==
  ASSUME NEW r, IsChip(r), NEW value \in Int
  PROVE  Answering(r, Clock!Answer(r, value), value)
BY BitType DEF Clock!Answer, Answering, IsChip, Names, Kept

\* A command: an extended one, one that is answered, one that waits for more.
LEMMA CommandIn ==
  ASSUME NEW r, IsChip(r), NEW value \in Int, NEW k \in Int, ~r.hasCommand
  PROVE  LET s == Clock!ByteIn(r, value, k)
             named == [r EXCEPT !.command = value, !.hasCommand = TRUE]
             extended == (value \div 8) % 16 = 7
         IN  /\ extended \/ ~Clock!Bit(value, 7) =>
                  /\ IsChip(s) /\ Kept(r, s) /\ s.enabled = r.enabled /\ s.clock = r.clock
                  /\ s.sending = r.sending /\ s.shiftIn = r.shiftIn /\ s.bitCount = r.bitCount
                  /\ s.command = value /\ s.hasCommand = TRUE
                  /\ s.extendedStage = IF extended THEN "address" ELSE r.extendedStage
             /\ ~extended /\ Clock!Bit(value, 7) =>
                  s = Clock!Answer(named, Clock!ReadRegister(named, k))
             /\ IsChip(named) /\ Kept(r, named) /\ named.command = value
             /\ named.enabled = r.enabled /\ named.clock = r.clock
<1> DEFINE named == [r EXCEPT !.command = value, !.hasCommand = TRUE]
           extended == (value \div 8) % 16 = 7
           addressed == [named EXCEPT !.extendedStage = "address"]
<1>1. /\ IsChip(named) /\ Kept(r, named)
      /\ named.enabled = r.enabled /\ named.clock = r.clock
      /\ named.sending = r.sending /\ named.shiftIn = r.shiftIn
      /\ named.bitCount = r.bitCount /\ named.command = value /\ named.hasCommand = TRUE
      /\ named.extendedStage = r.extendedStage
  BY DEF IsChip, Names, Kept
<1>2. Clock!ByteIn(r, value, k) =
        IF extended THEN addressed
        ELSE IF Clock!Bit(value, 7) THEN Clock!Answer(named, Clock!ReadRegister(named, k))
        ELSE named
  BY DEF Clock!ByteIn
<1> HIDE DEF named
<1>3. /\ IsChip(addressed) /\ Kept(named, addressed)
      /\ addressed.enabled = named.enabled /\ addressed.clock = named.clock
      /\ addressed.sending = named.sending /\ addressed.shiftIn = named.shiftIn
      /\ addressed.bitCount = named.bitCount /\ addressed.command = named.command
      /\ addressed.hasCommand = named.hasCommand /\ addressed.extendedStage = "address"
  BY <1>1 DEF IsChip, Names, Kept
<1> HIDE DEF addressed, extended
<1>4. CASE extended
  BY <1>1, <1>2, <1>3, <1>4 DEF Kept, named, extended
<1>5. CASE ~extended /\ Clock!Bit(value, 7)
  BY <1>1, <1>2, <1>5 DEF named, extended
<1>6. CASE ~extended /\ ~Clock!Bit(value, 7)
  BY <1>1, <1>2, <1>6 DEF Kept, named, extended
<1> QED BY <1>4, <1>5, <1>6

\* The second byte of an extended command: the address, and the answer to a
\* read of it.
LEMMA AddressIn ==
  ASSUME NEW r, IsChip(r), NEW value \in Int, NEW k, r.hasCommand, r.extendedStage = "address"
  PROVE  LET s == Clock!ByteIn(r, value, k)
             address == (r.command % 8) * 32 + ((value \div 4) % 32)
         IN  /\ Clock!Bit(r.command, 7) /\ Clock!ReadXpram(r, address) \in Int =>
                  Answering(r, s, Clock!ReadXpram(r, address))
             /\ ~Clock!Bit(r.command, 7) =>
                  /\ IsChip(s) /\ Kept(r, s) /\ s.enabled = r.enabled /\ s.clock = r.clock
                  /\ s.sending = r.sending /\ s.shiftIn = r.shiftIn /\ s.bitCount = r.bitCount
                  /\ s.command = r.command /\ s.hasCommand = r.hasCommand
                  /\ s.extendedStage = "data" /\ s.extendedAddress = address
<1> DEFINE address == (r.command % 8) * 32 + ((value \div 4) % 32)
           a == [r EXCEPT !.extendedAddress = address]
           idle == [a EXCEPT !.extendedStage = "idle"]
           data == [a EXCEPT !.extendedStage = "data"]
           read == Clock!ReadXpram(r, address)
<1>1. Clock!ByteIn(r, value, k) =
        IF Clock!Bit(r.command, 7) THEN Clock!Answer(idle, read) ELSE data
  BY DEF Clock!ByteIn
<1>2. address \in Int
  BY DEF IsChip
<1> HIDE DEF address, read
<1>3. /\ IsChip(idle) /\ Kept(r, idle) /\ idle.enabled = r.enabled /\ idle.clock = r.clock
  BY <1>2 DEF IsChip, Names, Kept
<1>4. /\ IsChip(data) /\ Kept(r, data) /\ data.enabled = r.enabled /\ data.clock = r.clock
      /\ data.sending = r.sending /\ data.shiftIn = r.shiftIn /\ data.bitCount = r.bitCount
      /\ data.command = r.command /\ data.hasCommand = r.hasCommand
      /\ data.extendedStage = "data" /\ data.extendedAddress = address
  BY <1>2 DEF IsChip, Names, Kept
<1> HIDE DEF idle, data
<1>5. CASE Clock!Bit(r.command, 7)
  <2>1. read \in Int => Answering(idle, Clock!Answer(idle, read), read)
    BY <1>3, AnswerIs
  <2>2. read \in Int => Answering(r, Clock!Answer(idle, read), read)
    BY <2>1, <1>3 DEF Answering, Kept
  <2> QED BY <2>2, <1>1, <1>5 DEF read, address
<1>6. CASE ~Clock!Bit(r.command, 7)
  BY <1>1, <1>4, <1>6 DEF address
<1> QED BY <1>5, <1>6

-----------------------------------------------------------------------------
(* What the chip keeps, as the routines see it.                            *)

Contents(r) ==
  [memory |-> Memory(r), seconds |-> r.seconds, protected |-> r.writeProtected]

LEMMA PlacesAre ==
  ASSUME PortBAssumption
  PROVE  /\ Places = Extended \union Classics /\ Extended \cap Classics = {}
         /\ Places \subseteq Byte
         /\ \A place : Clock!IsClassic(place) <=> place \in Classics
         /\ \A place \in Classics : Clock!Classic(place) \in 0..19
         /\ \A p, q \in Classics : Clock!Classic(p) = Clock!Classic(q) => p = q
BY DEF PortBAssumption, Places, Classics, Byte, Clock!IsClassic, Clock!Classic

LEMMA MemoryIs ==
  ASSUME PortBAssumption, NEW r, IsChip(r)
  PROVE  /\ Memory(r) \in [Places -> Byte]
         /\ \A place \in Places : Memory(r)[place] = Clock!ReadXpram(r, place)
<1>1. ASSUME NEW place \in Places PROVE Clock!ReadXpram(r, place) \in Byte
  <2>1. CASE place \in Classics
    BY <2>1, PlacesAre DEF Clock!ReadXpram, IsChip
  <2>2. CASE place \notin Classics
    BY <2>2, PlacesAre DEF Clock!ReadXpram, IsChip
  <2> QED BY <2>1, <2>2
<1> QED BY <1>1 DEF Memory

\* The memory is what lies in the two RAMs.
LEMMA SameMemory ==
  ASSUME PortBAssumption, NEW r, NEW s, s.pram = r.pram, s.xpram = r.xpram
  PROVE  Memory(s) = Memory(r)
<1>1. \A place \in Places : Clock!ReadXpram(s, place) = Clock!ReadXpram(r, place)
  BY DEF Clock!ReadXpram
<1> QED BY <1>1 DEF Memory

LEMMA KeptContents ==
  ASSUME PortBAssumption, NEW r, NEW s, Kept(r, s)
  PROVE  Contents(s) = Contents(r) /\ Memory(s) = Memory(r) /\ s.saving = r.saving
BY SameMemory DEF Kept, Contents

\* A byte in one of the RAMs is a byte in the memory.
LEMMA ClassicWritten ==
  ASSUME PortBAssumption, NEW r, IsChip(r), NEW place \in Classics, NEW value \in Byte,
         NEW s, IsChip(s), s.xpram = r.xpram,
         s.pram = [r.pram EXCEPT ![Clock!Classic(place)] = value]
  PROVE  Memory(s) = [Memory(r) EXCEPT ![place] = value]
<1>1. ASSUME NEW q \in Places
      PROVE  Clock!ReadXpram(s, q) = IF q = place THEN value ELSE Clock!ReadXpram(r, q)
  <2>1. r.pram \in [0..19 -> Byte] /\ Clock!Classic(place) \in 0..19
    BY PlacesAre DEF IsChip
  <2>2. CASE q \in Classics
    <3>1. Clock!Classic(q) \in 0..19 /\ (q # place => Clock!Classic(q) # Clock!Classic(place))
      BY <2>2, PlacesAre
    <3>2. Clock!ReadXpram(s, q) = s.pram[Clock!Classic(q)]
          /\ Clock!ReadXpram(r, q) = r.pram[Clock!Classic(q)]
      BY <2>2, PlacesAre DEF Clock!ReadXpram
    <3> QED BY <2>1, <3>1, <3>2
  <2>3. CASE q \notin Classics
    BY <2>3, PlacesAre DEF Clock!ReadXpram
  <2> QED BY <2>2, <2>3
<1>2. place \in Places /\ Memory(r) \in [Places -> Byte]
  BY PlacesAre, MemoryIs
<1>3. Memory(s) \in [Places -> Byte] /\ \A q \in Places : Memory(s)[q] = Clock!ReadXpram(s, q)
  BY MemoryIs
<1>4. \A q \in Places : Memory(r)[q] = Clock!ReadXpram(r, q)
  BY MemoryIs
<1> QED BY <1>1, <1>2, <1>3, <1>4

LEMMA ExtendedWritten ==
  ASSUME PortBAssumption, NEW r, IsChip(r), NEW place \in Extended, NEW value \in Byte,
         NEW s, IsChip(s), s.pram = r.pram, s.xpram = [r.xpram EXCEPT ![place] = value]
  PROVE  Memory(s) = [Memory(r) EXCEPT ![place] = value]
<1>1. ASSUME NEW q \in Places
      PROVE  Clock!ReadXpram(s, q) = IF q = place THEN value ELSE Clock!ReadXpram(r, q)
  <2>1. r.xpram \in [Extended -> Byte] /\ place \notin Classics
    BY PlacesAre DEF IsChip
  <2>2. CASE q \in Classics
    BY <2>1, <2>2, PlacesAre DEF Clock!ReadXpram
  <2>3. CASE q \notin Classics
    <3>1. q \in Extended
      BY <2>3, PlacesAre
    <3> QED BY <2>1, <2>3, <3>1, PlacesAre DEF Clock!ReadXpram
  <2> QED BY <2>2, <2>3
<1>2. place \in Places /\ Memory(r) \in [Places -> Byte]
  BY PlacesAre, MemoryIs
<1>3. Memory(s) \in [Places -> Byte] /\ \A q \in Places : Memory(s)[q] = Clock!ReadXpram(s, q)
  BY MemoryIs
<1>4. \A q \in Places : Memory(r)[q] = Clock!ReadXpram(r, q)
  BY MemoryIs
<1> QED BY <1>1, <1>2, <1>3, <1>4

\* A byte is written, or the protection keeps it out, and what changes the
\* memory has it saved.
Wrote(r, s, contents) ==
  /\ IsChip(s) /\ Contents(s) = contents
  /\ s.saving = (r.saving \/ Memory(s) # Memory(r))

LEMMA MemorySame ==
  ASSUME PortBAssumption, NEW r, IsChip(r), NEW place \in Places, NEW value \in Byte
  PROVE  [Memory(r) EXCEPT ![place] = value] = Memory(r) <=> Clock!ReadXpram(r, place) = value
<1> DEFINE m == Memory(r)
<1>1. m \in [Places -> Byte] /\ m[place] = Clock!ReadXpram(r, place)
  BY MemoryIs
<1> HIDE DEF m
<1> QED BY <1>1 DEF m

LEMMA NotWritten ==
  ASSUME PortBAssumption, NEW r, IsChip(r), NEW s, IsChip(s), Kept(r, s)
  PROVE  Wrote(r, s, Contents(r))
<1>1. r.saving \in BOOLEAN /\ s.saving = r.saving /\ Memory(s) = Memory(r)
      /\ Contents(s) = Contents(r)
  BY KeptContents DEF IsChip
<1> QED BY <1>1 DEF Wrote

\* The byte after the address of an extended write.
LEMMA DataIn ==
  ASSUME PortBAssumption, NEW r, IsChip(r), NEW value \in Byte, NEW k,
         r.hasCommand, r.extendedStage = "data", r.extendedAddress \in Places
  PROVE  Wrote(r, Clock!ByteIn(r, value, k),
               IF r.writeProtected THEN Contents(r)
               ELSE [Contents(r) EXCEPT !.memory[r.extendedAddress] = value])
<1> DEFINE place == r.extendedAddress
           idle == [r EXCEPT !.extendedStage = "idle", !.hasCommand = FALSE]
           s == Clock!ByteIn(r, value, k)
           change == [Contents(r) EXCEPT !.memory[place] = value]
<1>1. IsChip(idle) /\ Kept(r, idle)
  BY DEF IsChip, Names, Kept
<1>2. s = Clock!WriteXpram(idle, place, value)
  BY DEF Clock!ByteIn
<1>3. change = [memory |-> [Memory(r) EXCEPT ![place] = value], seconds |-> r.seconds,
                protected |-> r.writeProtected]
  BY DEF Contents
<1>4. /\ Clock!ReadXpram(idle, place) = Clock!ReadXpram(r, place)
      /\ idle.writeProtected = r.writeProtected /\ idle.saving = r.saving
      /\ r.writeProtected \in BOOLEAN /\ r.saving \in BOOLEAN
  BY <1>1 DEF Clock!ReadXpram, Kept, IsChip
<1> HIDE DEF idle
<1>5. CASE r.writeProtected
  <2>1. s = idle
    BY <1>2, <1>4, <1>5 DEF Clock!WriteXpram
  <2> QED BY <2>1, <1>1, <1>5, NotWritten
<1>6. CASE ~r.writeProtected /\ Clock!ReadXpram(r, place) = value
  <2>1. s = idle
    BY <1>2, <1>4, <1>6 DEF Clock!WriteXpram
  <2>2. [Memory(r) EXCEPT ![place] = value] = Memory(r)
    BY <1>6, MemorySame
  <2>3. change = Contents(r)
    BY <1>3, <2>2 DEF Contents
  <2> QED BY <2>1, <2>3, <1>1, <1>6, NotWritten
<1>7. CASE ~r.writeProtected /\ Clock!ReadXpram(r, place) # value
  <2> DEFINE pram == IF Clock!IsClassic(place)
                     THEN [idle.pram EXCEPT ![Clock!Classic(place)] = value] ELSE idle.pram
             xpram == IF Clock!IsClassic(place)
                      THEN idle.xpram ELSE [idle.xpram EXCEPT ![place] = value]
             t == [idle EXCEPT !.pram = pram, !.xpram = xpram, !.saving = TRUE]
  <2>1. s = t
    BY <1>2, <1>4, <1>7 DEF Clock!WriteXpram
  <2>2. pram \in [0..19 -> Byte] /\ xpram \in [Extended -> Byte]
    BY <1>1, PlacesAre DEF IsChip
  <2>3. CASE place \in Classics
    <3>1. pram = [r.pram EXCEPT ![Clock!Classic(place)] = value] /\ xpram = r.xpram
      BY <1>1, <2>3, PlacesAre DEF Kept
    <3> HIDE DEF pram, xpram
    <3>2. IsChip(t) /\ t.pram = pram /\ t.xpram = xpram /\ t.saving = TRUE
          /\ t.seconds = r.seconds /\ t.writeProtected = r.writeProtected
      BY <1>1, <2>2 DEF IsChip, Names, Kept
    <3> HIDE DEF t
    <3>3. Memory(t) = [Memory(r) EXCEPT ![place] = value]
      BY <2>3, <3>1, <3>2, ClassicWritten
    <3>4. Memory(t) # Memory(r)
      BY <3>3, <1>7, MemorySame
    <3>5. Contents(t) = change
      BY <3>2, <3>3, <1>3 DEF Contents
    <3> HIDE DEF change
    <3> QED BY <2>1, <3>2, <3>4, <3>5, <1>7 DEF Wrote, change
  <2>4. CASE place \notin Classics
    <3>1. place \in Extended /\ pram = r.pram /\ xpram = [r.xpram EXCEPT ![place] = value]
      BY <1>1, <2>4, PlacesAre DEF Kept
    <3> HIDE DEF pram, xpram
    <3>2. IsChip(t) /\ t.pram = pram /\ t.xpram = xpram /\ t.saving = TRUE
          /\ t.seconds = r.seconds /\ t.writeProtected = r.writeProtected
      BY <1>1, <2>2 DEF IsChip, Names, Kept
    <3> HIDE DEF t
    <3>3. Memory(t) = [Memory(r) EXCEPT ![place] = value]
      BY <3>1, <3>2, ExtendedWritten
    <3>4. Memory(t) # Memory(r)
      BY <3>3, <1>7, MemorySame
    <3>5. Contents(t) = change
      BY <3>2, <3>3, <1>3 DEF Contents
    <3> HIDE DEF change
    <3> QED BY <2>1, <3>2, <3>4, <3>5, <1>7 DEF Wrote, change
  <2> QED BY <2>3, <2>4
<1> QED BY <1>5, <1>6, <1>7, <1>4

\* The byte after the command of a register: the protection, a byte of the
\* seconds, a byte of the parameter RAM.
LEMMA RegisterIn ==
  ASSUME PortBAssumption, NEW r, IsChip(r), NEW value \in Byte, NEW k,
         r.hasCommand, r.extendedStage = "idle"
  PROVE  LET s == Clock!ByteIn(r, value, k)
             target == Clock!DecodeCommand(r.command)
         IN  /\ target = <<"protect", 0>> =>
                  Wrote(r, s, [Contents(r) EXCEPT !.protected = value >= 128])
             /\ \A at \in 0..(CounterBytes - 1) : target = <<"seconds", at>> =>
                  Wrote(r, s, IF r.writeProtected THEN Contents(r)
                              ELSE [Contents(r) EXCEPT
                                      !.seconds = @ + (value - Clock!ByteOf(@, at)) * 256^at])
             /\ \A place \in Classics : target = <<"pram", Clock!Classic(place)>> =>
                  Wrote(r, s, IF r.writeProtected THEN Contents(r)
                              ELSE [Contents(r) EXCEPT !.memory[place] = value])
<1> DEFINE s == Clock!ByteIn(r, value, k)
           target == Clock!DecodeCommand(r.command)
           t == Clock!WriteRegister(r, value)
<1>1. s = [t EXCEPT !.hasCommand = FALSE]
  BY DEF Clock!ByteIn
<1> HIDE DEF s
<1>2. ASSUME NEW contents, Wrote(r, t, contents) PROVE Wrote(r, s, contents)
  <2> HIDE DEF t
  <2>1. IsChip(s) /\ Kept(t, s)
    BY <1>1, <1>2 DEF Wrote, IsChip, Names, Kept
  <2>2. Contents(s) = Contents(t) /\ Memory(s) = Memory(t) /\ s.saving = t.saving
    BY <2>1, KeptContents
  <2> QED BY <2>1, <2>2, <1>2 DEF Wrote
<1>3. /\ r.writeProtected \in BOOLEAN /\ r.saving \in BOOLEAN /\ r.seconds \in Int
      /\ Contents(r) = [memory |-> Memory(r), seconds |-> r.seconds,
                        protected |-> r.writeProtected]
      /\ IsChip(r)
  BY DEF IsChip, Contents
<1>4. ASSUME target = <<"protect", 0>>
      PROVE  Wrote(r, s, [Contents(r) EXCEPT !.protected = value >= 128])
  <2> DEFINE u == [r EXCEPT !.writeProtected = (value >= 128)]
  <2>1. Clock!Bit(value, 7) = (value >= 128)
    BY DEF Clock!Bit, Byte
  <2>2. t = u
    BY <1>4, <2>1 DEF Clock!WriteRegister
  <2>3. /\ IsChip(u) /\ u.pram = r.pram /\ u.xpram = r.xpram /\ u.seconds = r.seconds
        /\ u.saving = r.saving /\ u.writeProtected = (value >= 128)
    <3>1. PICK b \in BOOLEAN : b = (value >= 128)
      <4>1. (value >= 128) \in BOOLEAN
        OBVIOUS
      <4> QED BY <4>1
    <3>2. u = [r EXCEPT !.writeProtected = b]
      BY <3>1
    <3> QED BY <3>1, <3>2 DEF IsChip, Names
  <2> HIDE DEF u
  <2>4. Memory(u) = Memory(r)
    BY <2>3, SameMemory
  <2>5. Contents(u) = [Contents(r) EXCEPT !.protected = value >= 128]
    BY <2>3, <2>4 DEF Contents
  <2>6. Wrote(r, t, [Contents(r) EXCEPT !.protected = value >= 128])
    BY <2>2, <2>3, <2>4, <2>5, <1>3 DEF Wrote
  <2> QED BY <2>6, <1>2, <1>4
<1>5. ASSUME NEW at \in 0..(CounterBytes - 1), target = <<"seconds", at>>
      PROVE  Wrote(r, s, IF r.writeProtected THEN Contents(r)
                         ELSE [Contents(r) EXCEPT
                                 !.seconds = @ + (value - Clock!ByteOf(@, at)) * 256^at])
  <2> DEFINE new == r.seconds + (value - Clock!ByteOf(r.seconds, at)) * 256^at
             u == [r EXCEPT !.seconds = new]
  <2>1. /\ ~WallClock /\ at < CounterBytes /\ at \in 0..3
    BY DEF PortBAssumption
  <2>2. new \in Int
    <3>1. CASE at = 0
      BY <3>1, <1>3 DEF Clock!ByteOf, Byte
    <3>2. CASE at = 1
      BY <3>2, <1>3 DEF Clock!ByteOf, Byte
    <3>3. CASE at = 2
      BY <3>3, <1>3 DEF Clock!ByteOf, Byte
    <3>4. CASE at = 3
      BY <3>4, <1>3 DEF Clock!ByteOf, Byte
    <3> QED BY <2>1, <3>1, <3>2, <3>3, <3>4
  <2>3. t = IF r.writeProtected THEN r ELSE u
    BY <1>5, <2>1, <1>3 DEF Clock!WriteRegister
  <2>4. Contents(u) = [Contents(r) EXCEPT !.seconds = new] /\ IsChip(u) /\ u.saving = r.saving
        /\ Memory(u) = Memory(r)
    <3> HIDE DEF new
    <3>1. /\ IsChip(u) /\ u.pram = r.pram /\ u.xpram = r.xpram /\ u.seconds = new
          /\ u.saving = r.saving /\ u.writeProtected = r.writeProtected
      BY <2>2 DEF IsChip, Names
    <3> HIDE DEF u
    <3>2. Memory(u) = Memory(r)
      BY <3>1, SameMemory
    <3> QED BY <3>1, <3>2 DEF Contents
  <2>5. [Contents(r) EXCEPT !.seconds = @ + (value - Clock!ByteOf(@, at)) * 256^at]
          = [Contents(r) EXCEPT !.seconds = new]
    BY <1>3
  <2> HIDE DEF new, u, t
  <2>6. CASE r.writeProtected
    <3>1. Wrote(r, t, Contents(r))
      BY <2>3, <2>6, <1>3 DEF Wrote
    <3> QED BY <3>1, <1>2, <2>6
  <2>7. CASE ~r.writeProtected
    <3>1. Wrote(r, t, [Contents(r) EXCEPT !.seconds = new])
      BY <2>3, <2>4, <2>7, <1>3 DEF Wrote
    <3> QED BY <3>1, <1>2, <2>5, <2>7
  <2> QED BY <2>6, <2>7, <1>3
<1>6. ASSUME NEW place \in Classics, target = <<"pram", Clock!Classic(place)>>
      PROVE  Wrote(r, s, IF r.writeProtected THEN Contents(r)
                         ELSE [Contents(r) EXCEPT !.memory[place] = value])
  <2> DEFINE index == Clock!Classic(place)
             pram == [r.pram EXCEPT ![index] = value]
             saving == r.saving \/ r.pram[index] # value
             u == [r EXCEPT !.pram = pram, !.saving = saving]
             memory == [Memory(r) EXCEPT ![place] = value]
  <2>1. index \in 0..19 /\ place \in Places /\ r.pram[index] = Clock!ReadXpram(r, place)
    BY PlacesAre DEF Clock!ReadXpram
  <2>2. t = IF r.writeProtected THEN r ELSE u
    BY <1>6, <1>3 DEF Clock!WriteRegister
  <2>3. pram \in [0..19 -> Byte]
    BY <2>1, <1>3 DEF IsChip
  <2>4. IsChip(u) /\ u.pram = pram /\ u.xpram = r.xpram /\ u.seconds = r.seconds
        /\ u.saving = saving /\ u.writeProtected = r.writeProtected
    <3>1. PICK b \in BOOLEAN : b = saving
      OBVIOUS
    <3>2. u = [r EXCEPT !.pram = pram, !.saving = b]
      BY <3>1
    <3> HIDE DEF pram, saving
    <3> QED BY <3>1, <3>2, <2>3 DEF IsChip, Names
  <2> HIDE DEF u
  <2>5. Memory(u) = memory
    BY <2>1, <2>4, ClassicWritten
  <2>6. saving = (r.saving \/ Memory(u) # Memory(r))
    BY <2>1, <2>5, MemorySame
  <2>7. [Contents(r) EXCEPT !.memory[place] = value]
          = [memory |-> memory, seconds |-> r.seconds, protected |-> r.writeProtected]
    BY <1>3
  <2>8. Contents(u) = [Contents(r) EXCEPT !.memory[place] = value]
    BY <2>4, <2>5, <2>7 DEF Contents
  <2> HIDE DEF saving, pram, memory, t
  <2>9. CASE r.writeProtected
    <3>1. Wrote(r, t, Contents(r))
      BY <2>2, <2>9, <1>3 DEF Wrote
    <3> QED BY <3>1, <1>2, <2>9
  <2>10. CASE ~r.writeProtected
    <3>1. Wrote(r, t, [Contents(r) EXCEPT !.memory[place] = value])
      BY <2>2, <2>4, <2>6, <2>8, <2>10 DEF Wrote
    <3> QED BY <3>1, <1>2, <2>10
  <2> QED BY <2>9, <2>10, <1>3
<1> QED BY <1>4, <1>5, <1>6 DEF s

-----------------------------------------------------------------------------
(* The calls.                                                              *)

Routines == Calls \union ToSet(TimeCalls)

LEMMA RoutinesAre ==
  ASSUME PortBAssumption, NEW call \in Routines
  PROVE  /\ call.read \in BOOLEAN /\ call.value \in Byte
         /\ \/ call.on = "pram" /\ call.at \in 0..19
            \/ call.on = "extended" /\ call.at \in Places
            \/ call.on = "seconds" /\ ~call.read /\ call.at \in 0..(CounterBytes - 1)
               /\ call \in Calls
            \/ call.on = "seconds" /\ call.read /\ call.at \in 0..7 /\ call.at % 4 < CounterBytes
               /\ call \notin Calls
            \/ call.on = "protect" /\ ~call.read /\ call.at = 0
<1>1. CASE call \in Calls
  <2>1. CASE call \in [on : {"pram"}, at : 0..19, read : BOOLEAN, value : 0..255]
    BY <2>1 DEF Byte
  <2>2. CASE call \in [on : {"extended"}, at : Extended \union 8..11 \union 16..31,
                       read : BOOLEAN, value : 0..255]
    BY <2>2, PlacesAre DEF Byte, Classics
  <2>3. CASE call \in [on : {"seconds"}, at : 0..(CounterBytes - 1), read : {FALSE},
                       value : 0..255]
    BY <1>1, <2>3 DEF Byte
  <2>4. CASE call \in [on : {"protect"}, at : {0}, read : {FALSE}, value : 0..255]
    BY <2>4 DEF Byte
  <2>5. call \in [on : {"pram"}, at : 0..19, read : BOOLEAN, value : 0..255] \union
                [on : {"extended"}, at : Extended \union 8..11 \union 16..31,
                 read : BOOLEAN, value : 0..255] \union
                [on : {"seconds"}, at : 0..(CounterBytes - 1), read : {FALSE},
                 value : 0..255] \union
                [on : {"protect"}, at : {0}, read : {FALSE}, value : 0..255]
    BY ONLY <1>1, PortBAssumption, Zenon DEF PortBAssumption
  <2> QED BY ONLY <2>1, <2>2, <2>3, <2>4, <2>5
<1>2. CASE call \in ToSet(TimeCalls)
  <2>1. PICK n \in 1..(2 * CounterBytes) : call = TimeCalls[n]
    BY <1>2 DEF ToSet, TimeCalls
  <2> DEFINE at == CounterBytes - 1 - ((n - 1) % CounterBytes) + (IF n <= CounterBytes THEN 4 ELSE 0)
  <2>2. call = [on |-> "seconds", read |-> TRUE, value |-> 0, at |-> at]
    BY <2>1 DEF TimeCalls
  <2>3. at \in 0..7 /\ at % 4 < CounterBytes
    <3>1. CounterBytes \in 1..4
      BY DEF PortBAssumption
    <3>2. n - 1 = CounterBytes * ((n - 1) \div CounterBytes) + ((n - 1) % CounterBytes)
          /\ (n - 1) % CounterBytes \in 0..(CounterBytes - 1)
      BY <3>1
    <3> QED BY <3>1, <3>2
  <2>4. call \notin Calls
    BY <2>2 DEF PortBAssumption
  <2> HIDE DEF at
  <2> QED BY <2>2, <2>3, <2>4 DEF Byte
<1> QED BY <1>1, <1>2 DEF Routines

\* The command bytes name what a call reaches.
LEMMA DirectionIs ==
  ASSUME NEW call, call.read \in BOOLEAN
  PROVE  Direction(call) = IF call.read THEN 128 ELSE 0
BY DEF Direction

LEMMA SecondsCommands ==
  ASSUME NEW call, call.read \in BOOLEAN, call.at \in 0..7
  PROVE  LET c == SecondsCommand(call)
         IN  /\ c \in Byte /\ (c \div 8) % 16 # 7 /\ Clock!Bit(c, 7) = call.read
             /\ Clock!DecodeCommand(c) = <<"seconds", call.at % 4>>
<1> DEFINE c == SecondsCommand(call)
<1>1. c = (IF call.read THEN 128 ELSE 0) + 4 * call.at + 1
  BY DirectionIs DEF SecondsCommand
<1> HIDE DEF c
<1>2. c \in Byte /\ (c \div 8) % 16 # 7 /\ Clock!Bit(c, 7) = call.read
  BY <1>1 DEF Byte, Clock!Bit
<1>3. /\ c % 4 = 1 /\ ~Clock!Bit(c, 6) /\ (c \div 4) % 4 = call.at % 4
      /\ (c \div 16) % 4 \in {0, 1}
  <2>1. CASE call.read
    <3>1. c = 129 + 4 * call.at
      BY <1>1, <2>1
    <3>2. c % 4 = 1 /\ c \div 4 = 32 + call.at
      BY <3>1
    <3>3. c \div 16 = 8 + call.at \div 4 /\ c \div 64 = 2
      BY <3>1
    <3> QED BY <3>2, <3>3 DEF Clock!Bit
  <2>2. CASE ~call.read
    <3>1. c = 1 + 4 * call.at
      BY <1>1, <2>2
    <3>2. c % 4 = 1 /\ c \div 4 = call.at
      BY <3>1
    <3>3. c \div 16 = call.at \div 4 /\ c \div 64 = 0
      <4>1. call.at = 4 * (call.at \div 4) + (call.at % 4) /\ call.at % 4 \in 0..3
        OBVIOUS
      <4>2. c \div 64 = 0
        BY <3>1
      <4>3. c \div 16 = call.at \div 4
        <5> DEFINE q == call.at \div 4
                   m == call.at % 4
        <5>1. call.at = 4 * q + m /\ m \in 0..3 /\ q \in Int
          BY <4>1
        <5> HIDE DEF q, m
        <5>2. c \div 16 = q
          BY <5>1, <3>1
        <5> QED BY <5>2 DEF q
      <4> QED BY <4>2, <4>3
    <3> QED BY <3>2, <3>3 DEF Clock!Bit
  <2> QED BY <2>1, <2>2
<1>4. Clock!DecodeCommand(c) = <<"seconds", call.at % 4>>
  BY <1>3 DEF Clock!DecodeCommand
<1> QED BY <1>2, <1>4 DEF c

LEMMA PramCommands ==
  ASSUME NEW call, call.read \in BOOLEAN, call.at \in 0..19
  PROVE  LET c == PramCommand(call)
         IN  /\ c \in Byte /\ (c \div 8) % 16 # 7 /\ Clock!Bit(c, 7) = call.read
             /\ Clock!DecodeCommand(c) = <<"pram", call.at>>
<1> DEFINE c == PramCommand(call)
           base == IF call.read THEN 128 ELSE 0
<1>1. Direction(call) = base /\ base \in {0, 128}
  BY DirectionIs
<1>2. CASE call.at >= 16
  <2>1. c = base + 33 + 4 * (call.at - 16)
    BY <1>1, <1>2 DEF PramCommand
  <2> HIDE DEF c
  <2>2. c \in Byte /\ (c \div 8) % 16 # 7 /\ Clock!Bit(c, 7) = call.read
    BY <2>1, <1>2 DEF Byte, Clock!Bit
  <2>3. /\ c % 4 = 1 /\ ~Clock!Bit(c, 6) /\ 16 + ((c \div 4) % 4) = call.at
        /\ (c \div 16) % 4 = 2
    <3>1. CASE base = 128
      <4>1. c % 4 = 1 /\ c \div 4 = 40 + (call.at - 16) /\ c \div 16 = 10 /\ c \div 64 = 2
        BY <2>1, <3>1, <1>2
      <4> QED BY <4>1, <1>2 DEF Clock!Bit
    <3>2. CASE base = 0
      <4>1. c % 4 = 1 /\ c \div 4 = 8 + (call.at - 16) /\ c \div 16 = 2 /\ c \div 64 = 0
        BY <2>1, <3>2, <1>2
      <4> QED BY <4>1, <1>2 DEF Clock!Bit
    <3> QED BY <1>1, <3>1, <3>2
  <2>4. Clock!DecodeCommand(c) = <<"pram", call.at>>
    BY <2>3 DEF Clock!DecodeCommand
  <2> QED BY <2>2, <2>4 DEF c
<1>3. CASE call.at < 16
  <2>1. c = base + 65 + 4 * call.at
    BY <1>1, <1>3 DEF PramCommand
  <2> HIDE DEF c
  <2>2. c \in Byte /\ (c \div 8) % 16 # 7 /\ Clock!Bit(c, 7) = call.read
    BY <2>1, <1>3 DEF Byte, Clock!Bit
  <2>3. c % 4 = 1 /\ Clock!Bit(c, 6) /\ (c \div 4) % 16 = call.at
    <3>1. CASE base = 128
      <4>1. c % 4 = 1 /\ c \div 4 = 48 + call.at /\ c \div 64 = 3
        BY <2>1, <3>1, <1>3
      <4> QED BY <4>1, <1>3 DEF Clock!Bit
    <3>2. CASE base = 0
      <4>1. c % 4 = 1 /\ c \div 4 = 16 + call.at /\ c \div 64 = 1
        BY <2>1, <3>2, <1>3
      <4> QED BY <4>1, <1>3 DEF Clock!Bit
    <3> QED BY <1>1, <3>1, <3>2
  <2>4. Clock!DecodeCommand(c) = <<"pram", call.at>>
    BY <2>3 DEF Clock!DecodeCommand
  <2> QED BY <2>2, <2>4 DEF c
<1> QED BY <1>2, <1>3

LEMMA ProtectCommand ==
  /\ 53 \in Byte /\ (53 \div 8) % 16 # 7 /\ Clock!Bit(53, 7) = FALSE
  /\ Clock!DecodeCommand(53) = <<"protect", 0>>
<1>1. 53 \in Byte /\ (53 \div 8) % 16 # 7 /\ Clock!Bit(53, 7) = FALSE
  BY DEF Byte, Clock!Bit
<1>2. 53 % 4 = 1 /\ ~Clock!Bit(53, 6) /\ (53 \div 4) % 4 = 1 /\ (53 \div 16) % 4 = 3
  BY DEF Clock!Bit
<1> QED BY <1>1, <1>2 DEF Clock!DecodeCommand

LEMMA ExtendedCommands ==
  ASSUME NEW call, call.read \in BOOLEAN, call.at \in Byte
  PROVE  LET c == ExtendedCommand(call)
         IN  /\ c = <<c[1], c[2]>> /\ c[1] \in Byte /\ c[2] \in Byte
             /\ (c[1] \div 8) % 16 = 7 /\ Clock!Bit(c[1], 7) = call.read
             /\ (c[1] % 8) * 32 + ((c[2] \div 4) % 32) = call.at
<1> DEFINE high == (IF call.read THEN 128 ELSE 0) + 56 + call.at \div 32
           low == 4 * (call.at % 32)
<1>1. ExtendedCommand(call) = <<high, low>>
  BY DirectionIs DEF ExtendedCommand
<1>2. call.at \div 32 \in 0..7 /\ call.at % 32 \in 0..31
      /\ call.at = 32 * (call.at \div 32) + (call.at % 32)
  BY DEF Byte
<1>3. high \in Byte /\ low \in Byte
  BY <1>2 DEF Byte
<1>4. (high \div 8) % 16 = 7 /\ Clock!Bit(high, 7) = call.read
  BY <1>2 DEF Clock!Bit
<1>5. (high % 8) * 32 + ((low \div 4) % 32) = call.at
  <2>1. high % 8 = call.at \div 32
    BY <1>2
  <2>2. (low \div 4) % 32 = call.at % 32
    BY <1>2
  <2> QED BY <2>1, <2>2, <1>2
<1> HIDE DEF high, low
<1> QED BY <1>1, <1>3, <1>4, <1>5

\* The bytes a routine sends: its command, and what it writes.
Naming(call) == IF call.on = "extended" THEN 2 ELSE 1
Outgoing(call) == Naming(call) + IF call.read THEN 0 ELSE 1
Aims(call, bytes) ==
  /\ bytes[1] \in Byte /\ Clock!Bit(bytes[1], 7) = call.read
  /\ call.on = "extended" =>
       /\ (bytes[1] \div 8) % 16 = 7
       /\ (bytes[1] % 8) * 32 + ((bytes[2] \div 4) % 32) = call.at
  /\ call.on # "extended" => (bytes[1] \div 8) % 16 # 7
  /\ call.on = "seconds" => Clock!DecodeCommand(bytes[1]) = <<"seconds", call.at % 4>>
  /\ call.on = "pram" => Clock!DecodeCommand(bytes[1]) = <<"pram", call.at>>
  /\ call.on = "protect" => Clock!DecodeCommand(bytes[1]) = <<"protect", 0>>

LEMMA BytesSentAre ==
  ASSUME PortBAssumption, NEW call \in Routines
  PROVE  /\ BytesSent(call) \in Seq(Byte) /\ Len(BytesSent(call)) = Outgoing(call)
         /\ Aims(call, BytesSent(call))
         /\ ~call.read => BytesSent(call)[Outgoing(call)] = call.value
<1>1. call.read \in BOOLEAN /\ call.value \in Byte
  BY RoutinesAre
<1> DEFINE command == CommandBytes(call)
<1>2. /\ command \in Seq(Byte) /\ Len(command) = Naming(call) /\ Aims(call, command)
  <2>1. CASE call.on = "pram"
    <3>1. command = <<PramCommand(call)>> /\ call.at \in 0..19
      BY <2>1, RoutinesAre DEF CommandBytes
    <3> HIDE DEF command
    <3> QED BY <2>1, <3>1, <1>1, PramCommands DEF Naming, Aims
  <2>2. CASE call.on = "seconds"
    <3>1. command = <<SecondsCommand(call)>> /\ call.at \in 0..7
      <4>1. CounterBytes \in 1..4
        BY DEF PortBAssumption
      <4> QED BY <4>1, <2>2, RoutinesAre DEF CommandBytes
    <3> HIDE DEF command
    <3>2. /\ command[1] \in Byte /\ Clock!Bit(command[1], 7) = call.read
          /\ (command[1] \div 8) % 16 # 7
          /\ Clock!DecodeCommand(command[1]) = <<"seconds", call.at % 4>>
      BY <3>1, <1>1, SecondsCommands
    <3>3. command \in Seq(Byte) /\ Len(command) = 1
      BY <3>1, <3>2
    <3> QED BY <2>2, <3>2, <3>3 DEF Naming, Aims
  <2>3. CASE call.on = "protect"
    <3>1. command = <<53>> /\ call.read = FALSE
      BY <2>3, RoutinesAre DEF CommandBytes
    <3> HIDE DEF command
    <3>2. /\ command[1] \in Byte /\ Clock!Bit(command[1], 7) = call.read
          /\ (command[1] \div 8) % 16 # 7
          /\ Clock!DecodeCommand(command[1]) = <<"protect", 0>>
      BY <3>1, ProtectCommand
    <3>3. command \in Seq(Byte) /\ Len(command) = 1
      BY <3>1, <3>2
    <3>4. Aims(call, command)
      BY <2>3, <3>2 DEF Aims
    <3>5. Naming(call) = 1
      BY <2>3 DEF Naming
    <3> QED BY <3>3, <3>4, <3>5
  <2>4. CASE call.on = "extended"
    <3>1. command = ExtendedCommand(call) /\ call.at \in Byte
      BY <2>4, RoutinesAre, PlacesAre DEF CommandBytes
    <3> HIDE DEF command
    <3>2. /\ command = <<command[1], command[2]>> /\ command[1] \in Byte /\ command[2] \in Byte
          /\ (command[1] \div 8) % 16 = 7 /\ Clock!Bit(command[1], 7) = call.read
          /\ (command[1] % 8) * 32 + ((command[2] \div 4) % 32) = call.at
      BY <3>1, <1>1, ExtendedCommands
    <3>3. \A x, y \in Byte : <<x, y>> \in Seq(Byte) /\ Len(<<x, y>>) = 2
      OBVIOUS
    <3>4. command \in Seq(Byte) /\ Len(command) = 2
      BY <3>2, <3>3
    <3>5. Aims(call, command)
      BY <2>4, <3>2 DEF Aims
    <3> QED BY <2>4, <3>4, <3>5 DEF Naming
  <2> QED BY <2>1, <2>2, <2>3, <2>4, RoutinesAre
<1> HIDE DEF command
<1>3. CASE call.read
  BY <1>2, <1>3 DEF BytesSent, Outgoing, command, Naming
<1>4. CASE ~call.read
  <2>1. BytesSent(call) = Append(command, call.value)
    BY <1>4 DEF BytesSent, command
  <2>2. /\ Append(command, call.value) \in Seq(Byte)
        /\ Len(Append(command, call.value)) = Len(command) + 1
        /\ Append(command, call.value)[Len(command) + 1] = call.value
        /\ \A i \in 1..Len(command) : Append(command, call.value)[i] = command[i]
    BY <1>1, <1>2, AppendProperties
  <2>3. Aims(call, BytesSent(call))
    BY <2>1, <2>2, <1>2 DEF Aims, Naming
  <2> QED BY <2>1, <2>2, <2>3, <1>2, <1>4 DEF Outgoing, Naming
<1> QED BY <1>1, <1>3, <1>4

\* What a routine does to the port, step by step.
PortSteps == [op : {"write", "read"}, lines : [enabled : BOOLEAN, clock : BOOLEAN,
                                           data : BOOLEAN, driving : BOOLEAN]]

LEMMA SetIsAMove ==
  ASSUME NEW a \in BOOLEAN, NEW b \in BOOLEAN, NEW c \in BOOLEAN, NEW d \in BOOLEAN
  PROVE  Set(a, b, c, d) \in PortSteps /\ ReadPort \in PortSteps
BY DEF Set, Pins, ReadPort, PortSteps

LEMMA SentIs ==
  ASSUME NEW bytes \in Seq(Byte)
  PROVE  LET s == Sent(bytes)
         IN  /\ s \in Seq(PortSteps) /\ Len(s) = 16 * Len(bytes)
             /\ \A n \in 1..(16 * Len(bytes)) :
                  s[n] = SendBit(bytes[(n + 15) \div 16], (n - 1) % 16)
<1>1. \A byte, n : SendBit(byte, n) \in PortSteps
  <2> TAKE byte, n
  <2>1. (n % 2 = 1) \in BOOLEAN /\ Clock!Bit(byte, 7 - n \div 2) \in BOOLEAN
    BY BitType
  <2> QED BY <2>1, SetIsAMove DEF SendBit
<1>2. 16 * Len(bytes) \in Nat
  BY LenProperties
<1> QED BY <1>1, <1>2 DEF Sent

\* The pieces of a line of steps put together.
LEMMA JoinIs ==
  ASSUME NEW a \in Seq(PortSteps), NEW b \in Seq(PortSteps), NEW j, j = a \o b
  PROVE  /\ j \in Seq(PortSteps) /\ Len(j) = Len(a) + Len(b)
         /\ \A i \in 1..Len(a) : j[i] = a[i]
         /\ \A i \in 1..Len(b) : j[Len(a) + i] = b[i]
<1>1. Len(a) \in Nat /\ Len(b) \in Nat
  BY LenProperties
<1>2. /\ j \in Seq(PortSteps) /\ Len(j) = Len(a) + Len(b)
      /\ \A i \in 1..(Len(a) + Len(b)) :
           j[i] = IF i <= Len(a) THEN a[i] ELSE b[i - Len(a)]
  BY ConcatProperties
<1>3. ASSUME NEW i \in 1..Len(a) PROVE j[i] = a[i]
  BY <1>1, <1>2
<1>4. ASSUME NEW i \in 1..Len(b) PROVE j[Len(a) + i] = b[i]
  <2>1. Len(a) + i \in 1..(Len(a) + Len(b)) /\ ~(Len(a) + i <= Len(a))
        /\ Len(a) + i - Len(a) = i
    BY <1>1
  <2> QED BY <2>1, <1>2
<1> QED BY <1>2, <1>3, <1>4

LEMMA OneStep ==
  ASSUME NEW x \in PortSteps
  PROVE  <<x>> \in Seq(PortSteps) /\ Len(<<x>>) = 1 /\ <<x>>[1] = x
OBVIOUS

LEMMA TwoSteps ==
  ASSUME NEW x \in PortSteps, NEW y \in PortSteps
  PROVE  <<x, y>> \in Seq(PortSteps) /\ Len(<<x, y>>) = 2 /\ <<x, y>>[1] = x /\ <<x, y>>[2] = y
OBVIOUS

\* A bit of the answer is asked for in three steps: the clock line falls, the
\* port is read, the clock line rises.
BitStep(n) == IF n % 3 = 1 THEN Set(TRUE, FALSE, TRUE, FALSE)
              ELSE IF n % 3 = 2 THEN ReadPort ELSE Set(TRUE, TRUE, TRUE, FALSE)

LEMMA ReceiveByteIs ==
  /\ ReceiveByte \in Seq(PortSteps) /\ Len(ReceiveByte) = 25
  /\ ReceiveByte[1] = Set(TRUE, TRUE, TRUE, FALSE)
  /\ \A n \in 1..24 : ReceiveByte[n + 1] = BitStep(n)
<1> DEFINE high == Set(TRUE, TRUE, TRUE, FALSE)
           low == Set(TRUE, FALSE, TRUE, FALSE)
           rest == [n \in 1..24 |-> CASE n % 3 = 1 -> low
                                      [] n % 3 = 2 -> ReadPort
                                      [] OTHER -> high]
<1>1. high \in PortSteps /\ low \in PortSteps /\ ReadPort \in PortSteps
  BY SetIsAMove
<1>2. ReceiveByte = <<high>> \o rest
  BY DEF ReceiveByte
<1>3. \A n : BitStep(n) = IF n % 3 = 1 THEN low ELSE IF n % 3 = 2 THEN ReadPort ELSE high
  BY DEF BitStep
<1> HIDE DEF high, low
<1>4. ASSUME NEW n \in 1..24 PROVE rest[n] = BitStep(n) /\ BitStep(n) \in PortSteps
  <2>1. CASE n % 3 = 1
    BY <1>1, <1>3, <2>1
  <2>2. CASE n % 3 = 2
    BY <1>1, <1>3, <2>2
  <2>3. CASE n % 3 # 1 /\ n % 3 # 2
    BY <1>1, <1>3, <2>3
  <2> QED BY <2>1, <2>2, <2>3
<1>5. rest = [n \in 1..24 |-> BitStep(n)]
  BY <1>4
<1> HIDE DEF rest
<1>6. rest \in Seq(PortSteps) /\ Len(rest) = 24
  <2>1. rest = [n \in 1..24 |-> BitStep(n)] /\ \A n \in 1..24 : BitStep(n) \in PortSteps
    BY <1>4, <1>5
  <2> HIDE DEF BitStep
  <2> QED BY ONLY <2>1
<1>7. <<high>> \in Seq(PortSteps) /\ Len(<<high>>) = 1 /\ <<high>>[1] = high
  BY <1>1, OneStep
<1> DEFINE one == <<high>>
<1>8. ReceiveByte = one \o rest /\ one \in Seq(PortSteps) /\ Len(one) = 1 /\ one[1] = high
  BY <1>2, <1>7
<1> HIDE DEF one
<1>9. /\ ReceiveByte \in Seq(PortSteps) /\ Len(ReceiveByte) = 25
      /\ ReceiveByte[1] = one[1]
      /\ \A n \in 1..24 : ReceiveByte[1 + n] = rest[n]
  <2>1. one \in Seq(PortSteps) /\ rest \in Seq(PortSteps) /\ ReceiveByte = one \o rest
    BY <1>6, <1>8
  <2>2. /\ ReceiveByte \in Seq(PortSteps) /\ Len(ReceiveByte) = Len(one) + Len(rest)
        /\ \A i \in 1..Len(one) : ReceiveByte[i] = one[i]
        /\ \A i \in 1..Len(rest) : ReceiveByte[Len(one) + i] = rest[i]
    BY ONLY <2>1, JoinIs
  <2>3. 1 \in 1..Len(one)
    BY <1>8
  <2>4. Len(ReceiveByte) = 25
    BY <2>2, <1>6, <1>8
  <2>5. ASSUME NEW n \in 1..24 PROVE ReceiveByte[1 + n] = rest[n]
    <3>1. n \in 1..Len(rest) /\ Len(one) = 1
      BY <1>6, <1>8
    <3> QED BY <2>2, <3>1
  <2> QED BY <2>2, <2>3, <2>4, <2>5
<1>10. ASSUME NEW n \in 1..24 PROVE ReceiveByte[n + 1] = BitStep(n)
  <2>1. n + 1 = 1 + n
    OBVIOUS
  <2> QED BY <2>1, <1>4, <1>9
<1> QED BY <1>8, <1>9, <1>10 DEF high

Receives(call) == IF call.read THEN 25 ELSE 0
Steps(call) == 3 + 16 * Outgoing(call) + Receives(call)

LEMMA ScriptIs ==
  ASSUME PortBAssumption, NEW call \in Routines
  PROVE  LET s == Script(call)
             sent == 16 * Outgoing(call)
         IN  /\ s \in Seq(PortSteps) /\ Len(s) = Steps(call) /\ Outgoing(call) \in 1..3
             /\ s[1] = Set(FALSE, TRUE, TRUE, TRUE) /\ s[2] = Set(TRUE, TRUE, TRUE, TRUE)
             /\ \A n \in 1..sent :
                  s[2 + n] = SendBit(BytesSent(call)[(n + 15) \div 16], (n - 1) % 16)
             /\ \A n \in 1..Receives(call) : s[2 + sent + n] = ReceiveByte[n]
             /\ s[Steps(call)] = Set(FALSE, TRUE, TRUE, TRUE)
<1> DEFINE sent == 16 * Outgoing(call)
           b == Sent(BytesSent(call))
           c == IF call.read THEN ReceiveByte ELSE <<>>
           script == Script(call)
<1>1. Start \in Seq(PortSteps) /\ Len(Start) = 2 /\ End \in Seq(PortSteps) /\ Len(End) = 1
      /\ Start[1] = Set(FALSE, TRUE, TRUE, TRUE) /\ Start[2] = Set(TRUE, TRUE, TRUE, TRUE)
      /\ End[1] = Set(FALSE, TRUE, TRUE, TRUE)
  <2> DEFINE x == Set(FALSE, TRUE, TRUE, TRUE)
             y == Set(TRUE, TRUE, TRUE, TRUE)
  <2>1. x \in PortSteps /\ y \in PortSteps
    BY SetIsAMove
  <2>2. Start = <<x, y>> /\ End = <<x>>
    BY DEF Start, End
  <2> HIDE DEF x, y
  <2>3. Start \in Seq(PortSteps) /\ Len(Start) = 2 /\ Start[1] = x /\ Start[2] = y
    BY <2>1, <2>2, TwoSteps
  <2>4. End \in Seq(PortSteps) /\ Len(End) = 1 /\ End[1] = x
    BY <2>1, <2>2, OneStep
  <2> QED BY <2>3, <2>4 DEF x, y
<1>2. Outgoing(call) \in 1..3 /\ sent \in Nat
  BY DEF Outgoing, Naming
<1>3. /\ b \in Seq(PortSteps) /\ Len(b) = sent
      /\ \A n \in 1..sent : b[n] = SendBit(BytesSent(call)[(n + 15) \div 16], (n - 1) % 16)
  BY BytesSentAre, SentIs
<1>4. /\ c \in Seq(PortSteps) /\ Len(c) = Receives(call)
      /\ \A n \in 1..Receives(call) : c[n] = ReceiveByte[n]
  <2>1. CASE call.read
    BY <2>1, ReceiveByteIs DEF Receives
  <2>2. CASE ~call.read
    <3>1. c = <<>> /\ Receives(call) = 0
      BY <2>2 DEF Receives
    <3> HIDE DEF c
    <3> QED BY <3>1
  <2> QED BY <2>1, <2>2
<1>5. script = ((Start \o b) \o c) \o End
  <2>1. script = Start \o b \o c \o End
    BY DEF Script
  <2> QED BY <2>1
<1>6. Receives(call) \in {0, 25}
  BY DEF Receives
<1>7. Steps(call) = 3 + sent + Receives(call)
  BY DEF Steps
<1> HIDE DEF b, c, sent, script
<1> DEFINE ab == Start \o b
<1>8. /\ ab \in Seq(PortSteps) /\ Len(ab) = 2 + sent
      /\ ab[1] = Start[1] /\ ab[2] = Start[2]
      /\ \A i \in 1..sent : ab[2 + i] = b[i]
  <2>1. /\ ab \in Seq(PortSteps) /\ Len(ab) = Len(Start) + Len(b)
        /\ \A i \in 1..Len(Start) : ab[i] = Start[i]
        /\ \A i \in 1..Len(b) : ab[Len(Start) + i] = b[i]
    <3>1. Start \in Seq(PortSteps) /\ b \in Seq(PortSteps) /\ ab = Start \o b
      BY <1>1, <1>3
    <3> HIDE DEF ab
    <3> QED BY ONLY <3>1, JoinIs
  <2> HIDE DEF ab
  <2>2. 1 \in 1..Len(Start) /\ 2 \in 1..Len(Start)
    BY <1>1
  <2> QED BY <2>1, <2>2, <1>1, <1>3
<1>9. script = (ab \o c) \o End
  BY <1>5
<1> HIDE DEF ab
<1> DEFINE abc == ab \o c
<1>10. /\ abc \in Seq(PortSteps) /\ Len(abc) = 2 + sent + Receives(call)
       /\ abc[1] = Start[1] /\ abc[2] = Start[2]
       /\ \A i \in 1..sent : abc[2 + i] = b[i]
       /\ \A i \in 1..Receives(call) : abc[2 + sent + i] = c[i]
  <2>1. /\ abc \in Seq(PortSteps) /\ Len(abc) = Len(ab) + Len(c)
        /\ \A i \in 1..Len(ab) : abc[i] = ab[i]
        /\ \A i \in 1..Len(c) : abc[Len(ab) + i] = c[i]
    <3>1. ab \in Seq(PortSteps) /\ c \in Seq(PortSteps) /\ abc = ab \o c
      BY <1>8, <1>4
    <3> HIDE DEF abc
    <3> QED BY ONLY <3>1, JoinIs
  <2> HIDE DEF abc
  <2>2. 1 \in 1..Len(ab) /\ 2 \in 1..Len(ab) /\ \A i \in 1..sent : 2 + i \in 1..Len(ab)
    BY <1>2, <1>8
  <2> QED BY <2>1, <2>2, <1>8, <1>4
<1>11. script = abc \o End
  BY <1>9
<1> HIDE DEF abc
<1>12. /\ script \in Seq(PortSteps) /\ Len(script) = Len(abc) + Len(End)
       /\ \A i \in 1..Len(abc) : script[i] = abc[i]
       /\ \A i \in 1..Len(End) : script[Len(abc) + i] = End[i]
  <2>1. abc \in Seq(PortSteps) /\ End \in Seq(PortSteps) /\ script = abc \o End
    BY <1>1, <1>10, <1>11
  <2> QED BY ONLY <2>1, JoinIs
<1>13. script \in Seq(PortSteps) /\ Len(script) = Steps(call)
  BY <1>1, <1>2, <1>6, <1>7, <1>10, <1>12
<1>14. script[1] = Start[1] /\ script[2] = Start[2]
  <2>1. 1 \in 1..Len(abc) /\ 2 \in 1..Len(abc)
    BY <1>2, <1>6, <1>10
  <2> QED BY <2>1, <1>10, <1>12
<1>15. ASSUME NEW n \in 1..sent PROVE script[2 + n] = b[n]
  <2>1. 2 + n \in 1..Len(abc)
    BY <1>2, <1>6, <1>10
  <2> QED BY <2>1, <1>10, <1>12
<1>16. ASSUME NEW n \in 1..Receives(call) PROVE script[2 + sent + n] = c[n]
  <2>1. 2 + sent + n \in 1..Len(abc)
    BY <1>2, <1>6, <1>10
  <2> QED BY <2>1, <1>10, <1>12
<1>17. script[Steps(call)] = End[1]
  <2>1. 1 \in 1..Len(End) /\ Steps(call) = Len(abc) + 1
    BY <1>1, <1>2, <1>6, <1>7, <1>10
  <2> QED BY <2>1, <1>12
<1> QED BY <1>1, <1>2, <1>3, <1>4, <1>13, <1>14, <1>15, <1>16, <1>17 DEF sent, script

-----------------------------------------------------------------------------
(* A byte bit by bit, high bit first.                                      *)

\* Its high bits, as they come in; its low ones, as they wait to go out.
Top(v, k) == v \div 2^(8 - k)
Rest(v, k) == (v * 2^k) % 256
BitValue(v, n) == IF Clock!Bit(v, n) THEN 1 ELSE 0

LEMMA Powers ==
  /\ 2^0 = 1 /\ 2^1 = 2 /\ 2^2 = 4 /\ 2^3 = 8 /\ 2^4 = 16 /\ 2^5 = 32
  /\ 2^6 = 64 /\ 2^7 = 128 /\ 2^8 = 256
OBVIOUS

LEMMA TopGrows ==
  ASSUME NEW v \in Byte, NEW k \in 0..7
  PROVE  Top(v, k + 1) = 2 * Top(v, k) + BitValue(v, 7 - k)
<1>1. CASE k = 0
  BY <1>1 DEF Top, BitValue, Clock!Bit, Byte
<1>2. CASE k = 1
  BY <1>2 DEF Top, BitValue, Clock!Bit, Byte
<1>3. CASE k = 2
  BY <1>3 DEF Top, BitValue, Clock!Bit, Byte
<1>4. CASE k = 3
  BY <1>4 DEF Top, BitValue, Clock!Bit, Byte
<1>5. CASE k = 4
  BY <1>5 DEF Top, BitValue, Clock!Bit, Byte
<1>6. CASE k = 5
  BY <1>6 DEF Top, BitValue, Clock!Bit, Byte
<1>7. CASE k = 6
  BY <1>7 DEF Top, BitValue, Clock!Bit, Byte
<1>8. CASE k = 7
  BY <1>8 DEF Top, BitValue, Clock!Bit, Byte
<1> QED BY <1>1, <1>2, <1>3, <1>4, <1>5, <1>6, <1>7, <1>8

LEMMA TopEnds ==
  ASSUME NEW v \in Byte
  PROVE  Top(v, 0) = 0 /\ Top(v, 8) = v
BY DEF Top, Byte

LEMMA RestGoes ==
  ASSUME NEW v \in Byte, NEW k \in 0..7
  PROVE  /\ Clock!Bit(Rest(v, k), 7) = Clock!Bit(v, 7 - k)
         /\ (2 * Rest(v, k)) % 256 = Rest(v, k + 1)
<1>1. CASE k = 0
  BY <1>1 DEF Rest, Clock!Bit, Byte
<1>2. CASE k = 1
  BY <1>2 DEF Rest, Clock!Bit, Byte
<1>3. CASE k = 2
  BY <1>3 DEF Rest, Clock!Bit, Byte
<1>4. CASE k = 3
  BY <1>4 DEF Rest, Clock!Bit, Byte
<1>5. CASE k = 4
  BY <1>5 DEF Rest, Clock!Bit, Byte
<1>6. CASE k = 5
  BY <1>6 DEF Rest, Clock!Bit, Byte
<1>7. CASE k = 6
  BY <1>7 DEF Rest, Clock!Bit, Byte
<1>8. CASE k = 7
  BY <1>8 DEF Rest, Clock!Bit, Byte
<1> QED BY <1>1, <1>2, <1>3, <1>4, <1>5, <1>6, <1>7, <1>8

LEMMA RestStarts ==
  ASSUME NEW v \in Byte
  PROVE  Rest(v, 0) = v
BY DEF Rest, Byte

-----------------------------------------------------------------------------
(* A routine on its way.                                                   *)

\* What the chip knows of a command when k bytes of it have come in.
Stage(r, call, k) ==
  /\ k = 0 => ~r.hasCommand /\ r.extendedStage = "idle"
  /\ k > 0 => r.hasCommand /\ r.command = BytesSent(call)[1]
  /\ k > 0 /\ call.on # "extended" => r.extendedStage = "idle"
  /\ k = 1 /\ call.on = "extended" => r.extendedStage = "address"
  /\ k = 2 /\ call.on = "extended" =>
       r.extendedStage = "data" /\ r.extendedAddress = call.at

\* A parameter call reaches one of the classic places.
LEMMA PlaceIs ==
  ASSUME PortBAssumption, NEW call, call.on = "pram", call.at \in 0..19
  PROVE  Place(call) \in Classics /\ Clock!Classic(Place(call)) = call.at
<1>1. CASE call.at < 16
  <2>1. Place(call) = 16 + call.at
    BY <1>1 DEF Place
  <2> QED BY <1>1, <2>1 DEF Classics, Clock!Classic
<1>2. CASE call.at >= 16
  <2>1. Place(call) = 8 + call.at - 16
    BY <1>2 DEF Place
  <2> QED BY <1>2, <2>1 DEF Classics, Clock!Classic
<1> QED BY <1>1, <1>2

LEMMA ByteOfIs ==
  ASSUME NEW number \in Int, NEW index \in 0..3
  PROVE  Clock!ByteOf(number, index) \in Byte
<1>1. CASE index = 0
  BY <1>1 DEF Clock!ByteOf, Byte
<1>2. CASE index = 1
  BY <1>2 DEF Clock!ByteOf, Byte
<1>3. CASE index = 2
  BY <1>3 DEF Clock!ByteOf, Byte
<1>4. CASE index = 3
  BY <1>4 DEF Clock!ByteOf, Byte
<1> QED BY <1>1, <1>2, <1>3, <1>4

\* A read answers with a byte.
LEMMA ExpectedIs ==
  ASSUME PortBAssumption, NEW call \in Routines, call.read, NEW r, IsChip(r)
  PROVE  Expected(Contents(r), call) \in Byte
<1>1. Contents(r).memory = Memory(r) /\ Contents(r).seconds = r.seconds
  BY DEF Contents
<1>2. CASE call.on = "seconds"
  <2>1. call.at % 4 \in 0..3 /\ r.seconds \in Int
    BY <1>2, RoutinesAre DEF IsChip
  <2> QED BY <1>1, <1>2, <2>1, ByteOfIs DEF Expected
<1>3. CASE call.on # "seconds"
  <2>1. Place(call) \in Places
    <3>1. CASE call.on = "pram"
      BY <3>1, RoutinesAre, PlaceIs, PlacesAre
    <3>2. CASE call.on = "extended"
      BY <3>2, RoutinesAre DEF Place
    <3> QED BY <1>3, <3>1, <3>2, RoutinesAre
  <2> QED BY <1>1, <1>3, <2>1, MemoryIs DEF Expected
<1> QED BY <1>2, <1>3

LEMMA CountsAre ==
  ASSUME PortBAssumption, NEW call \in Routines
  PROVE  /\ call.read \in BOOLEAN /\ call.value \in Byte
         /\ call.on = "extended" => Outgoing(call) = IF call.read THEN 2 ELSE 3
         /\ call.on # "extended" => Outgoing(call) = IF call.read THEN 1 ELSE 2
         /\ BytesSent(call) \in Seq(Byte) /\ Len(BytesSent(call)) = Outgoing(call)
         /\ \A k \in 0..(Outgoing(call) - 1) : BytesSent(call)[k + 1] \in Byte
<1>1. call.read \in BOOLEAN /\ call.value \in Byte
  BY RoutinesAre
<1>2. /\ call.on = "extended" => Outgoing(call) = IF call.read THEN 2 ELSE 3
      /\ call.on # "extended" => Outgoing(call) = IF call.read THEN 1 ELSE 2
  BY DEF Outgoing, Naming
<1>3. Outgoing(call) \in 1..3
  BY <1>2
<1>4. BytesSent(call) \in Seq(Byte) /\ Len(BytesSent(call)) = Outgoing(call)
  BY BytesSentAre
<1>5. ASSUME NEW k \in 0..(Outgoing(call) - 1) PROVE BytesSent(call)[k + 1] \in Byte
  <2>1. k + 1 \in 1..Len(BytesSent(call))
    BY <1>3, <1>4
  <2> QED BY <2>1, <1>4, ElementOfSeq
<1> QED BY <1>1, <1>2, <1>4, <1>5

\* A command has come in.
LEMMA CommandTaken ==
  ASSUME PortBAssumption, NEW call \in Routines, NEW r, IsChip(r), ~r.sending,
         Stage(r, call, 0)
  PROVE  LET s == Clock!ByteIn(r, BytesSent(call)[1], r.seconds)
         IN  /\ call.on = "extended" \/ ~call.read =>
                  /\ IsChip(s) /\ Kept(r, s) /\ s.enabled = r.enabled /\ s.clock = r.clock
                  /\ ~s.sending /\ s.shiftIn = r.shiftIn /\ s.bitCount = r.bitCount
                  /\ Stage(s, call, 1)
             /\ call.on # "extended" /\ call.read =>
                  Answering(r, s, Expected(Contents(r), call))
<1> DEFINE value == BytesSent(call)[1]
           s == Clock!ByteIn(r, value, r.seconds)
           named == [r EXCEPT !.command = value, !.hasCommand = TRUE]
           extended == (value \div 8) % 16 = 7
<1>1. /\ value \in Byte /\ call.read \in BOOLEAN /\ Clock!Bit(value, 7) = call.read
      /\ call.on = "extended" <=> extended
      /\ call.on = "seconds" => Clock!DecodeCommand(value) = <<"seconds", call.at % 4>>
      /\ call.on = "pram" => Clock!DecodeCommand(value) = <<"pram", call.at>>
  <2>1. Aims(call, BytesSent(call))
    BY BytesSentAre
  <2> QED BY <2>1, CountsAre DEF Aims
<1>2. ~r.hasCommand /\ r.extendedStage = "idle" /\ r.seconds \in Int /\ value \in Int
  BY <1>1 DEF Stage, IsChip, Byte
<1>3. /\ extended \/ ~Clock!Bit(value, 7) =>
           /\ IsChip(s) /\ Kept(r, s) /\ s.enabled = r.enabled /\ s.clock = r.clock
           /\ s.sending = r.sending /\ s.shiftIn = r.shiftIn /\ s.bitCount = r.bitCount
           /\ s.command = value /\ s.hasCommand = TRUE
           /\ s.extendedStage = IF extended THEN "address" ELSE r.extendedStage
      /\ ~extended /\ Clock!Bit(value, 7) =>
           s = Clock!Answer(named, Clock!ReadRegister(named, r.seconds))
      /\ IsChip(named) /\ Kept(r, named) /\ named.command = value
      /\ named.enabled = r.enabled /\ named.clock = r.clock
  BY <1>2, CommandIn
<1>4. CASE call.on = "extended" \/ ~call.read
  <2>1. /\ IsChip(s) /\ Kept(r, s) /\ s.enabled = r.enabled /\ s.clock = r.clock
        /\ ~s.sending /\ s.shiftIn = r.shiftIn /\ s.bitCount = r.bitCount
        /\ s.command = value /\ s.hasCommand = TRUE
        /\ s.extendedStage = IF call.on = "extended" THEN "address" ELSE "idle"
    BY <1>1, <1>2, <1>3, <1>4
  <2> HIDE DEF s
  <2>2. Stage(s, call, 1)
    BY <2>1 DEF Stage
  <2> QED BY <2>1, <2>2, <1>4 DEF s
<1>5. CASE call.on # "extended" /\ call.read
  <2>1. s = Clock!Answer(named, Clock!ReadRegister(named, r.seconds))
    BY <1>1, <1>3, <1>5
  <2> HIDE DEF named, s, extended
  <2>2. Clock!ReadRegister(named, r.seconds) = Expected(Contents(r), call)
    <3>1. CASE call.on = "seconds"
      <4>1. call.at % 4 < CounterBytes
        BY <1>5, <3>1, RoutinesAre
      <4>2. Clock!ReadRegister(named, r.seconds) = Clock!ByteOf(r.seconds, call.at % 4)
        BY <1>1, <1>3, <3>1, <4>1 DEF Clock!ReadRegister
      <4> QED BY <3>1, <4>2 DEF Expected, Contents
    <3>2. CASE call.on = "pram"
      <4>1. Place(call) \in Classics /\ Clock!Classic(Place(call)) = call.at
        BY <3>2, RoutinesAre, PlaceIs
      <4>2. Clock!ReadRegister(named, r.seconds) = named.pram[call.at]
        BY <1>1, <1>3, <3>2 DEF Clock!ReadRegister
      <4>3. named.pram = r.pram
        BY <1>3 DEF Kept
      <4>4. Place(call) \in Places /\ Clock!ReadXpram(r, Place(call)) = r.pram[call.at]
        BY <4>1, PlacesAre DEF Clock!ReadXpram
      <4>5. Memory(r)[Place(call)] = r.pram[call.at]
        BY <4>4, MemoryIs
      <4> QED BY <3>2, <4>2, <4>3, <4>5 DEF Expected, Contents
    <3> QED BY <1>5, <3>1, <3>2, RoutinesAre
  <2>3. Expected(Contents(r), call) \in Int
    BY <1>5, ExpectedIs DEF Byte
  <2>4. Answering(named, s, Expected(Contents(r), call))
    BY <1>3, <2>1, <2>2, <2>3, AnswerIs
  <2>5. Answering(r, s, Expected(Contents(r), call))
    BY <1>3, <2>4 DEF Answering, Kept
  <2> QED BY <2>5, <1>5 DEF s
<1> QED BY <1>1, <1>4, <1>5

\* The address of an extended command has come in.
LEMMA AddressTaken ==
  ASSUME PortBAssumption, NEW call \in Routines, NEW r, IsChip(r), ~r.sending,
         Stage(r, call, 1), call.on = "extended"
  PROVE  LET s == Clock!ByteIn(r, BytesSent(call)[2], r.seconds)
         IN  /\ ~call.read =>
                  /\ IsChip(s) /\ Kept(r, s) /\ s.enabled = r.enabled /\ s.clock = r.clock
                  /\ ~s.sending /\ s.shiftIn = r.shiftIn /\ s.bitCount = r.bitCount
                  /\ Stage(s, call, 2)
             /\ call.read => Answering(r, s, Expected(Contents(r), call))
<1> DEFINE first == BytesSent(call)[1]
           value == BytesSent(call)[2]
           s == Clock!ByteIn(r, value, r.seconds)
           address == (r.command % 8) * 32 + ((value \div 4) % 32)
<1>1. /\ first \in Byte /\ value \in Byte /\ call.read \in BOOLEAN
      /\ Clock!Bit(first, 7) = call.read
      /\ (first % 8) * 32 + ((value \div 4) % 32) = call.at
  <2>1. Aims(call, BytesSent(call))
    BY BytesSentAre
  <2>2. 0 \in 0..(Outgoing(call) - 1) /\ 1 \in 0..(Outgoing(call) - 1)
    BY CountsAre
  <2>3. BytesSent(call)[0 + 1] \in Byte /\ BytesSent(call)[1 + 1] \in Byte
    BY <2>2, CountsAre
  <2> QED BY <2>1, <2>3, CountsAre DEF Aims
<1>2. /\ r.hasCommand /\ r.extendedStage = "address" /\ r.command = first
  BY DEF Stage
<1>3. address = call.at /\ value \in Int /\ call.at \in Places
  <2>1. call.at \in Places
    BY RoutinesAre
  <2>2. address = (first % 8) * 32 + ((value \div 4) % 32)
    BY <1>2
  <2> QED BY <1>1, <2>1, <2>2 DEF Byte
<1>4. Clock!ReadXpram(r, call.at) = Expected(Contents(r), call)
  <2>1. Place(call) = call.at
    BY DEF Place
  <2>2. Expected(Contents(r), call) = Memory(r)[call.at]
    BY <2>1 DEF Expected, Contents
  <2> QED BY <1>3, <2>2, MemoryIs
<1>5. /\ Clock!Bit(r.command, 7) /\ Clock!ReadXpram(r, address) \in Int =>
           Answering(r, s, Clock!ReadXpram(r, address))
      /\ ~Clock!Bit(r.command, 7) =>
           /\ IsChip(s) /\ Kept(r, s) /\ s.enabled = r.enabled /\ s.clock = r.clock
           /\ s.sending = r.sending /\ s.shiftIn = r.shiftIn /\ s.bitCount = r.bitCount
           /\ s.command = r.command /\ s.hasCommand = r.hasCommand
           /\ s.extendedStage = "data" /\ s.extendedAddress = address
  BY <1>2, <1>3, AddressIn
<1> HIDE DEF s
<1>6. CASE ~call.read
  <2>1. /\ IsChip(s) /\ Kept(r, s) /\ s.enabled = r.enabled /\ s.clock = r.clock
        /\ ~s.sending /\ s.shiftIn = r.shiftIn /\ s.bitCount = r.bitCount
        /\ s.command = first /\ s.hasCommand
        /\ s.extendedStage = "data" /\ s.extendedAddress = call.at
    BY <1>1, <1>2, <1>3, <1>5, <1>6
  <2>2. Stage(s, call, 2)
    BY <2>1 DEF Stage
  <2> QED BY <2>1, <2>2, <1>6 DEF s
<1>7. CASE call.read
  <2>1. Clock!ReadXpram(r, address) \in Int
    BY <1>3, <1>4, <1>7, ExpectedIs DEF Byte
  <2> QED BY <1>1, <1>2, <1>3, <1>4, <1>5, <1>7, <2>1 DEF s
<1> QED BY <1>1, <1>6, <1>7

\* The value of a register, or of a place, has come in.
LEMMA ValueTaken ==
  ASSUME PortBAssumption, NEW call \in Routines, NEW r, IsChip(r),
         ~call.read, Stage(r, call, Outgoing(call) - 1)
  PROVE  Wrote(r, Clock!ByteIn(r, BytesSent(call)[Outgoing(call)], r.seconds),
               Meaning(Contents(r), call))
<1> DEFINE value == call.value
           s == Clock!ByteIn(r, value, r.seconds)
           c == Contents(r)
<1>1. BytesSent(call)[Outgoing(call)] = value /\ value \in Byte
  BY BytesSentAre, CountsAre
<1>2. c.protected = r.writeProtected
  BY DEF Contents
<1> SUFFICES Wrote(r, s, Meaning(c, call))
  BY <1>1
<1>3. CASE call.on = "extended"
  <2>1. r.hasCommand /\ r.extendedStage = "data" /\ r.extendedAddress = call.at
    BY <1>3, CountsAre DEF Stage
  <2>2. call.at \in Places /\ Place(call) = call.at
    BY <1>3, RoutinesAre DEF Place
  <2>3. Wrote(r, s, IF r.writeProtected THEN c ELSE [c EXCEPT !.memory[call.at] = call.value])
    BY <1>1, <2>1, <2>2, DataIn
  <2> HIDE DEF s, c
  <2>4. Meaning(c, call) = IF r.writeProtected THEN c ELSE [c EXCEPT !.memory[call.at] = call.value]
    BY <1>2, <1>3, <2>2 DEF Meaning
  <2> QED BY <2>3, <2>4
<1>4. CASE call.on # "extended"
  <2>1. r.hasCommand /\ r.extendedStage = "idle" /\ r.command = BytesSent(call)[1]
    BY <1>4, CountsAre DEF Stage
  <2>2. Aims(call, BytesSent(call))
    BY BytesSentAre
  <2> DEFINE target == Clock!DecodeCommand(r.command)
  <2>3. /\ target = <<"protect", 0>> =>
             Wrote(r, s, [c EXCEPT !.protected = value >= 128])
        /\ \A at \in 0..(CounterBytes - 1) : target = <<"seconds", at>> =>
             Wrote(r, s, IF r.writeProtected THEN c
                         ELSE [c EXCEPT
                                 !.seconds = @ + (value - Clock!ByteOf(@, at)) * 256^at])
        /\ \A place \in Classics : target = <<"pram", Clock!Classic(place)>> =>
             Wrote(r, s, IF r.writeProtected THEN c ELSE [c EXCEPT !.memory[place] = value])
    BY <1>1, <2>1, RegisterIn
  <2>4. CASE call.on = "protect"
    <3>1. target = <<"protect", 0>>
      BY <2>1, <2>2, <2>4 DEF Aims
    <3>2. Wrote(r, s, [c EXCEPT !.protected = value >= 128])
      BY <2>3, <3>1
    <3> HIDE DEF s, c
    <3>3. Meaning(c, call) = [c EXCEPT !.protected = value >= 128]
      BY <1>1, <2>4 DEF Meaning
    <3> QED BY <3>2, <3>3
  <2>5. CASE call.on = "seconds"
    <3>1. call.at \in 0..(CounterBytes - 1) /\ CounterBytes \in 1..4
      <4>1. CounterBytes \in 1..4
        BY DEF PortBAssumption
      <4>2. call.at \in 0..(CounterBytes - 1)
        BY <2>5, RoutinesAre
      <4> QED BY <4>1, <4>2
    <3>2. call.at % 4 = call.at
      BY <3>1
    <3>3. target = <<"seconds", call.at>>
      BY <2>1, <2>2, <2>5, <3>2 DEF Aims
    <3>4. Wrote(r, s, IF r.writeProtected THEN c
                      ELSE [c EXCEPT !.seconds =
                              @ + (value - Clock!ByteOf(@, call.at)) * 256^call.at])
      BY <2>3, <3>1, <3>3
    <3> HIDE DEF s, c
    <3> DEFINE new == c.seconds + (value - Clock!ByteOf(c.seconds, call.at)) * 256^call.at
    <3>6. Wrote(r, s, IF r.writeProtected THEN c ELSE [c EXCEPT !.seconds = new])
      BY <3>4
    <3>5. Meaning(c, call) =
            IF r.writeProtected THEN c
            ELSE [c EXCEPT !.seconds = new]
      BY <1>2, <2>5 DEF Meaning
    <3> QED BY <3>5, <3>6
  <2>6. CASE call.on = "pram"
    <3>1. Place(call) \in Classics /\ Clock!Classic(Place(call)) = call.at
      BY <2>6, RoutinesAre, PlaceIs
    <3>2. target = <<"pram", call.at>>
      BY <2>1, <2>2, <2>6 DEF Aims
    <3>3. Wrote(r, s, IF r.writeProtected THEN c ELSE [c EXCEPT !.memory[Place(call)] = value])
      BY <2>3, <3>1, <3>2
    <3> HIDE DEF s, c
    <3>4. Meaning(c, call) =
            IF r.writeProtected THEN c ELSE [c EXCEPT !.memory[Place(call)] = value]
      BY <1>1, <1>2, <2>6 DEF Meaning
    <3> QED BY <3>3, <3>4
  <2> QED BY <1>4, <2>4, <2>5, <2>6, RoutinesAre
<1> QED BY <1>3, <1>4

\* The chip after n steps of the clock line on the way in: whole bytes, bits
\* of the next, and the line low between the two steps of a bit.
InByte(n) == n \div 16
InBit(n) == (n % 16) \div 2
Listening(r, call, n) ==
  /\ r.enabled = TRUE /\ ~r.sending
  /\ n % 2 = 0 => r.clock = TRUE
  /\ n % 2 = 1 => r.clock = FALSE
  /\ r.bitCount = InBit(n)
  /\ r.shiftIn = Top(BytesSent(call)[InByte(n) + 1], InBit(n))
  /\ Stage(r, call, InByte(n))

\* Where a step is in its byte and in its bit.
LEMMA Counted ==
  ASSUME NEW n \in Nat
  PROVE  /\ InByte(n) \in Nat /\ InBit(n) \in 0..7
         /\ n % 2 = 0 => /\ InByte(n + 1) = InByte(n) /\ InBit(n + 1) = InBit(n)
                         /\ (n + 1) % 2 = 1 /\ (n % 16) % 2 = 0
         /\ n % 2 = 1 => /\ (n + 1) % 2 = 0 /\ (n % 16) % 2 = 1
                         /\ (n % 16) \div 2 = InBit(n)
         /\ n % 2 = 1 /\ InBit(n) < 7 =>
              InByte(n + 1) = InByte(n) /\ InBit(n + 1) = InBit(n) + 1
         /\ n % 2 = 1 /\ InBit(n) = 7 =>
              InByte(n + 1) = InByte(n) + 1 /\ InBit(n + 1) = 0
         /\ n % 2 \in {0, 1}
<1> DEFINE q == n \div 16
           m == n % 16
<1>1. n = 16 * q + m /\ q \in Nat /\ m \in 0..15
  OBVIOUS
<1>2. InByte(n) = q /\ InBit(n) = m \div 2
  BY DEF InByte, InBit
<1> HIDE DEF q, m
<1>3. n % 2 = m % 2 /\ (n + 1) % 2 = (m + 1) % 2
  BY <1>1
<1>4. CASE m < 15
  <2>1. (n + 1) \div 16 = q /\ (n + 1) % 16 = m + 1
    BY <1>1, <1>4
  <2> QED BY <1>1, <1>2, <1>3, <1>4, <2>1 DEF InByte, InBit, m
<1>5. CASE m = 15
  <2>1. (n + 1) \div 16 = q + 1 /\ (n + 1) % 16 = 0
    BY <1>1, <1>5
  <2> QED BY <1>1, <1>2, <1>3, <1>5, <2>1 DEF InByte, InBit, m
<1> QED BY <1>1, <1>4, <1>5

SendingStep(call, n) == SendBit(BytesSent(call)[InByte(n) + 1], n % 16).lines

LEMMA SendingStepIs ==
  ASSUME NEW call, NEW n \in Nat
  PROVE  LET lines == SendingStep(call, n)
         IN  /\ lines.enabled = TRUE /\ lines.driving = TRUE
             /\ n % 2 = 0 => lines.clock = FALSE
             /\ n % 2 = 1 => lines.clock = TRUE
             /\ lines.data = Clock!Bit(BytesSent(call)[InByte(n) + 1], 7 - InBit(n))
             /\ lines.data \in BOOLEAN
<1>1. PICK high \in BOOLEAN : high = ((n % 16) % 2 = 1)
  OBVIOUS
<1>2. PICK bit \in BOOLEAN : bit = Clock!Bit(BytesSent(call)[InByte(n) + 1], 7 - (n % 16) \div 2)
  BY BitType
<1>3. SendingStep(call, n) = Pins(TRUE, high, bit, TRUE)
  BY <1>1, <1>2 DEF SendingStep, SendBit, Set
<1>4. /\ n % 2 = 0 => high = FALSE
      /\ n % 2 = 1 => high = TRUE
  <2>1. n % 2 = 0 => ~((n % 16) % 2 = 1)
    BY Counted
  <2>2. n % 2 = 1 => (n % 16) % 2 = 1
    BY Counted
  <2> QED BY <1>1, <2>1, <2>2
<1>5. bit = Clock!Bit(BytesSent(call)[InByte(n) + 1], 7 - InBit(n))
  BY <1>2 DEF InBit
<1> QED BY <1>3, <1>4, <1>5 DEF Pins

\* The clock line falls and rises on a bit of the processor.
LEMMA LineFalls ==
  ASSUME PortBAssumption, NEW call \in Routines, NEW n \in Nat, n % 2 = 0,
         NEW r, IsChip(r), Listening(r, call, n)
  PROVE  LET s == Clock!SetLines(r, SendingStep(call, n), r.seconds)
         IN  IsChip(s) /\ Kept(r, s) /\ Listening(s, call, n + 1)
<1> DEFINE lines == SendingStep(call, n)
           on == [r EXCEPT !.enabled = TRUE, !.clock = FALSE]
<1>1. /\ InByte(n + 1) = InByte(n) /\ InBit(n + 1) = InBit(n)
      /\ (n + 1) % 2 = 1 /\ (n % 16) % 2 = 0
  BY Counted
<1>2. lines.enabled = TRUE /\ lines.clock = FALSE
  BY SendingStepIs
<1>3. r.enabled = TRUE /\ ~r.sending
  BY DEF Listening
<1> HIDE DEF lines
<1>4. Clock!SetLines(r, lines, r.seconds) = [r EXCEPT !.enabled = TRUE, !.clock = lines.clock]
  BY <1>2, <1>3, Quiet
<1>5. Clock!SetLines(r, lines, r.seconds) = on
  BY <1>2, <1>4
<1>6. /\ IsChip(on) /\ Kept(r, on) /\ on.enabled /\ on.clock = FALSE
      /\ on.shiftIn = r.shiftIn /\ on.bitCount = r.bitCount
      /\ on.command = r.command /\ on.hasCommand = r.hasCommand
      /\ on.sending = r.sending
      /\ on.extendedStage = r.extendedStage /\ on.extendedAddress = r.extendedAddress
  BY <1>3, OnlyClock
<1> HIDE DEF on
<1>7. Listening(on, call, n + 1)
  <2>1. on.enabled = TRUE
    BY <1>6 DEF IsChip
  <2> QED BY <1>1, <1>3, <1>6, <2>1 DEF Listening, Stage
<1> QED BY <1>5, <1>6, <1>7 DEF lines

LEMMA LineRises ==
  ASSUME PortBAssumption, NEW call \in Routines, NEW n \in 0..(16 * Outgoing(call) - 1),
         n % 2 = 1, NEW r, IsChip(r), Listening(r, call, n)
  PROVE  LET s == Clock!SetLines(r, SendingStep(call, n), r.seconds)
         IN  /\ n + 1 < 16 * Outgoing(call) =>
                  IsChip(s) /\ Kept(r, s) /\ Listening(s, call, n + 1)
             /\ n + 1 = 16 * Outgoing(call) /\ call.read =>
                  /\ IsChip(s) /\ Kept(r, s) /\ s.enabled = TRUE /\ s.clock = TRUE
                  /\ s.sending /\ s.shiftOut = Expected(Contents(r), call) /\ s.bitCount = 0
             /\ n + 1 = 16 * Outgoing(call) /\ ~call.read =>
                  Wrote(r, s, Meaning(Contents(r), call))
<1> DEFINE lines == SendingStep(call, n)
           s == Clock!SetLines(r, lines, r.seconds)
           k == InByte(n)
           byte == BytesSent(call)[k + 1]
           on == [r EXCEPT !.enabled = TRUE, !.clock = TRUE]
           value == 2 * r.shiftIn + (IF lines.data THEN 1 ELSE 0)
<1> SUFFICES /\ n + 1 < 16 * Outgoing(call) =>
                   IsChip(s) /\ Kept(r, s) /\ Listening(s, call, n + 1)
             /\ n + 1 = 16 * Outgoing(call) /\ call.read =>
                   /\ IsChip(s) /\ Kept(r, s) /\ s.enabled = TRUE /\ s.clock = TRUE
                   /\ s.sending /\ s.shiftOut = Expected(Contents(r), call) /\ s.bitCount = 0
             /\ n + 1 = 16 * Outgoing(call) /\ ~call.read =>
                   Wrote(r, s, Meaning(Contents(r), call))
  OBVIOUS
<1>1. Outgoing(call) \in 1..3 /\ call.read \in BOOLEAN /\ n \in Nat
  BY CountsAre
<1>2. k \in 0..(Outgoing(call) - 1) /\ n = 16 * k + (n % 16) /\ n % 16 \in 0..15
  BY <1>1 DEF InByte
<1>3. byte \in Byte
  BY <1>2, CountsAre
<1>4. /\ InBit(n) \in 0..7 /\ (n + 1) % 2 = 0 /\ (n % 16) % 2 = 1
      /\ InBit(n) < 7 => InByte(n + 1) = k /\ InBit(n + 1) = InBit(n) + 1
      /\ InBit(n) = 7 => InByte(n + 1) = k + 1 /\ InBit(n + 1) = 0
  BY <1>1, Counted
<1>5. /\ lines.enabled = TRUE /\ lines.driving = TRUE /\ lines.clock = TRUE
      /\ lines.data = Clock!Bit(byte, 7 - InBit(n)) /\ lines.data \in BOOLEAN
  BY <1>1, <1>4, SendingStepIs
<1>6. /\ r.enabled = TRUE /\ ~r.sending /\ r.clock = FALSE /\ r.bitCount = InBit(n)
      /\ r.shiftIn = Top(byte, InBit(n)) /\ Stage(r, call, k)
  BY DEF Listening
<1>7. value = Top(byte, InBit(n) + 1)
  BY <1>3, <1>4, <1>5, <1>6, TopGrows DEF BitValue
<1>8. value \in Int
  BY <1>5 DEF IsChip
<1> HIDE DEF lines, byte
<1>12. on = [r EXCEPT !.enabled = TRUE, !.clock = TRUE]
      /\ (lines.data => value = 2 * r.shiftIn + 1)
      /\ (~lines.data => value = 2 * r.shiftIn)
      /\ s = Clock!SetLines(r, lines, r.seconds)
  BY DEF IsChip
<1> HIDE DEF on, s, value, k
<1>9. /\ r.bitCount < 7 => ShiftedTo(on, value, r.bitCount + 1, s)
      /\ r.bitCount >= 7 =>
           \E t : ShiftedTo(on, 0, 0, t) /\ s = Clock!ByteIn(t, value, r.seconds)
  <2>1. /\ IsChip(r) /\ lines.enabled /\ lines.clock = TRUE /\ lines.driving
        /\ lines.data \in BOOLEAN /\ r.enabled = TRUE /\ r.clock = FALSE /\ ~r.sending
    BY <1>5, <1>6
  <2>2. Rises(r, lines, r.seconds, on, value, s)
    BY ONLY <2>1, <1>12 DEF Rises
  <2> QED BY ONLY <2>2, BitIn
<1>10. CASE InBit(n) < 7
  <2> DEFINE count == r.bitCount + 1
             t == [on EXCEPT !.shiftIn = value, !.bitCount = count]
  <2>1. s = t /\ count \in Int
    BY <1>4, <1>6, <1>9, <1>10 DEF ShiftedTo
  <2> HIDE DEF count
  <2>2. /\ IsChip(t) /\ Kept(r, t) /\ t.enabled /\ t.clock = TRUE
        /\ t.shiftIn = value /\ t.bitCount = count
        /\ t.command = r.command /\ t.hasCommand = r.hasCommand
        /\ t.sending = r.sending
        /\ t.extendedStage = r.extendedStage /\ t.extendedAddress = r.extendedAddress
    BY <1>8, <2>1 DEF on, IsChip, Names, Kept
  <2> HIDE DEF t
  <2>3. Stage(t, call, k)
    BY <1>6, <2>2 DEF Stage
  <2>4. t.enabled = TRUE
    BY <2>2 DEF IsChip
  <2>5. t.bitCount = InBit(n + 1) /\ InByte(n + 1) = k
    BY <1>4, <1>6, <1>10, <2>2 DEF count
  <2>6. t.shiftIn = Top(BytesSent(call)[InByte(n + 1) + 1], InBit(n + 1))
    BY <1>4, <1>7, <1>10, <2>2, <2>5 DEF byte
  <2>7. Listening(t, call, n + 1)
    BY <1>4, <1>6, <2>2, <2>3, <2>4, <2>5, <2>6 DEF Listening
  <2>8. n + 1 # 16 * Outgoing(call)
    <3>1. n % 16 # 15
      BY <1>10 DEF InBit
    <3> QED BY <3>1, <1>1, <1>2
  <2>9. n + 1 < 16 * Outgoing(call)
    BY <1>1, <2>8
  <2> QED BY <2>1, <2>2, <2>7, <2>8, <2>9
<1>11. CASE InBit(n) = 7
  <2> DEFINE t == [on EXCEPT !.shiftIn = 0, !.bitCount = 0]
  <2>1. s = Clock!ByteIn(t, byte, r.seconds)
    <3>1. value = byte
      BY <1>3, <1>7, <1>11, TopEnds
    <3> QED BY <3>1, <1>6, <1>9, <1>11 DEF ShiftedTo
  <2>2. /\ IsChip(t) /\ Kept(r, t) /\ t.enabled /\ t.clock = TRUE
        /\ t.shiftIn = 0 /\ t.bitCount = 0
        /\ t.command = r.command /\ t.hasCommand = r.hasCommand
        /\ t.sending = r.sending
        /\ t.extendedStage = r.extendedStage /\ t.extendedAddress = r.extendedAddress
    BY DEF on, IsChip, Names, Kept
  <2> HIDE DEF t, on
  <2>3. Stage(t, call, k) /\ ~t.sending /\ t.seconds = r.seconds /\ t.enabled = TRUE
    BY <1>6, <2>2 DEF Stage, Kept, IsChip
  <2>4. Contents(t) = Contents(r) /\ t.saving = r.saving /\ Memory(t) = Memory(r)
    BY <2>2, KeptContents
  <2>5. n + 1 = 16 * (k + 1)
    <3>1. n % 16 = 15
      BY <1>2, <1>4, <1>11 DEF InBit
    <3> QED BY <3>1, <1>2
  <2>6. ASSUME k + 1 < Outgoing(call)
        PROVE  IsChip(s) /\ Kept(r, s) /\ Listening(s, call, n + 1)
    <3>1. /\ IsChip(s) /\ Kept(t, s) /\ s.enabled = t.enabled /\ s.clock = t.clock
          /\ ~s.sending /\ s.shiftIn = t.shiftIn /\ s.bitCount = t.bitCount
          /\ Stage(s, call, k + 1)
      <4>1. CASE k = 0
        <5>1. call.on = "extended" \/ ~call.read
          BY <2>6, <4>1, CountsAre
        <5>2. s = Clock!ByteIn(t, BytesSent(call)[1], t.seconds) /\ k + 1 = 1
          BY <2>1, <2>3, <4>1 DEF byte
        <5>3. Stage(t, call, 0)
          BY <2>3, <4>1
        <5> QED BY ONLY PortBAssumption, call \in Routines, <5>1, <5>2, <5>3, <2>2, <2>3, CommandTaken
      <4>2. CASE k = 1
        <5>1. call.on = "extended" /\ ~call.read
          BY <2>6, <4>2, CountsAre
        <5>2. s = Clock!ByteIn(t, BytesSent(call)[2], t.seconds) /\ k + 1 = 2
          BY <2>1, <2>3, <4>2 DEF byte
        <5>3. Stage(t, call, 1)
          BY <2>3, <4>2
        <5> QED BY ONLY PortBAssumption, call \in Routines, <5>1, <5>2, <5>3, <2>2, <2>3, AddressTaken
      <4> QED BY <1>1, <1>2, <2>6, <4>1, <4>2
    <3>2. s.enabled = TRUE /\ s.clock = TRUE
      BY <2>2, <2>3, <3>1
    <3>3. BytesSent(call)[InByte(n + 1) + 1] \in Byte
      <4>1. k + 1 \in 0..(Outgoing(call) - 1)
        BY <1>1, <1>2, <2>6
      <4> QED BY <4>1, <1>4, <1>11, CountsAre
    <3>4. s.shiftIn = Top(BytesSent(call)[InByte(n + 1) + 1], InBit(n + 1))
      BY <1>4, <1>11, <2>2, <3>1, <3>3, TopEnds
    <3>5. s.bitCount = InBit(n + 1) /\ Stage(s, call, InByte(n + 1))
      BY <1>4, <1>11, <2>2, <3>1
    <3>6. Listening(s, call, n + 1)
      BY <1>4, <3>1, <3>2, <3>4, <3>5 DEF Listening
    <3> QED BY <2>2, <3>1, <3>6 DEF Kept
  <2>7. ASSUME k + 1 = Outgoing(call), call.read
        PROVE  /\ IsChip(s) /\ Kept(r, s) /\ s.enabled = TRUE /\ s.clock = TRUE
               /\ s.sending /\ s.shiftOut = Expected(Contents(r), call) /\ s.bitCount = 0
    <3>1. Answering(t, s, Expected(Contents(t), call))
      <4>1. CASE k = 0
        <5>1. call.on # "extended"
          BY <2>7, <4>1, CountsAre
        <5> QED BY <4>1, <5>1, <2>1, <2>2, <2>3, <2>7, CommandTaken DEF byte
      <4>2. CASE k = 1
        <5>1. call.on = "extended"
          BY <2>7, <4>2, CountsAre
        <5> QED BY <4>2, <5>1, <2>1, <2>2, <2>3, <2>7, AddressTaken DEF byte
      <4>3. k \in 0..1
        BY <1>2, <2>7, CountsAre
      <4> QED BY <4>1, <4>2, <4>3
    <3> QED BY <3>1, <2>2, <2>3, <2>4 DEF Answering, Kept
  <2>8. ASSUME k + 1 = Outgoing(call), ~call.read
        PROVE  Wrote(r, s, Meaning(Contents(r), call))
    <3>1. k = Outgoing(call) - 1
      BY <1>1, <1>2, <2>8
    <3>2. Wrote(t, Clock!ByteIn(t, BytesSent(call)[Outgoing(call)], t.seconds),
                Meaning(Contents(t), call))
      BY <3>1, <2>2, <2>3, <2>8, ValueTaken
    <3>3. Wrote(t, s, Meaning(Contents(t), call))
      BY <3>2, <2>1, <2>3, <2>8 DEF byte
    <3> QED BY <3>3, <2>4 DEF Wrote
  <2>9. /\ n + 1 < 16 * Outgoing(call) <=> k + 1 < Outgoing(call)
        /\ n + 1 = 16 * Outgoing(call) <=> k + 1 = Outgoing(call)
    BY <1>1, <1>2, <2>5
  <2>10. n + 1 < 16 * Outgoing(call) => IsChip(s) /\ Kept(r, s) /\ Listening(s, call, n + 1)
    BY ONLY <2>6, <2>9
  <2>11. n + 1 = 16 * Outgoing(call) /\ call.read =>
           /\ IsChip(s) /\ Kept(r, s) /\ s.enabled = TRUE /\ s.clock = TRUE
           /\ s.sending /\ s.shiftOut = Expected(Contents(r), call) /\ s.bitCount = 0
    BY ONLY <2>7, <2>9
  <2>12. n + 1 = 16 * Outgoing(call) /\ ~call.read => Wrote(r, s, Meaning(Contents(r), call))
    BY ONLY <2>8, <2>9
  <2> QED BY ONLY <2>10, <2>11, <2>12
<1>13. InBit(n) < 7 \/ InBit(n) = 7
  BY ONLY <1>4
<1> QED BY ONLY <1>10, <1>11, <1>13

\* An answer after n of the steps that fetch it: the bits that have been
\* asked for, and where in the three steps of a bit it is.
Asked(n) == IF n = 0 THEN 0 ELSE (n - 1) \div 3
Part(n) == IF n = 0 THEN 0 ELSE (n - 1) % 3
Speaking(r, got, v, n) ==
  /\ r.enabled = TRUE /\ r.sending
  /\ Part(n) = 0 => /\ r.clock = TRUE /\ r.bitCount = Asked(n)
                    /\ r.shiftOut = Rest(v, Asked(n)) /\ got = Top(v, Asked(n))
  /\ Part(n) # 0 => /\ r.clock = FALSE /\ r.bitCount = Asked(n) + 1
                    /\ r.shiftOut = Rest(v, Asked(n) + 1)
                    /\ r.outBit = Clock!Bit(v, 7 - Asked(n))
  /\ Part(n) = 1 => got = Top(v, Asked(n))
  /\ Part(n) = 2 => got = Top(v, Asked(n) + 1)

LEMMA AskedIs ==
  ASSUME NEW n \in 1..24
  PROVE  /\ Asked(n) \in 0..7 /\ Part(n) \in 0..2
         /\ n % 3 = 1 <=> Part(n) = 0
         /\ n % 3 = 2 <=> Part(n) = 1
         /\ Part(n) = 0 => Part(n + 1) = 1 /\ Asked(n + 1) = Asked(n)
         /\ Part(n) = 1 => Part(n + 1) = 2 /\ Asked(n + 1) = Asked(n)
         /\ Part(n) = 2 => Part(n + 1) = 0 /\ Asked(n + 1) = Asked(n) + 1
<1> DEFINE q == (n - 1) \div 3
           m == (n - 1) % 3
<1>1. n = 3 * q + m + 1 /\ m \in 0..2 /\ q \in 0..7
  OBVIOUS
<1>2. Asked(n) = q /\ Part(n) = m /\ Asked(n + 1) = n \div 3 /\ Part(n + 1) = n % 3
  <2>1. n # 0 /\ n + 1 # 0 /\ n + 1 - 1 = n
    OBVIOUS
  <2> QED BY <2>1 DEF Asked, Part
<1> HIDE DEF q, m
<1>3. /\ m = 0 => n % 3 = 1 /\ n \div 3 = q
      /\ m = 1 => n % 3 = 2 /\ n \div 3 = q
      /\ m = 2 => n % 3 = 0 /\ n \div 3 = q + 1
  BY <1>1
<1> QED BY <1>1, <1>2, <1>3

LEMMA SetIs ==
  ASSUME NEW high \in BOOLEAN
  PROVE  LET step == Set(TRUE, high, TRUE, FALSE)
         IN  /\ step.op = "write" /\ step.lines.enabled = TRUE
             /\ step.lines.clock = high /\ step.lines.driving = FALSE
BY DEF Set, Pins

\* A step of the fetch, by the clock line or by the read of the port.
LEMMA AnswerGoes ==
  ASSUME NEW v \in Byte, NEW n \in 0..24, NEW r, IsChip(r), NEW got, Speaking(r, got, v, n),
         NEW k
  PROVE  LET step == ReceiveByte[n + 1]
             s == Clock!SetLines(r, step.lines, k)
         IN  /\ step.op \in {"write", "read"}
             /\ step.op = "write" => IsChip(s) /\ Kept(r, s) /\ Speaking(s, got, v, n + 1)
             /\ step.op = "read" =>
                  Speaking(r, 2 * got + (IF Clock!DataOut(r) THEN 1 ELSE 0), v, n + 1)
<1> DEFINE step == ReceiveByte[n + 1]
           lines == step.lines
           s == Clock!SetLines(r, lines, k)
           read == 2 * got + (IF Clock!DataOut(r) THEN 1 ELSE 0)
<1> SUFFICES /\ step.op \in {"write", "read"}
             /\ step.op = "write" => IsChip(s) /\ Kept(r, s) /\ Speaking(s, got, v, n + 1)
             /\ step.op = "read" => Speaking(r, read, v, n + 1)
  OBVIOUS
<1>1. r.enabled = TRUE /\ r.sending
  BY DEF Speaking
<1>2. CASE n = 0
  <2>1. step = Set(TRUE, TRUE, TRUE, FALSE)
    <3>1. n + 1 = 1
      BY <1>2
    <3> QED BY ONLY <3>1, ReceiveByteIs
  <2>2. step.op = "write" /\ lines.enabled = TRUE /\ lines.clock = TRUE
    BY <2>1, SetIs
  <2>3. Part(n) = 0 /\ Asked(n) = 0 /\ Part(n + 1) = 0 /\ Asked(n + 1) = 0
    BY <1>2 DEF Part, Asked
  <2>4. r.clock = TRUE
    BY <2>3 DEF Speaking
  <2> HIDE DEF step, lines
  <2>5. s = [r EXCEPT !.enabled = TRUE, !.clock = lines.clock]
    BY <1>1, <2>2, <2>4, Quiet
  <2> DEFINE on == [r EXCEPT !.enabled = TRUE, !.clock = TRUE]
  <2>6. s = on
    BY <2>2, <2>5
  <2>7. /\ IsChip(on) /\ Kept(r, on) /\ on.enabled /\ on.clock = TRUE
        /\ on.bitCount = r.bitCount /\ on.shiftOut = r.shiftOut
        /\ on.sending = r.sending /\ on.outBit = r.outBit
    BY <1>1, OnlyClock
  <2> HIDE DEF on
  <2>8. Speaking(on, got, v, n + 1)
    <3>1. on.enabled = TRUE
      BY <2>7 DEF IsChip
    <3> QED BY <3>1, <1>1, <2>3, <2>7 DEF Speaking
  <2> QED BY <2>2, <2>6, <2>7, <2>8 DEF step
<1>3. CASE n # 0
  <2>1. n \in 1..24
    BY <1>3
  <2>2. step = BitStep(n)
    BY <2>1, ReceiveByteIs
  <2> DEFINE a == Asked(n)
  <2>3. /\ a \in 0..7 /\ Part(n) \in 0..2
        /\ n % 3 = 1 <=> Part(n) = 0
        /\ n % 3 = 2 <=> Part(n) = 1
        /\ Part(n) = 0 => Part(n + 1) = 1 /\ Asked(n + 1) = a
        /\ Part(n) = 1 => Part(n + 1) = 2 /\ Asked(n + 1) = a
        /\ Part(n) = 2 => Part(n + 1) = 0 /\ Asked(n + 1) = a + 1
    BY <2>1, AskedIs
  <2>4. CASE Part(n) = 0
    <3>1. step = Set(TRUE, FALSE, TRUE, FALSE)
      BY <2>2, <2>3, <2>4 DEF BitStep
    <3>2. step.op = "write" /\ lines.enabled = TRUE /\ lines.clock = FALSE
      BY <3>1, SetIs
    <3>3. /\ r.clock = TRUE /\ r.bitCount = a /\ r.shiftOut = Rest(v, a)
          /\ got = Top(v, a)
      BY <2>4 DEF Speaking
    <3> HIDE DEF step, lines, a
    <3>4. r.bitCount < 8
      BY <2>3, <3>3
    <3>5. /\ IsChip(s) /\ Kept(r, s) /\ s.enabled /\ s.clock = FALSE /\ s.sending
          /\ s.outBit = Clock!Bit(r.shiftOut, 7)
          /\ s.shiftOut = (2 * r.shiftOut) % 256 /\ s.bitCount = r.bitCount + 1
      BY <1>1, <3>2, <3>3, <3>4, BitOut
    <3> HIDE DEF s
    <3>6. s.outBit = Clock!Bit(v, 7 - a) /\ s.shiftOut = Rest(v, a + 1)
      BY <2>3, <3>3, <3>5, RestGoes
    <3>7. s.enabled = TRUE
      BY <3>5 DEF IsChip
    <3>8. Speaking(s, got, v, n + 1)
      BY <2>3, <2>4, <3>3, <3>5, <3>6, <3>7 DEF Speaking
    <3> QED BY <3>2, <3>5, <3>8
  <2>5. CASE Part(n) = 1
    <3>1. step = ReadPort
      BY <2>2, <2>3, <2>5 DEF BitStep
    <3>2. step.op = "read"
      BY <3>1 DEF ReadPort
    <3>3. /\ r.clock = FALSE /\ r.bitCount = a + 1 /\ r.shiftOut = Rest(v, a + 1)
          /\ r.outBit = Clock!Bit(v, 7 - a) /\ got = Top(v, a)
      BY <2>5 DEF Speaking
    <3>4. read = 2 * got + BitValue(v, 7 - a)
      BY <1>1, <3>3 DEF Clock!DataOut, BitValue
    <3> HIDE DEF step, read, a
    <3>5. read = Top(v, a + 1)
      BY <2>3, <3>3, <3>4, TopGrows
    <3>6. Speaking(r, read, v, n + 1)
      BY <1>1, <2>3, <2>5, <3>3, <3>5 DEF Speaking
    <3> QED BY <3>2, <3>6
  <2>6. CASE Part(n) = 2
    <3>1. step = Set(TRUE, TRUE, TRUE, FALSE)
      BY <2>2, <2>3, <2>6 DEF BitStep
    <3>2. step.op = "write" /\ lines.enabled = TRUE /\ lines.clock = TRUE
      BY <3>1, SetIs
    <3>3. /\ r.clock = FALSE /\ r.bitCount = a + 1 /\ r.shiftOut = Rest(v, a + 1)
          /\ got = Top(v, a + 1)
      BY <2>6 DEF Speaking
    <3> HIDE DEF step, lines, a
    <3>4. s = [r EXCEPT !.enabled = TRUE, !.clock = lines.clock]
      <4>1. lines.enabled /\ lines.clock \in BOOLEAN /\ r.enabled = TRUE
            /\ (lines.clock /\ r.sending)
        BY <1>1, <3>2
      <4> QED BY ONLY IsChip(r), <4>1, Quiet
    <3> DEFINE on == [r EXCEPT !.enabled = TRUE, !.clock = TRUE]
    <3>5. s = on
      BY <3>2, <3>4
    <3>6. /\ IsChip(on) /\ Kept(r, on) /\ on.enabled /\ on.clock = TRUE
          /\ on.bitCount = r.bitCount /\ on.shiftOut = r.shiftOut
          /\ on.sending = r.sending /\ on.outBit = r.outBit
      BY <1>1, OnlyClock
    <3> HIDE DEF on
    <3>7. on.enabled = TRUE
      BY <3>6 DEF IsChip
    <3>8. Speaking(on, got, v, n + 1)
      BY <1>1, <2>3, <2>6, <3>3, <3>6, <3>7 DEF Speaking
    <3> QED BY <3>2, <3>5, <3>6, <3>8
  <2>7. Part(n) = 0 \/ Part(n) = 1 \/ Part(n) = 2
    BY ONLY <2>3
  <2> QED BY ONLY <2>4, <2>5, <2>6, <2>7
<1> QED BY ONLY <1>2, <1>3

-----------------------------------------------------------------------------
(* A routine under way, after n of its steps.                              *)

During(r, call, n, got, v) ==
  /\ n = 1 => r.enabled = FALSE /\ r.clock = TRUE
  /\ n \in 2..(1 + 16 * Outgoing(call)) => Listening(r, call, n - 2)
  /\ n <= 1 + 16 * Outgoing(call) => got = 0
  /\ call.read /\ n >= 2 + 16 * Outgoing(call) =>
       Speaking(r, got, v, n - (2 + 16 * Outgoing(call)))

Asking(r, got) == 2 * got + (IF Clock!DataOut(r) THEN 1 ELSE 0)

\* What a step does: only the last one of a write changes what is kept.
StepMoves(r, s, call, n, got, v, step) ==
  /\ step.op \in {"write", "read"}
  /\ step.op = "write" =>
       /\ IsChip(s)
       /\ ~call.read /\ n + 2 = Steps(call) => Wrote(r, s, Meaning(Contents(r), call))
       /\ call.read \/ n + 2 # Steps(call) => Kept(r, s)
       /\ n + 1 < Steps(call) => During(s, call, n + 1, got, v)
       /\ n + 1 = Steps(call) /\ call.read => got = v
  /\ step.op = "read" =>
       n + 1 < Steps(call) /\ During(r, call, n + 1, Asking(r, got), v)

LEMMA RoutineStep ==
  ASSUME PortBAssumption, NEW call \in Routines, NEW n \in 0..(Steps(call) - 1),
         NEW r, IsChip(r), NEW got, NEW v,
         call.read => v = Expected(Contents(r), call),
         During(r, call, n, got, v)
  PROVE  LET step == Script(call)[n + 1]
         IN  StepMoves(r, ApplyPortB(r, step.lines), call, n, got, v, step)
<1> DEFINE step == Script(call)[n + 1]
           s == ApplyPortB(r, step.lines)
           sent == 16 * Outgoing(call)
<1> SUFFICES StepMoves(r, s, call, n, got, v, step)
  OBVIOUS
<1>0. /\ Script(call)[1] = Set(FALSE, TRUE, TRUE, TRUE)
      /\ Script(call)[2] = Set(TRUE, TRUE, TRUE, TRUE)
      /\ \A i \in 1..sent :
           Script(call)[2 + i] = SendBit(BytesSent(call)[(i + 15) \div 16], (i - 1) % 16)
      /\ \A i \in 1..Receives(call) : Script(call)[2 + sent + i] = ReceiveByte[i]
      /\ Script(call)[Steps(call)] = Set(FALSE, TRUE, TRUE, TRUE)
  BY ScriptIs
<1>1. /\ Outgoing(call) \in 1..3 /\ sent \in 16..48 /\ call.read \in BOOLEAN
      /\ Steps(call) = 3 + sent + Receives(call) /\ n \in Nat /\ n + 1 <= Steps(call)
      /\ Receives(call) = IF call.read THEN 25 ELSE 0
  <2>1. Outgoing(call) \in 1..3
    BY ScriptIs
  <2>2. call.read \in BOOLEAN
    BY CountsAre
  <2>3. Steps(call) = 3 + sent + Receives(call)
    BY DEF Steps
  <2>4. Receives(call) = IF call.read THEN 25 ELSE 0
    BY DEF Receives
  <2>5. n \in Nat /\ n + 1 <= Steps(call)
    BY <2>1, <2>2, <2>3, <2>4
  <2> QED BY <2>1, <2>2, <2>3, <2>4, <2>5
<1>2. CASE n = 0
  <2>1. step = Set(FALSE, TRUE, TRUE, TRUE)
    <3>1. n + 1 = 1
      BY <1>2
    <3> QED BY <1>0, <3>1
  <2>2. step.op = "write" /\ step.lines.enabled = FALSE /\ step.lines.clock = TRUE
    BY <2>1 DEF Set, Pins
  <2> HIDE DEF step
  <2>3. IsChip(s) /\ Kept(r, s) /\ ~s.enabled /\ s.clock = TRUE
    BY <2>2, Raised DEF ApplyPortB
  <2> HIDE DEF s
  <2>4. s.enabled = FALSE
    BY <2>3 DEF IsChip
  <2>5. During(s, call, n + 1, got, v)
    BY <1>1, <1>2, <2>3, <2>4 DEF During
  <2>6. n + 2 # Steps(call) /\ n + 1 < Steps(call)
    BY <1>1, <1>2
  <2> QED BY <2>2, <2>3, <2>5, <2>6 DEF StepMoves
<1>3. CASE n = 1
  <2>1. step = Set(TRUE, TRUE, TRUE, TRUE)
    <3>1. n + 1 = 2
      BY <1>3
    <3> QED BY <1>0, <3>1
  <2>2. step.op = "write" /\ step.lines.enabled = TRUE /\ step.lines.clock = TRUE
    BY <2>1 DEF Set, Pins
  <2>3. r.enabled = FALSE /\ r.clock = TRUE /\ got = 0
    BY <1>1, <1>3 DEF During
  <2> HIDE DEF step
  <2>4. /\ IsChip(s) /\ Kept(r, s) /\ s.enabled /\ s.clock = TRUE
        /\ ~s.sending /\ ~s.hasCommand /\ s.shiftIn = 0 /\ s.bitCount = 0
        /\ s.extendedStage = "idle"
    <3>1. step.lines.enabled /\ step.lines.clock = TRUE /\ ~r.enabled /\ r.clock = TRUE
      BY <2>2, <2>3
    <3>2. Opens(r, step.lines, r.seconds, s)
      BY <3>1 DEF Opens, ApplyPortB
    <3> QED BY ONLY <3>2, Lowered
  <2> HIDE DEF s
  <2>5. s.enabled = TRUE
    BY <2>4 DEF IsChip
  <2>6. BytesSent(call)[1] \in Byte
    <3>1. 0 \in 0..(Outgoing(call) - 1) /\ 0 + 1 = 1
      BY <1>1
    <3> QED BY <3>1, CountsAre
  <2>7. Listening(s, call, 0)
    <3>1. InByte(0) = 0 /\ InBit(0) = 0 /\ 0 % 2 = 0 /\ 0 % 2 # 1
      BY DEF InByte, InBit
    <3>2. Stage(s, call, 0)
      BY <2>4 DEF Stage
    <3>3. s.shiftIn = Top(BytesSent(call)[0 + 1], 0)
      BY <2>4, <2>6, TopEnds
    <3> QED BY <2>4, <2>5, <3>1, <3>2, <3>3 DEF Listening
  <2>8. During(s, call, n + 1, got, v)
    <3>1. n + 1 = 2 /\ 2 - 2 = 0
      BY <1>3
    <3> QED BY <1>1, <2>3, <2>7, <3>1 DEF During
  <2>9. n + 2 # Steps(call) /\ n + 1 < Steps(call)
    BY <1>1, <1>3
  <2> QED BY <2>2, <2>4, <2>8, <2>9 DEF StepMoves
<1>4. CASE n \in 2..(1 + sent)
  <2> DEFINE k == n - 2
  <2>1. k \in 0..(sent - 1) /\ k \in Nat /\ n + 1 = 2 + (k + 1) /\ k + 1 \in 1..sent
    BY <1>1, <1>4
  <2>2. step = SendBit(BytesSent(call)[(k + 1 + 15) \div 16], (k + 1 - 1) % 16)
    <3> DEFINE i == k + 1
    <3>1. i \in 1..sent /\ n + 1 = 2 + i
      BY <2>1
    <3> HIDE DEF i
    <3>2. Script(call)[2 + i] = SendBit(BytesSent(call)[(i + 15) \div 16], (i - 1) % 16)
      BY ONLY <1>0, <3>1
    <3> QED BY <3>1, <3>2 DEF i
  <2>3. (k + 1 + 15) \div 16 = InByte(k) + 1 /\ (k + 1 - 1) % 16 = k % 16
    <3>1. (k + 1 + 15) \div 16 = k \div 16 + 1
      BY <2>1
    <3> QED BY <2>1, <3>1 DEF InByte
  <2>4. step.op = "write" /\ step.lines = SendingStep(call, k)
    <3>1. step = SendBit(BytesSent(call)[InByte(k) + 1], k % 16)
      BY <2>2, <2>3
    <3> QED BY <3>1 DEF SendingStep, SendBit, Set
  <2>5. Listening(r, call, k) /\ got = 0
    BY <1>1, <1>4 DEF During
  <2>6. s = Clock!SetLines(r, SendingStep(call, k), r.seconds)
    BY <2>4 DEF ApplyPortB
  <2> HIDE DEF step, s
  <2>7. CASE k % 2 = 0
    <3>1. IsChip(s) /\ Kept(r, s) /\ Listening(s, call, k + 1)
      BY <2>1, <2>5, <2>6, <2>7, LineFalls
    <3>2. k + 1 < sent
      <4>1. sent % 2 = 0
        BY <1>1
      <4> QED BY <1>1, <2>1, <2>7, <4>1
    <3>3. n + 1 \in 2..(1 + sent) /\ (n + 1) - 2 = k + 1 /\ n + 2 # Steps(call)
          /\ n + 1 < Steps(call)
      BY <1>1, <2>1, <3>2
    <3>4. During(s, call, n + 1, got, v)
      BY <1>1, <2>5, <3>1, <3>3 DEF During
    <3> QED BY <2>4, <3>1, <3>3, <3>4 DEF StepMoves
  <2>8. CASE k % 2 = 1
    <3>1. /\ k + 1 < sent => IsChip(s) /\ Kept(r, s) /\ Listening(s, call, k + 1)
          /\ k + 1 = sent /\ call.read =>
               /\ IsChip(s) /\ Kept(r, s) /\ s.enabled = TRUE /\ s.clock = TRUE
               /\ s.sending /\ s.shiftOut = Expected(Contents(r), call) /\ s.bitCount = 0
          /\ k + 1 = sent /\ ~call.read => Wrote(r, s, Meaning(Contents(r), call))
      <4> HIDE DEF k
      <4>1. k \in 0..(16 * Outgoing(call) - 1)
        BY <2>1
      <4> DEFINE t == Clock!SetLines(r, SendingStep(call, k), r.seconds)
      <4>2. /\ k + 1 < 16 * Outgoing(call) => IsChip(t) /\ Kept(r, t) /\ Listening(t, call, k + 1)
            /\ k + 1 = 16 * Outgoing(call) /\ call.read =>
                 /\ IsChip(t) /\ Kept(r, t) /\ t.enabled = TRUE /\ t.clock = TRUE
                 /\ t.sending /\ t.shiftOut = Expected(Contents(r), call) /\ t.bitCount = 0
            /\ k + 1 = 16 * Outgoing(call) /\ ~call.read => Wrote(r, t, Meaning(Contents(r), call))
        BY ONLY PortBAssumption, call \in Routines, IsChip(r), <2>5, <2>8, <4>1, LineRises
      <4> QED BY ONLY <2>6, <4>2
    <3>2. CASE k + 1 < sent
      <4>1. n + 1 \in 2..(1 + sent) /\ (n + 1) - 2 = k + 1 /\ n + 2 # Steps(call)
            /\ n + 1 < Steps(call)
        BY <1>1, <2>1, <3>2
      <4>2. During(s, call, n + 1, got, v)
        BY <1>1, <2>5, <3>1, <3>2, <4>1 DEF During
      <4> QED BY <2>4, <3>1, <3>2, <4>1, <4>2 DEF StepMoves
    <3>3. CASE k + 1 = sent /\ call.read
      <4>1. n + 1 = 2 + sent /\ n + 1 < Steps(call) /\ (n + 1) - (2 + sent) = 0
        BY <1>1, <2>1, <3>3
      <4>2. v \in Byte /\ v = Expected(Contents(r), call)
        BY <3>3, ExpectedIs
      <4>3. Speaking(s, got, v, 0)
        <5>1. Asked(0) = 0 /\ Part(0) = 0
          BY DEF Asked, Part
        <5>2. Rest(v, 0) = v /\ Top(v, 0) = 0
          BY <4>2, RestStarts, TopEnds
        <5> QED BY <2>5, <3>1, <3>3, <4>2, <5>1, <5>2 DEF Speaking
      <4>4. During(s, call, n + 1, got, v)
        BY <1>1, <4>1, <4>3 DEF During
      <4> QED BY <2>4, <3>1, <3>3, <4>1, <4>4 DEF StepMoves
    <3>4. CASE k + 1 = sent /\ ~call.read
      <4>1. n + 1 = 2 + sent /\ n + 2 = Steps(call) /\ n + 1 < Steps(call)
        BY <1>1, <2>1, <3>4
      <4>2. IsChip(s)
        BY <3>1, <3>4 DEF Wrote
      <4>3. During(s, call, n + 1, got, v)
        BY <1>1, <3>4, <4>1 DEF During
      <4> QED BY <2>4, <3>1, <3>4, <4>1, <4>2, <4>3 DEF StepMoves
    <3> QED BY <1>1, <2>1, <3>2, <3>3, <3>4
  <2>9. k % 2 = 0 \/ k % 2 = 1
    BY <2>1
  <2> QED BY ONLY <2>7, <2>8, <2>9
<1>5. CASE call.read /\ n \in (2 + sent)..(26 + sent)
  <2> DEFINE k == n - (2 + sent)
  <2>1. k \in 0..24 /\ n + 1 = 2 + sent + (k + 1) /\ k + 1 \in 1..Receives(call)
        /\ n + 1 < Steps(call) /\ (n + 1) - (2 + sent) = k + 1
    BY <1>1, <1>5
  <2>2. step = ReceiveByte[k + 1]
    <3> DEFINE i == k + 1
    <3>1. i \in 1..Receives(call) /\ n + 1 = 2 + sent + i
      BY <2>1
    <3> HIDE DEF i
    <3>2. Script(call)[2 + sent + i] = ReceiveByte[i]
      BY ONLY <1>0, <3>1
    <3> QED BY <3>1, <3>2 DEF i
  <2>3. Speaking(r, got, v, k)
    BY <1>1, <1>5 DEF During
  <2>4. v \in Byte
    BY <1>5, ExpectedIs
  <2>5. s = Clock!SetLines(r, ReceiveByte[k + 1].lines, r.seconds)
    BY <2>2 DEF ApplyPortB
  <2> HIDE DEF step, s
  <2> DEFINE chip == Clock!SetLines(r, ReceiveByte[k + 1].lines, r.seconds)
             gained == 2 * got + (IF Clock!DataOut(r) THEN 1 ELSE 0)
  <2>6. /\ ReceiveByte[k + 1].op \in {"write", "read"}
        /\ ReceiveByte[k + 1].op = "write" =>
             IsChip(chip) /\ Kept(r, chip) /\ Speaking(chip, got, v, k + 1)
        /\ ReceiveByte[k + 1].op = "read" => Speaking(r, gained, v, k + 1)
    <3> HIDE DEF k
    <3> QED BY <2>1, <2>3, <2>4, AnswerGoes
  <2> HIDE DEF chip
  <2>7. /\ step.op \in {"write", "read"}
        /\ step.op = "write" => IsChip(s) /\ Kept(r, s) /\ Speaking(s, got, v, k + 1)
        /\ step.op = "read" => Speaking(r, Asking(r, got), v, k + 1)
    BY <2>2, <2>5, <2>6 DEF chip, Asking
  <2>8. step.op = "write" => During(s, call, n + 1, got, v)
    BY <1>1, <1>5, <2>1, <2>7 DEF During
  <2>9. step.op = "read" => During(r, call, n + 1, Asking(r, got), v)
    BY <1>1, <1>5, <2>1, <2>7 DEF During
  <2>10. n + 1 < Steps(call)
    BY <2>1
  <2> QED BY <1>5, <2>7, <2>8, <2>9, <2>10 DEF StepMoves
<1>6. CASE n + 1 = Steps(call)
  <2>1. step = Set(FALSE, TRUE, TRUE, TRUE)
    BY <1>6, ScriptIs
  <2>2. step.op = "write" /\ step.lines.enabled = FALSE /\ step.lines.clock = TRUE
    BY <2>1 DEF Set, Pins
  <2> HIDE DEF step
  <2>3. IsChip(s) /\ Kept(r, s)
    BY <2>2, Raised DEF ApplyPortB
  <2>4. ASSUME call.read PROVE got = v
    <3>1. n = 27 + sent /\ n - (2 + sent) = 25 /\ n >= 2 + sent
      BY <1>1, <1>6, <2>4
    <3>2. Speaking(r, got, v, 25)
      BY <2>4, <3>1 DEF During
    <3>3. Part(25) = 0 /\ Asked(25) = 8
      BY DEF Part, Asked
    <3>4. v \in Byte
      BY <2>4, ExpectedIs
    <3> QED BY <3>2, <3>3, <3>4, TopEnds DEF Speaking
  <2>5. n + 2 # Steps(call) /\ ~(n + 1 < Steps(call))
    BY <1>1, <1>6
  <2> HIDE DEF s
  <2> QED BY <2>2, <2>3, <2>4, <2>5 DEF StepMoves
<1>7. \/ n = 0 \/ n = 1 \/ n \in 2..(1 + sent)
      \/ call.read /\ n \in (2 + sent)..(26 + sent)
      \/ n + 1 = Steps(call)
  BY <1>1
<1> QED BY ONLY <1>2, <1>3, <1>4, <1>5, <1>6, <1>7

-----------------------------------------------------------------------------
(* The invariant of the clock.                                             *)

Images == [pram : [0..19 -> Byte], xpram : [Extended -> Byte]]
FileHolds ==
  /\ file = [off |-> file.off, image |-> file.image] /\ file.off \in BOOLEAN
  /\ \/ file.image = <<>> /\ kept = <<>>
     \/ LET image == file.image[1]
        IN  file.image = <<image>> /\ image \in Images /\ kept = <<Memory(image)>>

RoutineFollows ==
  /\ routine = [call |-> routine.call, step |-> routine.step, got |-> routine.got,
                right |-> TRUE]
  /\ \/ routine.call = <<>>
     \/ LET call == routine.call[1]
        IN  /\ routine.call = <<call>> /\ call \in Calls
            /\ routine.step \in 0..(Steps(call) - 1)
            /\ During(clock, call, routine.step, routine.got, Expected(meant, call))
            /\ time.tries = 0

ClockIInv ==
  /\ IsChip(clock) /\ clock.saving = FALSE
  /\ meant = Contents(clock)
  /\ FileHolds
  /\ RoutineFollows

\* The seconds, and the bytes of them that have been read: those before the
\* tick are of the second it started from, those after it of the next.
Counter == 0..(256^CounterBytes - 1)
After(second) == (second + 1) % 256^CounterBytes
ByteAt(second, n) == Clock!ByteOf(second, CounterBytes - 1 - ((n - 1) % CounterBytes))
ReadSoFar(t) ==
  /\ \A n \in 1..Len(time.bytes) :
       time.bytes[n] = ByteAt(IF n <= t THEN time.from ELSE After(time.from), n)
  /\ ~counts.ticked => t = Len(time.bytes)
  /\ time.tries = 2 => t = 0 /\ counts.ticked
TimeIInv ==
  /\ meant.seconds \in Counter
  /\ "ticked" \in DOMAIN counts /\ counts.ticked \in BOOLEAN
  /\ DOMAIN time = {"bytes", "tries", "from", "answer"}
  /\ time.tries \in 0..2 /\ time.from \in Counter
  /\ time.tries = 0 /\ time.answer # <<>> => time.answer[1] \in {time.from, After(time.from)}
  /\ time.tries > 0 =>
       /\ time.bytes \in Seq(Byte) /\ Len(time.bytes) <= 2 * CounterBytes
       /\ meant.seconds = IF counts.ticked THEN After(time.from) ELSE time.from
       /\ \E t \in 0..Len(time.bytes) : ReadSoFar(t)

-----------------------------------------------------------------------------
(* What is done with one thing of a list after the other.                  *)

\* One step of a fold: of a routine in one go, or of a number from its bytes.
Longer(x, y) == 256 * x + y
OneMore(kind, x, y) == IF kind = "exchange" THEN Exchange(x, y) ELSE Longer(x, y)

LEMMA LeastOf ==
  ASSUME NEW S, S \subseteq Nat, S # {}
  PROVE  \E i \in S : \A j \in S : i <= j
<1> DEFINE R == {pair \in Nat \X Nat : pair[1] < pair[2]}
<1>1. IsWellFoundedOn(R, Nat)
  BY NatLessThanWellFounded DEF OpToRel
<1>2. PICK i \in S : \A j \in S : <<j, i>> \notin R
  <2> HIDE DEF R
  <2> QED BY <1>1, WFMin
<1>3. \A j \in S : ~(j < i)
  BY <1>2
<1> QED BY <1>3

LEMMA LastIsMax ==
  ASSUME NEW k \in Nat \ {0}, NEW s \in SUBSET (1..k), k \in s
  PROVE  Max(s) = k
<1>1. \A x \in s : (\A y \in s : x >= y) <=> x = k
  OBVIOUS
<1> QED BY <1>1 DEF Max

\* The fold over any of the first k places of a list.
Folds(g, kind, x, list, k) ==
  g = [s \in SUBSET (1..k) |->
         IF s = {} THEN x ELSE OneMore(kind, g[s \ {Max(s)}], list[Max(s)])]

LEMMA FoldExists ==
  ASSUME NEW kind, NEW x, NEW list, NEW n \in Nat
  PROVE  \E g : Folds(g, kind, x, list, n)
<1> DEFINE Exist(k) == \E g : Folds(g, kind, x, list, k)
           Bad == {k \in Nat : ~Exist(k)}
<1>1. SUFFICES ASSUME Bad # {} PROVE FALSE
  BY <1>1
<1>2. PICK k \in Bad : \A j \in Bad : k <= j
  <2> HIDE DEF Bad
  <2>1. Bad \subseteq Nat
    BY DEF Bad
  <2> QED BY <1>1, <2>1, LeastOf
<1>3. k # 0
  <2>1. Folds([s \in SUBSET (1..0) |-> x], kind, x, list, 0)
    <3>1. \A s \in SUBSET (1..0) : s = {}
      OBVIOUS
    <3> QED BY <3>1 DEF Folds
  <2> QED BY <2>1
<1>4. k - 1 \in Nat /\ k - 1 \notin Bad
  BY <1>2, <1>3
<1>5. PICK h : Folds(h, kind, x, list, k - 1)
  BY <1>4
<1> DEFINE g == [s \in SUBSET (1..k) |->
                   IF k \in s THEN OneMore(kind, h[s \ {k}], list[k]) ELSE h[s]]
<1>6. ASSUME NEW s \in SUBSET (1..k)
      PROVE  g[s] = IF s = {} THEN x ELSE OneMore(kind, g[s \ {Max(s)}], list[Max(s)])
  <2>1. CASE k \in s
    <3>1. Max(s) = k
      BY <2>1, <1>3, LastIsMax
    <3>2. s \ {k} \in SUBSET (1..k) /\ k \notin s \ {k}
      OBVIOUS
    <3> QED BY <2>1, <3>1, <3>2
  <2>2. CASE k \notin s
    <3>1. s \in SUBSET (1..k-1)
      BY <1>4, <2>2
    <3>2. h[s] = IF s = {} THEN x ELSE OneMore(kind, h[s \ {Max(s)}], list[Max(s)])
      BY <1>5, <3>1 DEF Folds
    <3>3. s \ {Max(s)} \in SUBSET (1..k) /\ k \notin s \ {Max(s)}
      BY <2>2
    <3> QED BY <2>2, <3>2, <3>3
  <2> QED BY <2>1, <2>2
<1>7. Folds(g, kind, x, list, k)
  BY <1>6 DEF Folds
<1> QED BY <1>2, <1>7

\* What a fold gives is the last of a list of states, each the one before it
\* after one more step.
OneByOne(w, kind, x, list, n) ==
  /\ w[0] = x
  /\ \A k \in 1..n : w[k] = OneMore(kind, w[k - 1], list[k])

LEMMA FoldSteps ==
  ASSUME NEW g, NEW kind, NEW x, NEW list, NEW n \in Nat, Folds(g, kind, x, list, n)
  PROVE  \E w : OneByOne(w, kind, x, list, n) /\ w[n] = g[1..n]
<1> DEFINE w == [k \in 0..n |-> g[1..k]]
<1>3. ASSUME NEW s \in SUBSET (1..n)
      PROVE  g[s] = IF s = {} THEN x ELSE OneMore(kind, g[s \ {Max(s)}], list[Max(s)])
  BY DEF Folds
<1>4. w[0] = x
  <2>1. 1..0 = {} /\ {} \in SUBSET (1..n) /\ 0 \in 0..n
    OBVIOUS
  <2>2. g[{}] = x
    BY <1>3, <2>1
  <2> QED BY <2>1, <2>2
<1>5. ASSUME NEW k \in 1..n PROVE w[k] = OneMore(kind, w[k - 1], list[k])
  <2>1. 1..k \in SUBSET (1..n) /\ 1..k # {} /\ k \in Nat \ {0}
    <3>1. k \in 1..k /\ 1..k \subseteq 1..n
      OBVIOUS
    <3> QED BY <3>1
  <2>2. Max(1..k) = k
    BY <2>1, LastIsMax
  <2>3. (1..k) \ {k} = 1..k-1
    OBVIOUS
  <2>4. g[1..k] = OneMore(kind, g[1..k-1], list[k])
    BY <1>3, <2>1, <2>2, <2>3
  <2> QED BY <2>4
<1>6. w[n] = g[1..n]
  OBVIOUS
<1> QED BY <1>4, <1>5, <1>6 DEF OneByOne

\* What holds at first, and after a step if it held before, holds at last.
LEMMA HoldsAtLast ==
  ASSUME NEW n \in Nat, NEW Good \in SUBSET (0..n), 0 \in Good,
         \A k \in 1..n : k - 1 \in Good => k \in Good
  PROVE  n \in Good
<1> DEFINE Bad == (0..n) \ Good
<1>1. SUFFICES ASSUME Bad # {} PROVE FALSE
  BY <1>1
<1>2. PICK k \in Bad : \A j \in Bad : k <= j
  <2>1. Bad \subseteq Nat
    OBVIOUS
  <2> HIDE DEF Bad
  <2> QED BY <1>1, <2>1, LeastOf
<1>3. k \in 1..n /\ k - 1 \in 0..n /\ k - 1 \notin Bad
  BY <1>2
<1> QED BY <1>2, <1>3

\* The two folds of the model are such lists.
LEMMA ExchangedSteps ==
  ASSUME NEW chip, NEW call, NEW n \in Nat, DOMAIN Scripts[call] = 1..n
  PROVE  \E w : /\ w[0] = [chip |-> chip, got |-> 0]
                /\ \A k \in 1..n : w[k] = Exchange(w[k - 1], Scripts[call][k])
                /\ Exchanged(chip, call) = w[n]
<1> DEFINE list == Scripts[call]
           x == [chip |-> chip, got |-> 0]
           IsFold(g) == g = [s \in SUBSET (1..n) |->
              IF s = {} THEN x ELSE Exchange(g[s \ {Max(s)}], list[Max(s)])]
           h == CHOOSE g : IsFold(g)
<1> HIDE DEF list
<1>1. Exchanged(chip, call) = h[1..n]
  BY DEF Exchanged, FoldLeft, MapThenFoldSet, list
<1> HIDE DEF x
<1>2. PICK g : Folds(g, "exchange", x, list, n)
  BY FoldExists
<1>3. \A y, z : OneMore("exchange", y, z) = Exchange(y, z)
  BY DEF OneMore
<1>4. IsFold(g)
  BY <1>2, <1>3 DEF Folds
<1>5. IsFold(h)
  BY <1>4
<1> HIDE DEF h
<1>6. Folds(h, "exchange", x, list, n)
  BY <1>3, <1>5 DEF Folds
<1>7. PICK w : OneByOne(w, "exchange", x, list, n) /\ w[n] = h[1..n]
  BY <1>6, FoldSteps
<1> QED BY <1>1, <1>3, <1>7 DEF OneByOne, list, x

LEMMA NumberSteps ==
  ASSUME NEW bytes, NEW n \in Nat, DOMAIN bytes = 1..n
  PROVE  \E w : /\ w[0] = 0
                /\ \A k \in 1..n : w[k] = 256 * w[k - 1] + bytes[k]
                /\ Number(bytes) = w[n]
<1> DEFINE IsFold(g) == g = [s \in SUBSET (1..n) |->
              IF s = {} THEN 0 ELSE Longer(g[s \ {Max(s)}], bytes[Max(s)])]
           h == CHOOSE g : IsFold(g)
<1>1. Number(bytes) = h[1..n]
  BY DEF Number, FoldLeft, MapThenFoldSet, Longer
<1>2. PICK g : Folds(g, "number", 0, bytes, n)
  BY FoldExists
<1>3. \A y, z : OneMore("number", y, z) = Longer(y, z)
  BY DEF OneMore
<1>4. IsFold(g)
  BY <1>2, <1>3 DEF Folds
<1>5. IsFold(h)
  BY <1>4
<1> HIDE DEF h
<1>6. Folds(h, "number", 0, bytes, n)
  BY <1>3, <1>5 DEF Folds
<1>7. PICK w : OneByOne(w, "number", 0, bytes, n) /\ w[n] = h[1..n]
  BY <1>6, FoldSteps
<1> QED BY <1>1, <1>3, <1>7 DEF OneByOne, Longer

LEMMA ScriptsAre ==
  ASSUME PortBAssumption, NEW call \in Routines
  PROVE  /\ Scripts[call] = Script(call) /\ Len(Scripts[call]) = Steps(call)
         /\ DOMAIN Scripts[call] = 1..Steps(call) /\ Steps(call) \in Nat
<1>1. Scripts[call] = Script(call)
  BY DEF Scripts, Routines
<1>2. Script(call) \in Seq(PortSteps) /\ Len(Script(call)) = Steps(call)
  BY ScriptIs
<1> HIDE DEF PortSteps
<1>3. DOMAIN Script(call) = 1..Len(Script(call)) /\ Len(Script(call)) \in Nat
  BY <1>2
<1> QED BY <1>1, <1>2, <1>3

\* A routine run in one go leaves the chip as it was, and a read one gets
\* what the chip has.
LEMMA ExchangedIs ==
  ASSUME PortBAssumption, NEW call \in Routines, call.read, NEW r, IsChip(r)
  PROVE  LET after == Exchanged(r, call)
         IN  IsChip(after.chip) /\ Kept(r, after.chip) /\ after.got = Expected(Contents(r), call)
<1> DEFINE v == Expected(Contents(r), call)
           n == Steps(call)
<1>1. Scripts[call] = Script(call) /\ DOMAIN Scripts[call] = 1..n /\ n \in Nat
  BY ScriptsAre
<1>2. PICK w : /\ w[0] = [chip |-> r, got |-> 0]
               /\ \A k \in 1..n : w[k] = Exchange(w[k - 1], Scripts[call][k])
               /\ Exchanged(r, call) = w[n]
  BY <1>1, ExchangedSteps
<1>3. n >= 3 /\ Outgoing(call) \in 1..3
  BY ScriptIs, CountsAre DEF Steps, Receives
<1> HIDE DEF n
<1> DEFINE Good(k) == /\ w[k] = [chip |-> w[k].chip, got |-> w[k].got]
                      /\ IsChip(w[k].chip) /\ Kept(r, w[k].chip)
                      /\ k < n => During(w[k].chip, call, k, w[k].got, v)
                      /\ k = n => w[k].got = v
<1>4. Good(0)
  <2>1. w[0].chip = r /\ w[0].got = 0 /\ Kept(r, r)
    BY <1>2 DEF Kept
  <2>2. During(r, call, 0, 0, v)
    BY <1>3 DEF During
  <2> QED BY <1>2, <1>3, <2>1, <2>2
<1>5. ASSUME NEW k \in 1..n, Good(k - 1) PROVE Good(k)
  <2> DEFINE i == k - 1
             chip == w[i].chip
             got == w[i].got
             step == Script(call)[i + 1]
             after == ApplyPortB(chip, step.lines)
  <2>1. i \in 0..(n - 1) /\ i + 1 = k /\ i < n /\ i \in 0..(Steps(call) - 1)
    BY <1>1 DEF n
  <2>2. /\ w[i] = [chip |-> chip, got |-> got] /\ IsChip(chip) /\ Kept(r, chip)
        /\ During(chip, call, i, got, v)
    BY <1>5, <2>1
  <2>3. w[k] = Exchange(w[i], step)
    BY <1>1, <1>2, <2>1
  <2>4. v = Expected(Contents(chip), call)
    BY <2>2, KeptContents
  <2> HIDE DEF chip, got, i, v
  <2>5. StepMoves(chip, after, call, i, got, v, step)
    BY <2>1, <2>2, <2>4, RoutineStep
  <2> HIDE DEF step, after
  <2>6. CASE step.op = "write"
    <3>1. /\ IsChip(after) /\ Kept(chip, after)
          /\ i + 1 < n => During(after, call, i + 1, got, v)
          /\ i + 1 = n => got = v
      BY <2>5, <2>6 DEF StepMoves, n
    <3>2. w[k] = [chip |-> after, got |-> got]
      BY <2>2, <2>3, <2>6 DEF Exchange, after
    <3>3. Kept(r, after)
      BY <2>2, <3>1 DEF Kept
    <3> QED BY <2>1, <3>1, <3>2, <3>3
  <2>7. CASE step.op = "read"
    <3>1. i + 1 < n /\ During(chip, call, i + 1, Asking(chip, got), v)
      BY <2>5, <2>7 DEF StepMoves, n
    <3>2. w[k] = [chip |-> chip, got |-> Asking(chip, got)]
      BY <2>2, <2>3, <2>7 DEF Exchange, Asking
    <3> QED BY <2>1, <2>2, <3>1, <3>2
  <2>8. step.op \in {"write", "read"}
    BY <2>5 DEF StepMoves
  <2> QED BY ONLY <2>6, <2>7, <2>8
<1> DEFINE G == {k \in 0..n : Good(k)}
<1>6. n \in G
  <2> HIDE DEF Good
  <2>1. G \in SUBSET (0..n) /\ 0 \in G
    <3>1. 0 \in 0..n
      BY <1>1
    <3> QED BY <1>4, <3>1
  <2>2. \A k \in 1..n : k - 1 \in G => k \in G
    BY <1>5
  <2> HIDE DEF G
  <2> QED BY ONLY <1>1, <2>1, <2>2, HoldsAtLast
<1> QED BY <1>2, <1>6

\* How many seconds the counter has room for.
LEMMA Moduli ==
  ASSUME PortBAssumption
  PROVE  \/ CounterBytes = 1 /\ 256^CounterBytes = 256
         \/ CounterBytes = 2 /\ 256^CounterBytes = 65536
         \/ CounterBytes = 3 /\ 256^CounterBytes = 16777216
         \/ CounterBytes = 4 /\ 256^CounterBytes = 4294967296
<1> DEFINE power(n) == 256^n
<1>1. power(1) = 256 /\ power(2) = 65536 /\ power(3) = 16777216 /\ power(4) = 4294967296
  OBVIOUS
<1>2. CounterBytes = 1 \/ CounterBytes = 2 \/ CounterBytes = 3 \/ CounterBytes = 4
  BY DEF PortBAssumption
<1>3. SUFFICES \/ CounterBytes = 1 /\ power(CounterBytes) = 256
               \/ CounterBytes = 2 /\ power(CounterBytes) = 65536
               \/ CounterBytes = 3 /\ power(CounterBytes) = 16777216
               \/ CounterBytes = 4 /\ power(CounterBytes) = 4294967296
  OBVIOUS
<1> HIDE DEF power
<1> QED BY ONLY <1>1, <1>2, SMT

\* A second of the machine is none of what a routine under way is about.
LEMMA TickIs ==
  ASSUME PortBAssumption, NEW r, IsChip(r), ~r.saving
  PROVE  LET s == Clock!TickSecond(r)
         IN  /\ IsChip(s) /\ s.saving = FALSE
             /\ Contents(s) = [Contents(r) EXCEPT !.seconds = (@ + 1) % 256^CounterBytes]
             /\ \A call, n, got, v : During(r, call, n, got, v) => During(s, call, n, got, v)
<1> DEFINE new == (r.seconds + 1) % 256^CounterBytes
           s == [r EXCEPT !.seconds = new]
<1>1. Clock!TickSecond(r) = s
  BY DEF Clock!TickSecond, PortBAssumption
<1>2. new \in Int
  <2>1. r.seconds \in Int
    BY DEF IsChip
  <2> QED BY <2>1, Moduli
<1> HIDE DEF new
<1>3. /\ IsChip(s) /\ s.saving = FALSE /\ s.pram = r.pram /\ s.xpram = r.xpram
      /\ s.writeProtected = r.writeProtected /\ s.seconds = new
      /\ s.enabled = r.enabled /\ s.clock = r.clock /\ s.shiftIn = r.shiftIn
      /\ s.bitCount = r.bitCount /\ s.command = r.command /\ s.hasCommand = r.hasCommand
      /\ s.shiftOut = r.shiftOut /\ s.sending = r.sending /\ s.outBit = r.outBit
      /\ s.extendedStage = r.extendedStage /\ s.extendedAddress = r.extendedAddress
  BY <1>2 DEF IsChip, Names
<1> HIDE DEF s
<1>4. Contents(s) = [Contents(r) EXCEPT !.seconds = (@ + 1) % 256^CounterBytes]
  <2>1. Memory(s) = Memory(r)
    BY <1>3, SameMemory
  <2> QED BY <1>3, <2>1 DEF Contents, new
<1>5. ASSUME NEW call, NEW n, NEW got, NEW v, During(r, call, n, got, v)
      PROVE  During(s, call, n, got, v)
  <2>1. \A i : Listening(r, call, i) => Listening(s, call, i)
    BY <1>3 DEF Listening, Stage
  <2>2. \A i : Speaking(r, got, v, i) => Speaking(s, got, v, i)
    BY <1>3 DEF Speaking
  <2> QED BY <1>3, <1>5, <2>1, <2>2 DEF During
<1> QED BY <1>1, <1>3, <1>4, <1>5

-----------------------------------------------------------------------------
(* The chip a program starts with.                                         *)

Base(remembered) == IF remembered = <<>> THEN Memory(Clock!Fresh) ELSE remembered[1]

LEMMA FreshChipIs ==
  /\ IsChip(Clock!Fresh) /\ Clock!Fresh.saving = FALSE
  /\ Clock!Fresh.writeProtected = FALSE
<1>1. Clock!DefaultPram \in [0..19 -> Byte]
  BY DEF Clock!DefaultPram, Byte
<1>2. [a \in Extended |-> 0] \in [Extended -> Byte]
  BY DEF Byte
<1> DEFINE pram == Clock!DefaultPram
           xpram == [a \in Extended |-> 0]
           fresh == [pram |-> pram, xpram |-> xpram,
                     seconds |-> 0, writeProtected |-> FALSE,
                     enabled |-> FALSE, clock |-> FALSE,
                     shiftIn |-> 0, bitCount |-> 0, command |-> 0, hasCommand |-> FALSE,
                     shiftOut |-> 0, sending |-> FALSE, outBit |-> FALSE,
                     extendedStage |-> "idle", extendedAddress |-> 0,
                     saving |-> FALSE]
<1>3. Clock!Fresh = fresh
  BY DEF Clock!Fresh
<1>4. pram \in [0..19 -> Byte] /\ xpram \in [Extended -> Byte]
  BY <1>1, <1>2
<1> HIDE DEF pram, xpram
<1>5. DOMAIN fresh = Names
  BY DEF Names
<1>6. /\ fresh.pram = pram /\ fresh.xpram = xpram
      /\ fresh.seconds = 0 /\ fresh.writeProtected = FALSE
      /\ fresh.enabled = FALSE /\ fresh.clock = FALSE
      /\ fresh.shiftIn = 0 /\ fresh.bitCount = 0 /\ fresh.command = 0
      /\ fresh.hasCommand = FALSE /\ fresh.shiftOut = 0 /\ fresh.sending = FALSE
      /\ fresh.outBit = FALSE /\ fresh.extendedStage = "idle"
      /\ fresh.extendedAddress = 0 /\ fresh.saving = FALSE
  OBVIOUS
<1>8. /\ fresh.seconds \in Int /\ fresh.writeProtected \in BOOLEAN
      /\ fresh.enabled \in BOOLEAN /\ fresh.clock \in BOOLEAN
      /\ fresh.shiftIn \in Int /\ fresh.bitCount \in Int
      /\ fresh.command \in Int /\ fresh.hasCommand \in BOOLEAN
      /\ fresh.shiftOut \in Int /\ fresh.sending \in BOOLEAN /\ fresh.outBit \in BOOLEAN
      /\ fresh.extendedStage \in {"idle", "address", "data"}
      /\ fresh.extendedAddress \in Int /\ fresh.saving \in BOOLEAN
  OBVIOUS
<1> HIDE DEF fresh
<1>7. IsChip(fresh)
  <2>1. fresh.pram \in [0..19 -> Byte] /\ fresh.xpram \in [Extended -> Byte]
    BY ONLY <1>4, <1>6
  <2> QED BY ONLY <1>5, <1>8, <2>1 DEF IsChip
<1> QED BY ONLY <1>3, <1>6, <1>7

LEMMA LoadedIs ==
  ASSUME PortBAssumption, NEW image, NEW remembered,
         \/ image = <<>> /\ remembered = <<>>
         \/ /\ image = <<image[1]>> /\ image[1] \in Images
            /\ remembered = <<Memory(image[1])>>
  PROVE  LET r == Loaded(image)
         IN  /\ IsChip(r) /\ r.saving = FALSE
             /\ Contents(r) = [memory |-> MemoryAtStart(remembered),
                               seconds |-> FirstSecond, protected |-> FALSE]
<1> DEFINE fresh == [Clock!Fresh EXCEPT !.seconds = FirstSecond]
           loaded == IF image = <<>> THEN fresh ELSE Clock!LoadPram(fresh, image[1])
           port == IF AppleTalk THEN 33 ELSE 34
           chosen == Clock!SetAppleTalk(loaded, AppleTalk)
           r == ApplyPortB(chosen, Released)
<1>1. /\ IsChip(fresh) /\ fresh.saving = FALSE /\ fresh.writeProtected = FALSE
      /\ fresh.seconds = FirstSecond
      /\ fresh.pram = Clock!Fresh.pram /\ fresh.xpram = Clock!Fresh.xpram
  <2> DEFINE f == Clock!Fresh
  <2>1. IsChip(f) /\ f.saving = FALSE /\ f.writeProtected = FALSE
    BY FreshChipIs
  <2>2. FirstSecond \in Int
    BY Moduli DEF PortBAssumption
  <2> HIDE DEF f
  <2>3. /\ IsChip([f EXCEPT !.seconds = FirstSecond])
        /\ [f EXCEPT !.seconds = FirstSecond].saving = FALSE
        /\ [f EXCEPT !.seconds = FirstSecond].writeProtected = FALSE
        /\ [f EXCEPT !.seconds = FirstSecond].seconds = FirstSecond
        /\ [f EXCEPT !.seconds = FirstSecond].pram = f.pram
        /\ [f EXCEPT !.seconds = FirstSecond].xpram = f.xpram
    BY <2>1, <2>2 DEF IsChip, Names
  <2> QED BY <2>3 DEF f
<1> HIDE DEF fresh
<1>2. /\ IsChip(loaded) /\ loaded.saving = FALSE /\ loaded.writeProtected = FALSE
      /\ loaded.seconds = FirstSecond /\ Memory(loaded) = Base(remembered)
  <2>1. CASE image = <<>>
    <3>1. Memory(fresh) = Memory(Clock!Fresh)
      BY <1>1, SameMemory
    <3>2. remembered = <<>>
      BY <2>1
    <3> QED BY <1>1, <2>1, <3>1, <3>2 DEF Base
  <2>2. CASE image # <<>>
    <3> DEFINE saved == image[1]
               s == [fresh EXCEPT !.pram = saved.pram, !.xpram = saved.xpram]
    <3>1. saved \in Images /\ remembered = <<Memory(saved)>>
      BY <2>2
    <3>2. loaded = s
      BY <2>2 DEF Clock!LoadPram
    <3>3. saved.pram \in [0..19 -> Byte] /\ saved.xpram \in [Extended -> Byte]
      BY <3>1 DEF Images
    <3> HIDE DEF saved
    <3>4. /\ IsChip(s) /\ s.saving = FALSE /\ s.writeProtected = FALSE
          /\ s.seconds = FirstSecond /\ s.pram = saved.pram /\ s.xpram = saved.xpram
      BY <1>1, <3>3 DEF IsChip, Names
    <3> HIDE DEF s
    <3>5. Memory(s) = Memory(saved)
      BY <3>4, SameMemory
    <3>6. Base(remembered) = Memory(saved)
      BY <3>1 DEF Base
    <3> HIDE DEF loaded
    <3> QED BY <3>2, <3>4, <3>5, <3>6
  <2> QED BY <2>1, <2>2
<1> HIDE DEF loaded
<1>3. /\ IsChip(chosen) /\ chosen.saving = FALSE /\ chosen.writeProtected = FALSE
      /\ chosen.seconds = FirstSecond
      /\ Memory(chosen) = [Base(remembered) EXCEPT ![19] = port]
  <2> DEFINE pram == [loaded.pram EXCEPT ![3] = port]
             s == [loaded EXCEPT !.pram = pram]
  <2>1. chosen = s
    BY DEF Clock!SetAppleTalk
  <2>2. port \in Byte /\ pram \in [0..19 -> Byte]
    <3>1. port \in Byte
      BY DEF Byte
    <3>2. loaded.pram \in [0..19 -> Byte]
      BY <1>2 DEF IsChip
    <3> HIDE DEF port
    <3> QED BY <3>1, <3>2
  <2>3. 19 \in Classics /\ Clock!Classic(19) = 3
    BY DEF Classics, Clock!Classic
  <2> HIDE DEF port
  <2>4. pram = [loaded.pram EXCEPT ![Clock!Classic(19)] = port]
    BY <2>3
  <2> HIDE DEF pram
  <2>5. /\ IsChip(s) /\ s.saving = FALSE /\ s.writeProtected = FALSE
        /\ s.seconds = FirstSecond /\ s.pram = pram /\ s.xpram = loaded.xpram
    BY <1>2, <2>2 DEF IsChip, Names
  <2> HIDE DEF s
  <2>6. Memory(s) = [Memory(loaded) EXCEPT ![19] = port]
    BY <1>2, <2>2, <2>3, <2>4, <2>5, ClassicWritten
  <2> HIDE DEF chosen
  <2> QED BY <2>1, <2>5, <2>6, <1>2
<1> HIDE DEF chosen
<1>4. IsChip(r) /\ Kept(chosen, r)
  BY <1>3, Raised DEF ApplyPortB, Released, Pins
<1>5. MemoryAtStart(remembered) = [Base(remembered) EXCEPT ![19] = port]
  BY DEF MemoryAtStart, Base
<1>6. Loaded(image) = r
  BY DEF Loaded, r, chosen, loaded, fresh
<1>7. Contents(r) = Contents(chosen) /\ r.saving = FALSE
  BY <1>3, <1>4, KeptContents
<1> HIDE DEF r
<1>8. Contents(r) = [memory |-> MemoryAtStart(remembered), seconds |-> FirstSecond,
                     protected |-> FALSE]
  BY <1>3, <1>5, <1>7 DEF Contents
<1> QED BY <1>4, <1>6, <1>7, <1>8

\* A save that is cut at twenty bytes holds bytes.
LEMMA CutImageIs ==
  ASSUME PortBAssumption, NEW chip, IsChip(chip)
  PROVE  Clock!CutImage(chip) \in Images
<1> DEFINE at(place) == IF Clock!IsClassic(place) \/ place \in Extended
                        THEN Clock!ReadXpram(chip, place) ELSE 0
           classic == [place \in 0..19 |-> at(place)]
           fresh == Clock!Fresh.xpram
<1>1. ASSUME NEW place \in 0..19 PROVE at(place) \in Byte
  <2>1. CASE Clock!IsClassic(place)
    <3>1. Clock!Classic(place) \in 0..19
      BY <2>1 DEF Clock!IsClassic, Clock!Classic
    <3>2. at(place) = chip.pram[Clock!Classic(place)]
      BY <2>1 DEF Clock!ReadXpram
    <3> QED BY <3>1, <3>2 DEF IsChip
  <2>2. CASE ~Clock!IsClassic(place) /\ place \in Extended
    <3>1. at(place) = chip.xpram[place]
      BY <2>2 DEF Clock!ReadXpram
    <3> QED BY <2>2, <3>1 DEF IsChip
  <2>3. CASE ~Clock!IsClassic(place) /\ place \notin Extended
    <3>1. at(place) = 0
      BY <2>3
    <3> HIDE DEF at
    <3> QED BY <3>1 DEF Byte
  <2> QED BY <2>1, <2>2, <2>3
<1> HIDE DEF at
<1>2. classic \in [0..19 -> Byte]
  BY <1>1
<1>3. fresh \in [Extended -> Byte]
  BY FreshChipIs DEF IsChip
<1>4. Clock!CutImage(chip) = [pram |-> classic, xpram |-> fresh]
  BY DEF Clock!CutImage, at
<1> HIDE DEF classic, fresh
<1> QED BY <1>2, <1>3, <1>4 DEF Images

\* What a write of the port has saved.
LEMMA SavedIs ==
  ASSUME PortBAssumption, NEW chip, IsChip(chip), IsChip(clock), FileHolds,
         meant = Contents(clock), meant' = Contents(chip), SavePram(chip),
         chip.saving = (Memory(chip) # Memory(clock))
  PROVE  FileHolds'
<1>1. Clock!Image(chip) \in Images /\ Memory(Clock!Image(chip)) = Memory(chip)
  <2>1. /\ Clock!Image(chip).pram = chip.pram /\ Clock!Image(chip).xpram = chip.xpram
        /\ Clock!Image(chip) \in Images
    BY DEF Clock!Image, Images, IsChip
  <2> QED BY <2>1, SameMemory
<1>2. meant.memory = Memory(clock) /\ meant'.memory = Memory(chip)
  BY DEF Contents
<1>3. CASE ~chip.saving \/ file.off
  <2>1. file' = file
    BY <1>3 DEF SavePram
  <2>2. kept' = kept
    BY <1>2, <1>3 DEF SavePram
  <2> QED BY <2>1, <2>2 DEF FileHolds
<1>4. CASE ~(~chip.saving \/ file.off)
  <2>1. \/ file' = [file EXCEPT !.image = <<Clock!Image(chip)>>] /\ kept' = <<meant'.memory>>
        \/ file' = [file EXCEPT !.off = TRUE] /\ kept' = kept
        \/ file' = [off |-> TRUE, image |-> <<>>] /\ kept' = <<>>
        \/ /\ file' = [off |-> TRUE, image |-> <<Clock!CutImage(chip)>>]
           /\ kept' = <<Memory(Clock!CutImage(chip))>>
    BY <1>4 DEF SavePram
  <2>2. CASE file' = [file EXCEPT !.image = <<Clock!Image(chip)>>] /\ kept' = <<meant'.memory>>
    <3> DEFINE image == Clock!Image(chip)
    <3>1. image \in Images /\ kept' = <<Memory(image)>>
      BY <1>1, <1>2, <2>2
    <3>2. file' = [off |-> file.off, image |-> <<image>>] /\ file.off \in BOOLEAN
      BY <2>2 DEF FileHolds
    <3> HIDE DEF image
    <3>3. file'.image = <<image>> /\ file'.off = file.off /\ file'.image[1] = image
      BY <3>2
    <3> QED BY <3>1, <3>2, <3>3 DEF FileHolds
  <2>3. CASE file' = [file EXCEPT !.off = TRUE] /\ kept' = kept
    <3>1. file' = [off |-> TRUE, image |-> file.image]
      BY <2>3 DEF FileHolds
    <3> QED BY <2>3, <3>1 DEF FileHolds
  <2>4. CASE file' = [off |-> TRUE, image |-> <<>>] /\ kept' = <<>>
    BY <2>4 DEF FileHolds
  <2>5. CASE /\ file' = [off |-> TRUE, image |-> <<Clock!CutImage(chip)>>]
             /\ kept' = <<Memory(Clock!CutImage(chip))>>
    <3> DEFINE image == Clock!CutImage(chip)
    <3>1. image \in Images
      BY CutImageIs
    <3> HIDE DEF image
    <3>2. file'.image = <<image>> /\ file'.off = TRUE /\ file'.image[1] = image
      BY <2>5 DEF image
    <3>3. file' = [off |-> file'.off, image |-> file'.image] /\ kept' = <<Memory(image)>>
      BY <2>5 DEF image
    <3> QED BY <3>1, <3>2, <3>3 DEF FileHolds
  <2> QED BY <2>1, <2>2, <2>3, <2>4, <2>5
<1> QED BY <1>3, <1>4

-----------------------------------------------------------------------------
(* The invariant of the clock is kept.                                     *)

\* Once the parameter RAM is saved only that is different.
LEMMA NoLongerSaving ==
  ASSUME PortBAssumption, NEW r, IsChip(r), NEW s, s = [r EXCEPT !.saving = FALSE]
  PROVE  /\ IsChip(s) /\ s.saving = FALSE /\ Contents(s) = Contents(r)
         /\ \A call, n, got, v : During(r, call, n, got, v) => During(s, call, n, got, v)
<1>3. /\ IsChip(s) /\ s.saving = FALSE /\ s.pram = r.pram /\ s.xpram = r.xpram
      /\ s.writeProtected = r.writeProtected /\ s.seconds = r.seconds
      /\ s.enabled = r.enabled /\ s.clock = r.clock /\ s.shiftIn = r.shiftIn
      /\ s.bitCount = r.bitCount /\ s.command = r.command /\ s.hasCommand = r.hasCommand
      /\ s.shiftOut = r.shiftOut /\ s.sending = r.sending /\ s.outBit = r.outBit
      /\ s.extendedStage = r.extendedStage /\ s.extendedAddress = r.extendedAddress
  BY DEF IsChip, Names
<1>4. Contents(s) = Contents(r)
  <2>1. Memory(s) = Memory(r)
    BY <1>3, SameMemory
  <2> QED BY <1>3, <2>1 DEF Contents
<1>5. ASSUME NEW call, NEW n, NEW got, NEW v, During(r, call, n, got, v)
      PROVE  During(s, call, n, got, v)
  <2>1. \A i : Listening(r, call, i) => Listening(s, call, i)
    BY <1>3 DEF Listening, Stage
  <2>2. \A i : Speaking(r, got, v, i) => Speaking(s, got, v, i)
    BY <1>3 DEF Speaking
  <2> QED BY <1>3, <1>5, <2>1, <2>2 DEF During
<1> QED BY <1>3, <1>4, <1>5

LEMMA RoutineMoves ==
  ASSUME NEW c, NEW n, NEW g, NEW b,
         NEW r, r = [call |-> c, step |-> n, got |-> g, right |-> TRUE]
  PROVE  /\ [r EXCEPT !.step = @ + 1] = [call |-> c, step |-> n + 1, got |-> g, right |-> TRUE]
         /\ [r EXCEPT !.step = @ + 1, !.got = 2 * @ + b]
              = [call |-> c, step |-> n + 1, got |-> 2 * g + b, right |-> TRUE]
<1>1. r.step = n /\ r.got = g
  OBVIOUS
<1> DEFINE next == n + 1
           gained == 2 * g + b
<1>2. r.step + 1 = next /\ 2 * r.got + b = gained
  BY <1>1
<1> HIDE DEF next, gained
<1>3. \A t : [[call |-> c, step |-> n, got |-> g, right |-> t] EXCEPT !.step = next]
               = [call |-> c, step |-> next, got |-> g, right |-> t]
  OBVIOUS
<1>4. \A t : [[call |-> c, step |-> next, got |-> g, right |-> t] EXCEPT !.got = gained]
               = [call |-> c, step |-> next, got |-> gained, right |-> t]
  OBVIOUS
<1>5. [r EXCEPT !.step = next, !.got = gained] = [[r EXCEPT !.step = next] EXCEPT !.got = gained]
  OBVIOUS
<1> QED BY <1>1, <1>2, <1>3, <1>4, <1>5 DEF next, gained

LEMMA WriteKeepsClock ==
  ASSUME PortBAssumption, ClockIInv, RoutineWrites
  PROVE  ClockIInv'
<1> DEFINE call == routine.call[1]
           n == routine.step
           got == routine.got
           v == Expected(meant, call)
           step == Script(call)[n + 1]
           chip == ApplyPortB(clock, step.lines)
<1>1. /\ IsChip(clock) /\ clock.saving = FALSE /\ meant = Contents(clock) /\ FileHolds
      /\ routine = [call |-> routine.call, step |-> n, got |-> got, right |-> TRUE]
      /\ routine.call = <<call>> /\ call \in Calls /\ n \in 0..(Steps(call) - 1)
      /\ During(clock, call, n, got, v) /\ time.tries = 0
  <2>1. routine.call # <<>>
    BY DEF RoutineWrites
  <2> QED BY <2>1 DEF ClockIInv, RoutineFollows
<1>2. call \in Routines /\ Scripts[call] = Script(call) /\ Len(Scripts[call]) = Steps(call)
  <2>1. call \in Routines
    BY <1>1 DEF Routines
  <2> QED BY <2>1, ScriptsAre
<1>3. /\ step.op = "write"
      /\ meant' = IF n + 2 = Steps(call) THEN Meaning(meant, call) ELSE meant
      /\ SavePram(chip)
      /\ routine' = IF n + 1 = Steps(call)
                    THEN [Idle EXCEPT !.right = call.read => got = v]
                    ELSE [routine EXCEPT !.step = @ + 1]
      /\ time' = time
  BY <1>2 DEF RoutineWrites, Step, Committed
<1>4. StepMoves(clock, chip, call, n, got, v, step)
  <2>1. v = Expected(Contents(clock), call)
    BY <1>1
  <2> HIDE DEF n, got, v, call
  <2> QED BY <1>1, <1>2, <2>1, RoutineStep
<1>5. call.read \in BOOLEAN /\ n \in Nat
  <2>1. n \in Nat
    BY <1>1, <1>2, ScriptsAre
  <2> QED BY <1>2, <2>1, CountsAre
<1> HIDE DEF call, n, got, v, step, chip
<1>6. /\ IsChip(chip)
      /\ ~call.read /\ n + 2 = Steps(call) => Wrote(clock, chip, Meaning(Contents(clock), call))
      /\ call.read \/ n + 2 # Steps(call) => Kept(clock, chip)
      /\ n + 1 < Steps(call) => During(chip, call, n + 1, got, v)
      /\ n + 1 = Steps(call) /\ call.read => got = v
  BY <1>3, <1>4 DEF StepMoves
<1>7. /\ meant' = Contents(chip) /\ chip.saving = (Memory(chip) # Memory(clock))
      /\ call.read => meant' = meant
  <2>1. CASE ~call.read /\ n + 2 = Steps(call)
    BY <2>1, <1>1, <1>3, <1>6 DEF Wrote
  <2>2. CASE call.read \/ n + 2 # Steps(call)
    <3>1. Contents(chip) = Contents(clock) /\ Memory(chip) = Memory(clock)
          /\ chip.saving = clock.saving
      BY <1>6, <2>2, KeptContents
    <3>2. call.read => Meaning(meant, call) = meant
      BY DEF Meaning
    <3> QED BY <2>2, <3>1, <3>2, <1>1, <1>3
  <2> QED BY <1>5, <2>1, <2>2
<1>8. /\ IsChip(clock') /\ clock'.saving = FALSE /\ Contents(clock') = Contents(chip)
      /\ \A c, i, g, u : During(chip, c, i, g, u) => During(clock', c, i, g, u)
  <2>1. clock' = [chip EXCEPT !.saving = FALSE]
    BY <1>3 DEF SavePram
  <2> QED BY <1>6, <2>1, NoLongerSaving
<1>9. FileHolds'
  BY <1>1, <1>3, <1>6, <1>7, SavedIs
<1>10. RoutineFollows'
  <2>1. CASE n + 1 = Steps(call)
    <3>1. call.read => got = v
      BY <1>6, <2>1
    <3>2. (call.read => got = v) = TRUE
      BY <3>1
    <3>3. routine' = [Idle EXCEPT !.right = call.read => got = v]
      BY <1>3, <2>1
    <3>4. routine' = [call |-> <<>>, step |-> 0, got |-> 0, right |-> TRUE]
      BY <3>2, <3>3 DEF Idle
    <3> QED BY <3>4 DEF RoutineFollows
  <2>2. CASE n + 1 # Steps(call)
    <3>1. routine' = [call |-> <<call>>, step |-> n + 1, got |-> got, right |-> TRUE]
      <4>1. routine' = [routine EXCEPT !.step = @ + 1]
        BY <1>3, <2>2
      <4>2. routine = [call |-> <<call>>, step |-> n, got |-> got, right |-> TRUE]
        BY ONLY <1>1
      <4> QED BY ONLY <4>1, <4>2, RoutineMoves
    <3>2. n + 1 < Steps(call) /\ n + 1 \in 0..(Steps(call) - 1)
      BY <1>1, <1>2, <1>5, <2>2, ScriptsAre
    <3>3. During(clock', call, n + 1, got, v)
      BY <1>6, <1>8, <3>2
    <3>4. During(clock', call, n + 1, got, Expected(meant', call))
      <4>1. call.read => Expected(meant', call) = v
        BY <1>7 DEF v
      <4> QED BY <3>3, <4>1 DEF During
    <3>5. /\ routine'.call = <<call>> /\ routine'.call[1] = call
          /\ routine'.step = n + 1 /\ routine'.got = got
      BY <3>1
    <3>6. time'.tries = 0
      BY <1>1, <1>3
    <3> QED BY <1>1, <3>1, <3>2, <3>4, <3>5, <3>6 DEF RoutineFollows
  <2> QED BY <2>1, <2>2
<1> QED BY <1>7, <1>8, <1>9, <1>10 DEF ClockIInv

LEMMA ReadKeepsClock ==
  ASSUME PortBAssumption, ClockIInv, RoutineReads
  PROVE  ClockIInv'
<1> DEFINE call == routine.call[1]
           n == routine.step
           got == routine.got
           v == Expected(meant, call)
           step == Script(call)[n + 1]
           chip == ApplyPortB(clock, step.lines)
<1>1. /\ IsChip(clock) /\ clock.saving = FALSE /\ meant = Contents(clock) /\ FileHolds
      /\ routine = [call |-> routine.call, step |-> n, got |-> got, right |-> TRUE]
      /\ routine.call = <<call>> /\ call \in Calls /\ n \in 0..(Steps(call) - 1)
      /\ During(clock, call, n, got, v) /\ time.tries = 0
  <2>1. routine.call # <<>>
    BY DEF RoutineReads
  <2> QED BY <2>1 DEF ClockIInv, RoutineFollows
<1>2. call \in Routines /\ Scripts[call] = Script(call) /\ Len(Scripts[call]) = Steps(call)
  <2>1. call \in Routines
    BY <1>1 DEF Routines
  <2> QED BY <2>1, ScriptsAre
<1>3. /\ step.op = "read"
      /\ UNCHANGED <<clock, file, time, meant, kept>>
      /\ routine' = [routine EXCEPT !.step = @ + 1, !.got = 2 * @ + (IF Clock!DataOut(clock) THEN 1 ELSE 0)]
  BY <1>2 DEF RoutineReads, Step
<1>4. StepMoves(clock, chip, call, n, got, v, step)
  <2>1. v = Expected(Contents(clock), call)
    BY <1>1
  <2> HIDE DEF n, got, v, call
  <2> QED BY <1>1, <1>2, <2>1, RoutineStep
<1>5. n \in Nat
  BY <1>1, <1>2, ScriptsAre
<1> DEFINE gained == Asking(clock, got)
<1>6. routine' = [call |-> <<call>>, step |-> n + 1, got |-> gained, right |-> TRUE]
  <2> DEFINE bit == IF Clock!DataOut(clock) THEN 1 ELSE 0
  <2>1. routine' = [routine EXCEPT !.step = @ + 1, !.got = 2 * @ + bit]
    BY ONLY <1>3
  <2>2. routine = [call |-> <<call>>, step |-> n, got |-> got, right |-> TRUE]
    BY ONLY <1>1
  <2>3. gained = 2 * got + bit
    BY DEF Asking
  <2> HIDE DEF bit, call, n, got, gained
  <2> QED BY ONLY <2>1, <2>2, <2>3, RoutineMoves
<1> HIDE DEF call, n, got, v, step, chip, gained
<1>7. n + 1 < Steps(call) /\ During(clock, call, n + 1, gained, v)
  BY <1>3, <1>4 DEF StepMoves, gained
<1>8. RoutineFollows'
  <2>1. /\ routine'.call = <<call>> /\ routine'.call[1] = call
        /\ routine'.step = n + 1 /\ routine'.got = gained
    BY <1>6
  <2>2. n + 1 \in 0..(Steps(call) - 1)
    BY <1>2, <1>5, <1>7, ScriptsAre
  <2>3. During(clock', call, n + 1, gained, Expected(meant', call))
    BY <1>3, <1>7 DEF v
  <2>4. time'.tries = 0
    BY <1>1, <1>3
  <2> QED BY <1>1, <1>6, <2>1, <2>2, <2>3, <2>4 DEF RoutineFollows
<1> QED BY <1>1, <1>3, <1>8 DEF ClockIInv, FileHolds

\* What one step of the reading of the time brings: the byte of the counter
\* it asked for, and the chip as it was.
LEMMA TimeByteIs ==
  ASSUME PortBAssumption, IsChip(clock), NEW n \in 1..(2 * CounterBytes)
  PROVE  LET after == Exchanged(clock, TimeCalls[n])
         IN  /\ IsChip(after.chip) /\ Kept(clock, after.chip)
             /\ after.got = Clock!ByteOf(clock.seconds, CounterBytes - 1 - ((n - 1) % CounterBytes))
<1> DEFINE at == CounterBytes - 1 - ((n - 1) % CounterBytes)
           call == [on |-> "seconds", read |-> TRUE, value |-> 0,
                    at |-> at + (IF n <= CounterBytes THEN 4 ELSE 0)]
<1>1. TimeCalls[n] = call
  BY DEF TimeCalls
<1>2. call \in Routines
  <2>1. TimeCalls[n] \in ToSet(TimeCalls)
    <3>1. DOMAIN TimeCalls = 1..(2 * CounterBytes)
      BY DEF TimeCalls
    <3> QED BY <3>1 DEF ToSet
  <2> HIDE DEF call
  <2> QED BY <1>1, <2>1 DEF Routines
<1>3. at \in 0..3
  <2>1. CounterBytes \in 1..4 /\ (n - 1) % CounterBytes \in 0..(CounterBytes - 1)
    BY DEF PortBAssumption
  <2> QED BY <2>1
<1> HIDE DEF at
<1>4. call.on = "seconds" /\ call.read = TRUE /\ call.at % 4 = at
  BY <1>3
<1> HIDE DEF call
<1>5. Expected(Contents(clock), call) = Clock!ByteOf(clock.seconds, at)
  BY <1>4 DEF Expected, Contents
<1>6. /\ IsChip(Exchanged(clock, call).chip) /\ Kept(clock, Exchanged(clock, call).chip)
      /\ Exchanged(clock, call).got = Expected(Contents(clock), call)
  BY <1>2, <1>4, ExchangedIs
<1> QED BY <1>1, <1>5, <1>6 DEF at

\* A chip that keeps what it kept, while no routine is under way.
LEMMA KeepsClock ==
  ASSUME PortBAssumption, ClockIInv, IsChip(clock'), Kept(clock, clock'),
         UNCHANGED <<file, meant, kept>>,
         routine' = Idle \/ (routine' = routine /\ routine.call = <<>>)
  PROVE  ClockIInv'
<1>1. Contents(clock') = Contents(clock) /\ clock'.saving = clock.saving
  BY KeptContents
<1>2. FileHolds'
  BY DEF ClockIInv, FileHolds
<1>3. RoutineFollows'
  <2>1. CASE routine' = Idle
    BY <2>1 DEF RoutineFollows, Idle
  <2>2. CASE routine' = routine /\ routine.call = <<>>
    BY <2>2 DEF ClockIInv, RoutineFollows
  <2> QED BY <2>1, <2>2
<1> QED BY <1>1, <1>2, <1>3 DEF ClockIInv

LEMMA StartOfRoutine ==
  ASSUME PortBAssumption, NEW call \in Calls, NEW r, NEW v
  PROVE  During(r, call, 0, 0, v) /\ 0 \in 0..(Steps(call) - 1)
<1>1. call \in Routines
  BY DEF Routines
<1>2. Outgoing(call) \in 1..3 /\ Steps(call) \in Nat /\ call.read \in BOOLEAN
  BY <1>1, ScriptIs, ScriptsAre, CountsAre
<1>3. Receives(call) \in {0, 25}
  BY DEF Receives
<1>4. Steps(call) >= 3
  BY <1>2, <1>3 DEF Steps
<1> QED BY <1>2, <1>4 DEF During

LEMMA ClockInit ==
  ASSUME PortBAssumption, PortBInit
  PROVE  ClockIInv
<1>1. /\ IsChip(Loaded(<<>>)) /\ Loaded(<<>>).saving = FALSE
      /\ Contents(Loaded(<<>>)) = [memory |-> MemoryAtStart(<<>>), seconds |-> FirstSecond,
                                   protected |-> FALSE]
  BY LoadedIs
<1>2. FileHolds
  BY DEF PortBInit, FileHolds
<1>3. RoutineFollows
  BY DEF PortBInit, RoutineFollows, Idle
<1> QED BY <1>1, <1>2, <1>3 DEF PortBInit, ClockIInv

LEMMA ClockStep ==
  ASSUME PortBAssumption, ClockIInv, TimeIInv, [PortBNext]_portBVars
  PROVE  ClockIInv'
<1>1. CASE RoutineWrites
  BY <1>1, WriteKeepsClock
<1>2. CASE RoutineReads
  BY <1>2, ReadKeepsClock
<1>3. ASSUME NEW call \in Calls, RoutineStarts(call) PROVE ClockIInv'
  <2>1. /\ routine' = [call |-> <<call>>, step |-> 0, got |-> 0, right |-> TRUE]
        /\ UNCHANGED <<clock, file, time, meant, kept>> /\ time.tries = 0
    BY <1>3 DEF RoutineStarts, Idle
  <2>2. During(clock, call, 0, 0, Expected(meant, call)) /\ 0 \in 0..(Steps(call) - 1)
    BY StartOfRoutine
  <2>3. /\ routine'.call = <<call>> /\ routine'.call[1] = call
        /\ routine'.step = 0 /\ routine'.got = 0
    BY <2>1
  <2>4. RoutineFollows'
    BY <2>1, <2>2, <2>3 DEF RoutineFollows
  <2> QED BY <2>1, <2>4 DEF ClockIInv, FileHolds
<1>4. CASE TimeStarts
  BY <1>4 DEF TimeStarts, ClockIInv, FileHolds, RoutineFollows
<1>5. CASE TimeByte
  <2> DEFINE n == Len(time.bytes) + 1
             after == Exchanged(clock, TimeCalls[n])
  <2>1. /\ clock' = after.chip /\ UNCHANGED <<file, routine, meant, kept>>
        /\ time.tries > 0 /\ n <= Len(TimeCalls)
    BY <1>5 DEF TimeByte
  <2>2. n \in 1..(2 * CounterBytes)
    <3>1. Len(time.bytes) \in Nat
      BY <2>1 DEF TimeIInv
    <3>2. Len(TimeCalls) = 2 * CounterBytes /\ CounterBytes \in 1..4
      BY DEF TimeCalls, PortBAssumption
    <3> QED BY <2>1, <3>1, <3>2
  <2> HIDE DEF n
  <2>3. IsChip(clock') /\ Kept(clock, clock')
    BY <2>1, <2>2, TimeByteIs DEF ClockIInv
  <2>4. routine.call = <<>>
    BY <2>1 DEF ClockIInv, RoutineFollows, TimeIInv
  <2> QED BY <2>1, <2>3, <2>4, KeepsClock
<1>6. CASE TimeCompared
  BY <1>6 DEF TimeCompared, ClockIInv, FileHolds, RoutineFollows
<1>7. CASE TickSecond
  <2>1. /\ clock' = Clock!TickSecond(clock) /\ UNCHANGED <<file, routine, time, kept>>
        /\ meant' = [meant EXCEPT !.seconds = (@ + 1) % 256^CounterBytes]
    BY <1>7 DEF TickSecond
  <2>2. IsChip(clock) /\ ~clock.saving /\ meant = Contents(clock) /\ FileHolds /\ RoutineFollows
    BY DEF ClockIInv
  <2>3. /\ IsChip(clock') /\ clock'.saving = FALSE /\ meant' = Contents(clock')
        /\ \A call, n, got, v : During(clock, call, n, got, v) => During(clock', call, n, got, v)
    BY <2>1, <2>2, TickIs
  <2>4. FileHolds'
    BY <2>1, <2>2 DEF FileHolds
  <2>5. RoutineFollows'
    <3>1. CASE routine.call = <<>>
      BY <2>1, <2>2, <3>1 DEF RoutineFollows
    <3>2. CASE routine.call # <<>>
      <4> DEFINE call == routine.call[1]
                 v == Expected(meant, call)
      <4>1. /\ routine.call = <<call>> /\ call \in Calls
            /\ During(clock, call, routine.step, routine.got, v)
        BY <2>2, <3>2 DEF RoutineFollows
      <4>2. call.read => Expected(meant', call) = v
        <5>1. call \in Routines
          BY <4>1 DEF Routines
        <5>2. call.read => call.on # "seconds"
          BY <4>1, <5>1, RoutinesAre
        <5>3. meant'.memory = meant.memory
          BY <2>1, <2>2 DEF Contents
        <5> QED BY <5>2, <5>3 DEF Expected
      <4>3. During(clock', call, routine.step, routine.got, v)
        BY <2>3, <4>1
      <4> HIDE DEF v
      <4>4. During(clock', call, routine.step, routine.got, Expected(meant', call))
        BY <4>2, <4>3 DEF During
      <4> QED BY <2>1, <2>2, <3>2, <4>4 DEF RoutineFollows
    <3> QED BY <3>1, <3>2
  <2> QED BY <2>3, <2>4, <2>5 DEF ClockIInv
<1>8. ASSUME NEW dy \in {-1, 1}, MoveReads(dy) PROVE ClockIInv'
  BY <1>8 DEF MoveReads, ClockIInv, FileHolds, RoutineFollows
<1>9. CASE MoveWrites
  BY <1>9 DEF MoveWrites, ClockIInv, FileHolds, RoutineFollows
<1>10. CASE LineTick
  BY <1>10 DEF LineTick, ClockIInv, FileHolds, RoutineFollows
<1>11. CASE HandlerEnters
  BY <1>11 DEF HandlerEnters, ClockIInv, FileHolds, RoutineFollows
<1>12. CASE HandlerReads
  BY <1>12 DEF HandlerReads, ClockIInv, FileHolds, RoutineFollows
<1>13. CASE ButtonPolled
  BY <1>13 DEF ButtonPolled, ClockIInv, FileHolds, RoutineFollows
<1>14. CASE MachineReset
  <2>1. /\ clock' = ApplyPortB(clock, Released) /\ UNCHANGED <<file, meant, kept>>
        /\ routine' = Idle
    BY <1>14 DEF MachineReset
  <2>2. IsChip(clock') /\ Kept(clock, clock')
    <3>1. IsChip(clock) /\ ~Released.enabled /\ Released.clock \in BOOLEAN
      BY DEF ClockIInv, Released, Pins
    <3> QED BY <2>1, <3>1, Raised DEF ApplyPortB
  <2>3. routine' = Idle \/ (routine' = routine /\ routine.call = <<>>)
    BY ONLY <2>1
  <2> QED BY ONLY PortBAssumption, ClockIInv, <2>1, <2>2, <2>3, KeepsClock
<1>15. CASE Boot
  BY <1>15 DEF Boot, ClockIInv, FileHolds, RoutineFollows
<1>16. CASE Restart
  <2>1. /\ clock' = Loaded(file.image) /\ file' = [file EXCEPT !.off = FALSE]
        /\ meant' = [memory |-> MemoryAtStart(kept), seconds |-> FirstSecond,
                     protected |-> FALSE]
        /\ routine' = Idle /\ kept' = kept
    BY <1>16 DEF Restart
  <2>2. \/ file.image = <<>> /\ kept = <<>>
        \/ /\ file.image = <<file.image[1]>> /\ file.image[1] \in Images
           /\ kept = <<Memory(file.image[1])>>
    BY DEF ClockIInv, FileHolds
  <2>3. IsChip(clock') /\ clock'.saving = FALSE /\ meant' = Contents(clock')
    BY <2>1, <2>2, LoadedIs
  <2>4. FileHolds'
    <3>1. file' = [off |-> FALSE, image |-> file.image]
      BY <2>1 DEF ClockIInv, FileHolds
    <3>2. file'.image = file.image /\ file'.off = FALSE
      BY <3>1
    <3> QED BY <2>1, <2>2, <3>1, <3>2 DEF FileHolds
  <2>5. RoutineFollows'
    BY <2>1 DEF RoutineFollows, Idle
  <2> QED BY <2>3, <2>4, <2>5 DEF ClockIInv
<1>17. CASE UNCHANGED portBVars
  BY <1>17 DEF portBVars, ClockIInv, FileHolds, RoutineFollows
<1> QED BY ONLY <1>1, <1>2, <1>3, <1>4, <1>5, <1>6, <1>7, <1>8, <1>9, <1>10, <1>11,
                <1>12, <1>13, <1>14, <1>15, <1>16, <1>17, [PortBNext]_portBVars DEF PortBNext

-----------------------------------------------------------------------------
(* The counter of the seconds, byte by byte.                               *)

LEMMA Division ==
  ASSUME NEW x \in Nat, NEW c \in Nat \ {0}
  PROVE  x \div c \in Nat /\ x % c \in 0..(c - 1) /\ x = c * (x \div c) + (x % c)
BY SMT

\* A byte of a number is replaced, and the number is no longer for it.
LEMMA ByteReplaced ==
  ASSUME NEW p \in Nat \ {0}, NEW above \in Nat, NEW x \in Nat, x < 256 * (p * above),
         NEW value \in 0..255
  PROVE  /\ x + (value - ((x \div p) % 256)) * p \in Nat
         /\ x + (value - ((x \div p) % 256)) * p < 256 * (p * above)
<1> DEFINE q == x \div p
           low == x % p
           b == q % 256
           high == q \div 256
<1>1. q \in Nat /\ low \in 0..(p - 1) /\ x = p * q + low
  BY Division
<1> HIDE DEF q, low
<1>2. b \in 0..255 /\ high \in Nat /\ q = 256 * high + b
  BY <1>1, Division, SMT
<1> HIDE DEF b, high
<1>3. x = 256 * (p * high) + p * b + low /\ p * high \in Nat /\ p * b \in Nat
  BY <1>1, <1>2, SMT
<1>4. high < above
  <2>1. 256 * (p * high) < 256 * (p * above) /\ p * above \in Nat
    BY <1>1, <1>3, SMT
  <2>2. p * high < p * above
    BY <2>1, <1>3, SMT
  <2> QED BY <1>2, <2>2, SMT
<1>5. p * high + p <= p * above /\ p * above \in Nat
  <2>1. p * (high + 1) <= p * above /\ p * above \in Nat
    BY <1>2, <1>4, SMT
  <2> QED BY <1>2, <2>1, SMT
<1>6. p * value \in Nat /\ p * value <= 255 * p /\ (value - b) * p = p * value - p * b
  BY <1>2, SMT
<1>7. x + (value - b) * p = 256 * (p * high) + p * value + low
  BY <1>1, <1>2, <1>3, <1>6, SMT
<1> QED BY <1>1, <1>3, <1>5, <1>6, <1>7, SMT DEF b, q

LEMMA Quotient ==
  ASSUME NEW m \in Nat \ {0}, NEW h \in Nat, NEW s \in 0..(m - 1), NEW x, x = m * h + s
  PROVE  x \div m = h
<1> DEFINE q == x \div m
           t == x % m
<1>1. x \in Nat /\ m * h \in Nat
  BY SMT
<1>2. q \in Nat /\ t \in 0..(m - 1) /\ x = m * q + t
  BY <1>1, Division
<1> HIDE DEF q, t
<1>3. CASE q < h
  <2>1. m * (q + 1) <= m * h
    BY <1>2, <1>3, SMT
  <2>2. m * (q + 1) = m * q + m
    BY <1>2, SMT
  <2> QED BY <1>2, <2>1, <2>2, SMT
<1>4. CASE h < q
  <2>1. m * (h + 1) <= m * q
    BY <1>2, <1>4, SMT
  <2>2. m * (h + 1) = m * h + m
    BY SMT
  <2> QED BY <1>2, <2>1, <2>2, SMT
<1> QED BY <1>2, <1>3, <1>4, SMT DEF q

LEMMA QuotientAgain ==
  ASSUME NEW c \in Nat \ {0}, NEW x \in Nat
  PROVE  (x \div c) \div 256 = x \div (256 * c)
<1> DEFINE q == x \div c
           r == x % c
           h == q \div 256
           b == q % 256
<1>1. q \in Nat /\ r \in 0..(c - 1) /\ x = c * q + r
  BY Division
<1> HIDE DEF q, r
<1>2. b \in 0..255 /\ h \in Nat /\ q = 256 * h + b
  BY <1>1, Division, SMT
<1> HIDE DEF b, h
<1> DEFINE s == c * b + r
           m == 256 * c
<1>3. c * b \in Nat /\ c * b <= 255 * c
  BY <1>2, SMT
<1>4. s \in 0..(m - 1) /\ m \in Nat \ {0}
  BY <1>1, <1>3, SMT
<1>5. x = m * h + s
  BY <1>1, <1>2, SMT
<1> HIDE DEF s, m
<1>6. x \div m = h
  BY <1>2, <1>4, <1>5, Quotient
<1> QED BY <1>6 DEF m, h, q

\* The powers of 256 that are met.
LEMMA Powers256 ==
  /\ 256^0 = 1 /\ 256^1 = 256 /\ 256^2 = 65536 /\ 256^3 = 16777216 /\ 256^4 = 4294967296
BY SMT

LEMMA NextPower ==
  ASSUME NEW n \in 0..3
  PROVE  256^n \in Nat \ {0} /\ 256^(n + 1) = 256 * 256^n
<1> DEFINE power(i) == 256^i
<1>1. power(0) = 1 /\ power(1) = 256 /\ power(2) = 65536 /\ power(3) = 16777216
      /\ power(4) = 4294967296
  BY Powers256
<1>2. SUFFICES power(n) \in Nat \ {0} /\ power(n + 1) = 256 * power(n)
  OBVIOUS
<1> HIDE DEF power
<1>3. \/ n = 0 /\ n + 1 = 1
      \/ n = 1 /\ n + 1 = 2
      \/ n = 2 /\ n + 1 = 3
      \/ n = 3 /\ n + 1 = 4
  BY SMT
<1> QED BY ONLY <1>1, <1>3, SMT

\* What the counter holds, whichever of its bytes is looked at.
LEMMA CounterSplit ==
  ASSUME PortBAssumption, NEW at \in 0..(CounterBytes - 1)
  PROVE  /\ 256^at \in Nat \ {0} /\ 256^(CounterBytes - 1 - at) \in Nat
         /\ 256^CounterBytes = 256 * (256^at * 256^(CounterBytes - 1 - at))
<1> DEFINE power(i) == 256^i
<1>1. power(0) = 1 /\ power(1) = 256 /\ power(2) = 65536 /\ power(3) = 16777216
      /\ power(4) = 4294967296
  BY Powers256
<1>2. SUFFICES /\ power(at) \in Nat \ {0} /\ power(CounterBytes - 1 - at) \in Nat
               /\ power(CounterBytes) = 256 * (power(at) * power(CounterBytes - 1 - at))
  OBVIOUS
<1> HIDE DEF power
<1>3. CounterBytes \in 1..4
  BY DEF PortBAssumption
<1>4. \/ CounterBytes = 1 /\ at = 0 /\ CounterBytes - 1 - at = 0
      \/ CounterBytes = 2 /\ at = 0 /\ CounterBytes - 1 - at = 1
      \/ CounterBytes = 2 /\ at = 1 /\ CounterBytes - 1 - at = 0
      \/ CounterBytes = 3 /\ at = 0 /\ CounterBytes - 1 - at = 2
      \/ CounterBytes = 3 /\ at = 1 /\ CounterBytes - 1 - at = 1
      \/ CounterBytes = 3 /\ at = 2 /\ CounterBytes - 1 - at = 0
      \/ CounterBytes = 4 /\ at = 0 /\ CounterBytes - 1 - at = 3
      \/ CounterBytes = 4 /\ at = 1 /\ CounterBytes - 1 - at = 2
      \/ CounterBytes = 4 /\ at = 2 /\ CounterBytes - 1 - at = 1
      \/ CounterBytes = 4 /\ at = 3 /\ CounterBytes - 1 - at = 0
  BY <1>3, SMT
<1> QED BY ONLY <1>1, <1>4, SMT

LEMMA SecondsWritten ==
  ASSUME PortBAssumption, NEW x \in Counter, NEW at \in 0..(CounterBytes - 1),
         NEW value \in Byte
  PROVE  x + (value - Clock!ByteOf(x, at)) * 256^at \in Counter
<1> DEFINE p == 256^at
           above == 256^(CounterBytes - 1 - at)
           size == 256^CounterBytes
<1>1. p \in Nat \ {0} /\ above \in Nat /\ size = 256 * (p * above)
  BY CounterSplit
<1>2. Counter = 0..(size - 1) /\ Clock!ByteOf(x, at) = (x \div p) % 256
  BY DEF Counter, Clock!ByteOf
<1> HIDE DEF p, above, size
<1>3. p * above \in Nat /\ size \in Nat
  BY <1>1, SMT
<1>4. x \in Nat /\ x < 256 * (p * above)
  BY <1>1, <1>2, <1>3, SMT
<1> DEFINE new == x + (value - ((x \div p) % 256)) * p
<1>5. new \in Nat /\ new < 256 * (p * above)
  BY <1>1, <1>4, ByteReplaced DEF Byte
<1> HIDE DEF new
<1>6. new \in 0..(size - 1)
  BY <1>1, <1>3, <1>5, SMT
<1> QED BY <1>2, <1>6 DEF new, p

\* A call leaves the seconds within what the counter holds.
LEMMA MeaningStays ==
  ASSUME PortBAssumption, NEW call \in Calls, NEW memory, NEW seconds \in Counter, NEW protected,
         NEW before, before = [memory |-> memory, seconds |-> seconds, protected |-> protected]
  PROVE  Meaning(before, call).seconds \in Counter
<1>1. call \in Routines
  BY DEF Routines
<1>2. call.value \in Byte /\ (call.on = "seconds" => call.at \in 0..(CounterBytes - 1))
  BY <1>1, RoutinesAre
<1>3. before.seconds = seconds
  OBVIOUS
<1>4. CASE call.read \/ (before.protected /\ call.on # "protect")
  BY <1>3, <1>4 DEF Meaning
<1>5. CASE ~(call.read \/ (before.protected /\ call.on # "protect"))
  <2>1. CASE call.on = "protect"
    <3>1. Meaning(before, call) = [before EXCEPT !.protected = call.value >= 128]
      BY <1>5, <2>1 DEF Meaning
    <3> QED BY <1>3, <3>1
  <2>2. CASE call.on = "seconds"
    <3> DEFINE new == seconds + (call.value - Clock!ByteOf(seconds, call.at)) * 256^call.at
    <3>1. Meaning(before, call) = [before EXCEPT !.seconds = new]
      BY <1>3, <1>5, <2>2 DEF Meaning
    <3>2. new \in Counter
      BY <1>2, <2>2, SecondsWritten
    <3> HIDE DEF new
    <3> QED BY <3>1, <3>2
  <2>3. CASE call.on # "protect" /\ call.on # "seconds"
    <3>1. Meaning(before, call) = [before EXCEPT !.memory[Place(call)] = call.value]
      BY <1>5, <2>3 DEF Meaning
    <3> QED BY <1>3, <3>1
  <2> QED BY <2>1, <2>2, <2>3
<1> QED BY <1>4, <1>5

\* The bytes of a number, high ones first, are the number again.
LEMMA NumberIs ==
  ASSUME PortBAssumption, NEW x \in Counter, NEW bytes \in Seq(Byte),
         Len(bytes) = CounterBytes, \A n \in 1..CounterBytes : bytes[n] = ByteAt(x, n)
  PROVE  Number(bytes) = x
<1> DEFINE size == CounterBytes
           over(i) == x \div 256^i
           left(n) == over(size - n)
<1>1. size \in 1..4 /\ size \in Nat
  BY DEF PortBAssumption
<1>2. x \in Nat /\ x < 256^size /\ 256^size \in Nat \ {0} /\ 256^0 = 1
  <2>1. 256^size \in Nat \ {0} /\ 256^0 = 1
    BY Moduli
  <2>2. x \in 0..(256^size - 1)
    BY DEF Counter
  <2> DEFINE p == 256^size
  <2>3. p \in Nat \ {0} /\ x \in 0..(p - 1)
    BY <2>1, <2>2
  <2> HIDE DEF p
  <2>4. x \in Nat /\ x < p
    BY <2>3, SMT
  <2> QED BY <2>1, <2>4 DEF p
<1>3. PICK w : /\ w[0] = 0
               /\ \A k \in 1..size : w[k] = 256 * w[k - 1] + bytes[k]
               /\ Number(bytes) = w[size]
  <2>1. DOMAIN bytes = 1..size
    OBVIOUS
  <2> QED BY <1>1, <2>1, NumberSteps
<1>4. left(0) = 0 /\ left(size) = x
  <2> DEFINE p == 256^size
  <2>1. p \in Nat \ {0} /\ x \in 0..(p - 1) /\ x = p * 0 + x
    <3>1. p \in Nat \ {0} /\ x < p
      BY <1>2
    <3> HIDE DEF p
    <3> QED BY <1>2, <3>1, SMT
  <2> HIDE DEF p
  <2>2. x \div p = 0
    BY <2>1, Quotient
  <2>3. x \div 1 = x
    BY <1>2, SMT
  <2>4. size - 0 = size /\ size - size = 0
    BY <1>1
  <2>5. over(size) = 0 /\ over(0) = x
    BY <1>2, <2>2, <2>3 DEF p
  <2> HIDE DEF over
  <2> QED BY <2>4, <2>5
<1>5. ASSUME NEW k \in 1..size
      PROVE  left(k) = 256 * left(k - 1) + bytes[k]
  <2> DEFINE i == size - k
             p == 256^i
  <2>1. i \in 0..3 /\ size - (k - 1) = i + 1 /\ i + 1 \in 1..4
    BY <1>1
  <2>2. bytes[k] = (x \div p) % 256
    <3>1. (k - 1) % size = k - 1
      BY <1>1
    <3>2. size - 1 - ((k - 1) % size) = i
      BY <1>1, <3>1
    <3>3. bytes[k] = Clock!ByteOf(x, i)
      BY <3>2 DEF ByteAt
    <3> QED BY <3>3 DEF Clock!ByteOf
  <2>3. left(k - 1) = over(i + 1)
    <3> HIDE DEF over
    <3> QED BY <2>1
  <2>4. p \in Nat \ {0} /\ 256^(i + 1) = 256 * p
    <3> HIDE DEF i
    <3> QED BY <2>1, NextPower
  <2>5. left(k) = x \div p
    OBVIOUS
  <2> DEFINE r == 256^(i + 1)
  <2>9. over(i + 1) = x \div r /\ r = 256 * p
    BY <2>4
  <2> HIDE DEF r, p, i, left, over
  <2>6. (x \div p) \div 256 = left(k - 1)
    <3>1. (x \div p) \div 256 = x \div (256 * p)
      BY <1>2, <2>4, QuotientAgain
    <3> QED BY <2>3, <2>9, <3>1
  <2> DEFINE q == x \div p
  <2>7. q \in Nat /\ left(k) = q /\ left(k - 1) = q \div 256 /\ bytes[k] = q % 256
    BY <1>2, <2>2, <2>4, <2>5, <2>6, Division
  <2> HIDE DEF q
  <2>8. q = 256 * (q \div 256) + (q % 256)
    BY ONLY <2>7, SMT
  <2> QED BY ONLY <2>7, <2>8
<1> HIDE DEF left
<1> DEFINE Good == {k \in 0..size : w[k] = left(k)}
<1>6. size \in Good
  <2>1. Good \in SUBSET (0..size) /\ 0 \in Good
    BY <1>1, <1>3, <1>4
  <2>2. ASSUME NEW k \in 1..size, k - 1 \in Good PROVE k \in Good
    <3>1. w[k] = 256 * w[k - 1] + bytes[k] /\ w[k - 1] = left(k - 1)
      BY <1>3, <2>2
    <3>2. left(k) = 256 * left(k - 1) + bytes[k]
      BY <1>5
    <3>3. k \in 0..size
      BY <1>1
    <3> QED BY <3>1, <3>2, <3>3
  <2>3. \A k \in 1..size : k - 1 \in Good => k \in Good
    BY <2>2
  <2> HIDE DEF Good, size
  <2> QED BY <1>1, <2>1, <2>3, HoldsAtLast
<1> QED BY <1>3, <1>4, <1>6

-----------------------------------------------------------------------------
(* The reading of the time.                                                *)

LEMMA AfterIs ==
  ASSUME PortBAssumption, NEW x \in Counter
  PROVE  After(x) \in Counter /\ x \in Int
<1> DEFINE size == 256^CounterBytes
<1>1. size \in {256, 65536, 16777216, 4294967296}
  BY Moduli
<1> HIDE DEF size
<1>2. x \in 0..(size - 1) /\ After(x) = (x + 1) % size /\ Counter = 0..(size - 1)
  BY DEF Counter, After, size
<1> QED BY ONLY <1>1, <1>2, SMT

LEMMA ByteAtIs ==
  ASSUME PortBAssumption, NEW x \in Counter, NEW n \in 1..(2 * CounterBytes)
  PROVE  ByteAt(x, n) \in Byte
<1>1. x \in Int
  BY AfterIs
<1>2. CounterBytes \in 1..4 /\ (n - 1) % CounterBytes \in 0..(CounterBytes - 1)
  BY DEF PortBAssumption
<1>3. CounterBytes - 1 - ((n - 1) % CounterBytes) \in 0..3
  BY <1>2
<1> QED BY <1>1, <1>3, ByteOfIs DEF ByteAt

LEMMA ByteAtPlace ==
  ASSUME NEW x, NEW n, NEW i, (n - 1) % CounterBytes = i
  PROVE  ByteAt(x, n) = Clock!ByteOf(x, CounterBytes - 1 - i)
<1> QED BY Zenon DEF ByteAt

\* The two halves of what has been read.
LEMMA HalvesAre ==
  ASSUME PortBAssumption, NEW bytes \in Seq(Byte), Len(bytes) = 2 * CounterBytes
  PROVE  /\ Half(bytes, 0) \in Seq(Byte) /\ Len(Half(bytes, 0)) = CounterBytes
         /\ Half(bytes, 1) \in Seq(Byte) /\ Len(Half(bytes, 1)) = CounterBytes
         /\ \A n \in 1..CounterBytes : Half(bytes, 0)[n] = bytes[n]
         /\ \A n \in 1..CounterBytes : Half(bytes, 1)[n] = bytes[CounterBytes + n]
         /\ \A x, n : n \in 1..CounterBytes => ByteAt(x, CounterBytes + n) = ByteAt(x, n)
<1>1. CounterBytes \in 1..4
  BY DEF PortBAssumption
<1>2. Half(bytes, 0) = SubSeq(bytes, 1, CounterBytes)
      /\ Half(bytes, 1) = SubSeq(bytes, CounterBytes + 1, 2 * CounterBytes)
  <2>1. /\ 0 * CounterBytes + 1 = 1 /\ (0 + 1) * CounterBytes = CounterBytes
        /\ 1 * CounterBytes + 1 = CounterBytes + 1 /\ (1 + 1) * CounterBytes = 2 * CounterBytes
    BY <1>1
  <2> QED BY <2>1 DEF Half
<1>3. \A n \in 1..CounterBytes : ((CounterBytes + n) - 1) % CounterBytes = (n - 1) % CounterBytes
  <2>1. CASE CounterBytes = 1
    BY <2>1
  <2>2. CASE CounterBytes = 2
    BY <2>2
  <2>3. CASE CounterBytes = 3
    BY <2>3
  <2>4. CASE CounterBytes = 4
    BY <2>4
  <2> QED BY <1>1, <2>1, <2>2, <2>3, <2>4
<1>4. \A x, n : n \in 1..CounterBytes => ByteAt(x, CounterBytes + n) = ByteAt(x, n)
  <2> SUFFICES ASSUME NEW x, NEW n \in 1..CounterBytes
               PROVE  ByteAt(x, CounterBytes + n) = ByteAt(x, n)
    OBVIOUS
  <2>1. ((CounterBytes + n) - 1) % CounterBytes = (n - 1) % CounterBytes
    BY <1>3
  <2>2. ByteAt(x, n) = Clock!ByteOf(x, CounterBytes - 1 - ((n - 1) % CounterBytes))
    BY DEF ByteAt
  <2> QED BY ONLY <2>1, <2>2, ByteAtPlace, Zenon
<1>7. \A i \in 1..(2 * CounterBytes) : bytes[i] \in Byte
  OBVIOUS
<1>5. /\ Half(bytes, 0) \in Seq(Byte) /\ Len(Half(bytes, 0)) = CounterBytes
      /\ \A n \in 1..CounterBytes : Half(bytes, 0)[n] = bytes[n]
  <2> DEFINE part == SubSeq(bytes, 1, CounterBytes)
  <2>1. 1 \in Int /\ CounterBytes \in Int /\ \A i \in 1..CounterBytes : bytes[i] \in Byte
    BY <1>1, <1>7
  <2>2. /\ part \in Seq(Byte)
        /\ Len(part) = IF 1 <= CounterBytes THEN CounterBytes - 1 + 1 ELSE 0
        /\ \A i \in 1..(CounterBytes - 1 + 1) : part[i] = bytes[1 + i - 1]
    BY ONLY <2>1, SubSeqProperties
  <2> HIDE DEF part
  <2>3. Len(part) = CounterBytes /\ \A i \in 1..CounterBytes : part[i] = bytes[i]
    <3>1. CounterBytes - 1 + 1 = CounterBytes /\ \A i \in 1..CounterBytes : 1 + i - 1 = i
      BY <1>1
    <3> QED BY <1>1, <2>2, <3>1
  <2> QED BY <1>2, <2>2, <2>3 DEF part
<1>6. /\ Half(bytes, 1) \in Seq(Byte) /\ Len(Half(bytes, 1)) = CounterBytes
      /\ \A n \in 1..CounterBytes : Half(bytes, 1)[n] = bytes[CounterBytes + n]
  <2> DEFINE low == CounterBytes + 1
             high == 2 * CounterBytes
             part == SubSeq(bytes, low, high)
  <2>1. /\ low \in Int /\ high \in Int /\ \A i \in low..high : bytes[i] \in Byte
        /\ low <= high /\ high - low + 1 = CounterBytes
        /\ \A i \in 1..CounterBytes : low + i - 1 = CounterBytes + i
    BY <1>1, <1>7
  <2> HIDE DEF low, high
  <2>2. /\ part \in Seq(Byte) /\ Len(part) = IF low <= high THEN high - low + 1 ELSE 0
        /\ \A i \in 1..(high - low + 1) : part[i] = bytes[low + i - 1]
    BY ONLY <2>1, SubSeqProperties
  <2> HIDE DEF part
  <2>3. Len(part) = CounterBytes /\ \A i \in 1..CounterBytes : part[i] = bytes[CounterBytes + i]
    BY ONLY <2>1, <2>2
  <2> QED BY <1>2, <2>2, <2>3 DEF part, low, high
<1> QED BY <1>4, <1>5, <1>6

\* The reading is compared: the halves that agree are of one second, and if
\* they differ a tick lies between them.
LEMMA ComparedKeepsTime ==
  ASSUME PortBAssumption, TimeIInv, TimeCompared
  PROVE  TimeIInv'
<1> DEFINE bytes == time.bytes
           from == time.from
           next == After(from)
           low == Half(bytes, 0)
           high == Half(bytes, 1)
<1>1. /\ time.tries > 0 /\ time.tries \in 0..2 /\ from \in Counter
      /\ bytes \in Seq(Byte) /\ Len(bytes) = 2 * CounterBytes
      /\ meant.seconds = IF counts.ticked THEN next ELSE from
      /\ DOMAIN time = {"bytes", "tries", "from", "answer"}
  <2>1. Len(TimeCalls) = 2 * CounterBytes
    BY DEF TimeCalls, PortBAssumption
  <2>2. time.tries > 0 /\ Len(bytes) = Len(TimeCalls)
    BY DEF TimeCompared
  <2>3. bytes \in Seq(Byte)
    BY <2>2 DEF TimeIInv
  <2> QED BY <2>1, <2>2, <2>3 DEF TimeIInv
<1>2. PICK t \in 0..(2 * CounterBytes) : ReadSoFar(t)
  BY <1>1 DEF TimeIInv
<1>3. next \in Counter /\ CounterBytes \in 1..4
  BY <1>1, AfterIs DEF PortBAssumption
<1>4. UNCHANGED <<meant, counts>>
  BY DEF TimeCompared
<1> HIDE DEF next
<1>5. \A n \in 1..(2 * CounterBytes) : bytes[n] = ByteAt(IF n <= t THEN from ELSE next, n)
  BY <1>1, <1>2 DEF ReadSoFar, next
<1>6. /\ low \in Seq(Byte) /\ Len(low) = CounterBytes
      /\ high \in Seq(Byte) /\ Len(high) = CounterBytes
      /\ \A n \in 1..CounterBytes : low[n] = bytes[n]
      /\ \A n \in 1..CounterBytes : high[n] = bytes[CounterBytes + n]
      /\ \A x, n : n \in 1..CounterBytes => ByteAt(x, CounterBytes + n) = ByteAt(x, n)
  BY <1>1, HalvesAre
<1> HIDE DEF low, high
<1>7. t >= CounterBytes => \A n \in 1..CounterBytes : low[n] = ByteAt(from, n)
  BY <1>3, <1>5, <1>6
<1>8. ASSUME t <= CounterBytes, NEW n \in 1..CounterBytes
      PROVE  high[n] = ByteAt(next, n)
  <2>1. CounterBytes + n \in 1..(2 * CounterBytes) /\ ~(CounterBytes + n <= t)
    BY <1>2, <1>3, <1>8
  <2>2. bytes[CounterBytes + n] = ByteAt(next, CounterBytes + n)
    BY <1>5, <2>1
  <2> QED BY <1>6, <2>2
<1>9. CASE low = high
  <2>1. Number(low) \in {from, next}
    <3>1. CASE t >= CounterBytes
      BY <1>1, <1>6, <1>7, <3>1, NumberIs
    <3>2. CASE t <= CounterBytes
      BY <1>3, <1>6, <1>8, <1>9, <3>2, NumberIs
    <3> QED BY <1>2, <1>3, <3>1, <3>2
  <2>2. time' = [NoTime EXCEPT !.from = time.from, !.answer = <<Number(low)>>]
    BY <1>9 DEF TimeCompared, low, high
  <2> DEFINE answer == Number(low)
  <2> HIDE DEF answer
  <2>3. time' = [bytes |-> <<>>, tries |-> 0, from |-> from, answer |-> <<answer>>]
    BY <2>2 DEF NoTime, answer
  <2>4. /\ DOMAIN time' = {"bytes", "tries", "from", "answer"} /\ time'.tries = 0
        /\ time'.from = from /\ time'.answer[1] = answer
    BY <2>3
  <2> QED BY <1>1, <1>4, <2>1, <2>4 DEF TimeIInv, answer, next
<1>10. CASE low # high
  <2>1. t # 0
    <3>1. SUFFICES ASSUME t = 0 PROVE FALSE
      OBVIOUS
    <3>2. \A n \in 1..CounterBytes : low[n] = ByteAt(next, n)
      BY <1>3, <1>5, <1>6, <3>1
    <3>3. \A n \in 1..CounterBytes : low[n] = high[n]
      BY <1>3, <1>8, <3>1, <3>2
    <3> QED BY <1>6, <1>10, <3>3
  <2>2. t # 2 * CounterBytes
    <3>1. SUFFICES ASSUME t = 2 * CounterBytes PROVE FALSE
      OBVIOUS
    <3>2. ASSUME NEW n \in 1..CounterBytes PROVE high[n] = ByteAt(from, n)
      <4>1. CounterBytes + n \in 1..(2 * CounterBytes) /\ CounterBytes + n <= t
        BY <1>3, <3>1
      <4>2. bytes[CounterBytes + n] = ByteAt(from, CounterBytes + n)
        BY <1>5, <4>1
      <4> QED BY <1>6, <4>2
    <3>3. \A n \in 1..CounterBytes : low[n] = high[n]
      BY <1>3, <1>7, <3>1, <3>2
    <3> QED BY <1>6, <1>10, <3>3
  <2>3. counts.ticked /\ time.tries = 1
    BY <1>1, <1>2, <2>1, <2>2 DEF ReadSoFar
  <2>4. time' = [time EXCEPT !.bytes = <<>>, !.tries = 2]
    BY <1>10, <2>3 DEF TimeCompared, low, high
  <2>5. /\ DOMAIN time' = {"bytes", "tries", "from", "answer"} /\ time'.tries = 2
        /\ time'.from = from /\ time'.bytes = <<>>
    BY <1>1, <2>4
  <2>6. <<>> \in Seq(Byte) /\ Len(<<>>) = 0
    BY EmptySeq
  <2>7. ReadSoFar(0)'
    BY <1>4, <2>3, <2>5, <2>6 DEF ReadSoFar
  <2>8. 0 \in 0..Len(time'.bytes) /\ Len(time'.bytes) <= 2 * CounterBytes
    BY <1>3, <2>5, <2>6
  <2>9. meant'.seconds = IF counts'.ticked THEN After(time'.from) ELSE time'.from
    BY <1>1, <1>4, <2>5 DEF next
  <2>10. \E i \in 0..Len(time'.bytes) : ReadSoFar(i)'
    BY <2>7, <2>8
  <2>11. meant'.seconds \in Counter /\ "ticked" \in DOMAIN counts' /\ counts'.ticked \in BOOLEAN
    BY <1>4 DEF TimeIInv
  <2> QED BY <1>1, <2>5, <2>6, <2>8, <2>9, <2>10, <2>11 DEF TimeIInv
<1> QED BY <1>9, <1>10

\* A byte of the counter is read: of the second it started from until the
\* tick, of the next one after it.
LEMMA ByteKeepsTime ==
  ASSUME PortBAssumption, IsChip(clock), meant = Contents(clock), TimeIInv, TimeByte
  PROVE  TimeIInv'
<1> DEFINE bytes == time.bytes
           from == time.from
           next == After(from)
           k == Len(bytes) + 1
           got == Exchanged(clock, TimeCalls[k]).got
<1>1. /\ time.tries > 0 /\ time.tries \in 0..2 /\ from \in Counter
      /\ bytes \in Seq(Byte) /\ Len(bytes) \in Nat /\ k \in 1..(2 * CounterBytes)
      /\ meant.seconds = IF counts.ticked THEN next ELSE from
      /\ DOMAIN time = {"bytes", "tries", "from", "answer"}
  <2>1. Len(TimeCalls) = 2 * CounterBytes /\ CounterBytes \in 1..4
    BY DEF TimeCalls, PortBAssumption
  <2>2. time.tries > 0 /\ Len(bytes) < Len(TimeCalls)
    BY DEF TimeByte
  <2>3. bytes \in Seq(Byte)
    BY <2>2 DEF TimeIInv
  <2>4. Len(bytes) \in Nat
    BY <2>3
  <2> QED BY <2>1, <2>2, <2>3, <2>4 DEF TimeIInv
<1>2. PICK t \in 0..Len(bytes) : ReadSoFar(t)
  BY <1>1 DEF TimeIInv
<1>3. got = ByteAt(meant.seconds, k)
  <2> HIDE DEF k
  <2>1. got = Clock!ByteOf(clock.seconds, CounterBytes - 1 - ((k - 1) % CounterBytes))
    BY <1>1, TimeByteIs
  <2> QED BY <2>1 DEF ByteAt, Contents
<1>4. /\ time' = [time EXCEPT !.bytes = Append(@, got)] /\ UNCHANGED <<meant, counts>>
  BY DEF TimeByte
<1> HIDE DEF got, next
<1>5. got \in Byte
  <2>1. meant.seconds \in Counter
    BY DEF TimeIInv
  <2> QED BY <1>1, <1>3, <2>1, ByteAtIs
<1> DEFINE longer == Append(bytes, got)
<1>6. /\ longer \in Seq(Byte) /\ Len(longer) = k /\ longer[k] = got
      /\ \A n \in 1..Len(bytes) : longer[n] = bytes[n]
  BY <1>1, <1>5, AppendProperties
<1> HIDE DEF longer
<1>7. /\ DOMAIN time' = {"bytes", "tries", "from", "answer"} /\ time'.tries = time.tries
      /\ time'.from = from /\ time'.bytes = longer
  BY <1>1, <1>4 DEF longer
<1>8. PICK u \in 0..k : u = IF counts.ticked THEN t ELSE k
  BY <1>1, <1>2
<1>9. ReadSoFar(u)'
  <2>1. ASSUME NEW n \in 1..k
        PROVE  longer[n] = ByteAt(IF n <= u THEN from ELSE next, n)
    <3>1. CASE n = k
      <4>1. longer[n] = ByteAt(IF counts.ticked THEN next ELSE from, k)
        BY <1>1, <1>3, <1>6, <3>1
      <4>2. counts.ticked => ~(k <= u)
        BY <1>1, <1>2, <1>8
      <4>3. ~counts.ticked => k <= u
        BY <1>1, <1>8
      <4> QED BY <3>1, <4>1, <4>2, <4>3
    <3>2. CASE n # k
      <4>1. n \in 1..Len(bytes)
        BY <1>1, <3>2
      <4>2. longer[n] = ByteAt(IF n <= t THEN from ELSE next, n)
        BY <1>2, <1>6, <4>1 DEF ReadSoFar, next
      <4>3. ~counts.ticked => t = Len(bytes)
        BY <1>2 DEF ReadSoFar
      <4>4. (n <= u) <=> (n <= t)
        BY <1>1, <1>2, <1>8, <4>1, <4>3
      <4> QED BY <4>2, <4>4
    <3> QED BY <3>1, <3>2
  <2>2. ~counts.ticked => u = k
    BY <1>8
  <2>3. time.tries = 2 => u = 0 /\ counts.ticked
    BY <1>2, <1>8 DEF ReadSoFar
  <2> HIDE DEF k
  <2>4. \A n \in 1..Len(time'.bytes) :
          time'.bytes[n] = ByteAt(IF n <= u THEN time'.from ELSE After(time'.from), n)
    BY <1>6, <1>7, <2>1 DEF next
  <2>5. ~counts'.ticked => u = Len(time'.bytes)
    BY <1>4, <1>6, <1>7, <2>2
  <2>6. time'.tries = 2 => u = 0 /\ counts'.ticked
    BY <1>4, <1>7, <2>3
  <2> QED BY ONLY <2>4, <2>5, <2>6 DEF ReadSoFar
<1> HIDE DEF k
<1>10. \E i \in 0..Len(time'.bytes) : ReadSoFar(i)'
  <2>1. u \in 0..Len(time'.bytes)
    BY <1>6, <1>7, <1>8
  <2> QED BY ONLY <2>1, <1>9
<1>11. meant'.seconds \in Counter /\ "ticked" \in DOMAIN counts' /\ counts'.ticked \in BOOLEAN
  BY <1>4 DEF TimeIInv
<1>12. meant'.seconds = IF counts'.ticked THEN After(time'.from) ELSE time'.from
  BY <1>1, <1>4, <1>7 DEF next
<1>13. Len(time'.bytes) <= 2 * CounterBytes
  BY <1>1, <1>6, <1>7
<1> QED BY <1>1, <1>6, <1>7, <1>10, <1>11, <1>12, <1>13 DEF TimeIInv

\* What is counted of the time when no reading of it is under way.
NotReading(t) == DOMAIN t = {"bytes", "tries", "from", "answer"} /\ t.tries = 0

LEMMA NoTimeIs ==
  ASSUME PortBAssumption
  PROVE  NotReading(NoTime) /\ NoTime.answer = <<>> /\ NoTime.from \in Counter
<1> DEFINE size == 256^CounterBytes
<1>1. size \in {256, 65536, 16777216, 4294967296}
  BY Moduli
<1> HIDE DEF size
<1>2. Counter = 0..(size - 1)
  BY DEF Counter, size
<1>3. 0 \in Counter
  BY ONLY <1>1, <1>2, SMT
<1> QED BY <1>3 DEF NotReading, NoTime

LEMMA FirstIsCounted ==
  ASSUME PortBAssumption
  PROVE  FirstSecond \in Counter
<1> QED BY DEF PortBAssumption, Counter

\* The time is not being read, and what the routines mean the counter to be
\* is one that it can show.
LEMMA NotReadingKeeps ==
  ASSUME TimeIInv, NotReading(time), time' = time, counts' = counts,
         meant'.seconds \in Counter
  PROVE  TimeIInv'
<1> QED BY DEF TimeIInv, NotReading

\* Nothing about the time changes.
LEMMA TimeStays ==
  ASSUME TimeIInv, UNCHANGED <<meant, time>>, counts'.ticked = counts.ticked,
         DOMAIN counts' = DOMAIN counts
  PROVE  TimeIInv'
<1>1. \A t : ReadSoFar(t) => ReadSoFar(t)'
  BY DEF ReadSoFar
<1> QED BY <1>1 DEF TimeIInv

LEMMA TimeInit ==
  ASSUME PortBAssumption, PortBInit
  PROVE  TimeIInv
<1>1. NotReading(time) /\ time.answer = <<>> /\ time.from \in Counter
  BY NoTimeIs DEF PortBInit
<1>2. meant.seconds \in Counter
  BY FirstIsCounted DEF PortBInit
<1>3. "ticked" \in DOMAIN counts /\ counts.ticked \in BOOLEAN
  BY DEF PortBInit
<1> QED BY <1>1, <1>2, <1>3 DEF TimeIInv, NotReading

\* A second passes: during a reading, at most once.
LEMMA TickKeepsTime ==
  ASSUME PortBAssumption, ClockIInv, TimeIInv, TickSecond
  PROVE  TimeIInv'
<1>1. /\ meant' = [meant EXCEPT !.seconds = (@ + 1) % 256^CounterBytes]
      /\ counts' = [counts EXCEPT !.ticks = @ + 1, !.ticked = TRUE]
      /\ UNCHANGED time /\ (time.tries > 0 => ~counts.ticked)
  BY DEF TickSecond
<1>2. /\ meant.seconds \in Counter /\ "seconds" \in DOMAIN meant
  BY DEF TimeIInv, ClockIInv, Contents
<1>3. meant'.seconds = After(meant.seconds) /\ After(meant.seconds) \in Counter
  BY <1>1, <1>2, AfterIs DEF After
<1>4. "ticked" \in DOMAIN counts' /\ counts'.ticked = TRUE
  BY <1>1 DEF TimeIInv
<1>5. CASE time.tries = 0
  BY <1>1, <1>3, <1>4, <1>5 DEF TimeIInv
<1>6. CASE time.tries > 0
  <2>1. ~counts.ticked /\ meant.seconds = time.from
    BY <1>1, <1>6 DEF TimeIInv
  <2>2. PICK t \in 0..Len(time.bytes) : ReadSoFar(t)
    BY <1>6 DEF TimeIInv
  <2>3. ReadSoFar(t)'
    BY <1>1, <1>4, <2>1, <2>2 DEF ReadSoFar
  <2>4. \E i \in 0..Len(time'.bytes) : ReadSoFar(i)'
    BY <1>1, <2>2, <2>3
  <2> QED BY <1>1, <1>3, <1>4, <2>1, <2>4 DEF TimeIInv
<1>7. time.tries \in 0..2
  BY DEF TimeIInv
<1> QED BY <1>5, <1>6, <1>7

\* The time begins to be read.
LEMMA ReadingStarts ==
  ASSUME PortBAssumption, TimeIInv, TimeStarts
  PROVE  TimeIInv'
<1>1. /\ time' = [bytes |-> <<>>, tries |-> 1, from |-> meant.seconds, answer |-> <<>>]
      /\ counts' = [counts EXCEPT !.busy = @ + 1, !.ticked = FALSE] /\ UNCHANGED meant
  BY DEF TimeStarts, NoTime
<1>2. "ticked" \in DOMAIN counts' /\ counts'.ticked = FALSE
  BY <1>1 DEF TimeIInv
<1>3. /\ DOMAIN time' = {"bytes", "tries", "from", "answer"} /\ time'.tries = 1
      /\ time'.from = meant.seconds /\ time'.bytes = <<>>
  BY <1>1
<1>4. <<>> \in Seq(Byte) /\ Len(<<>>) = 0
  BY EmptySeq
<1>5. ReadSoFar(0)'
  BY <1>2, <1>3, <1>4 DEF ReadSoFar
<1>6. 0 \in 0..Len(time'.bytes) /\ Len(time'.bytes) <= 2 * CounterBytes
  BY <1>3, <1>4 DEF PortBAssumption
<1>7. \E i \in 0..Len(time'.bytes) : ReadSoFar(i)'
  BY <1>5, <1>6
<1>8. meant'.seconds \in Counter /\ time'.from \in Counter
  BY <1>1, <1>3 DEF TimeIInv
<1> QED BY <1>1, <1>2, <1>3, <1>4, <1>6, <1>7, <1>8 DEF TimeIInv

\* A routine writes to the port: its last bit but one may set the counter.
LEMMA WriteKeepsTime ==
  ASSUME PortBAssumption, ClockIInv, TimeIInv, RoutineWrites
  PROVE  TimeIInv'
<1> DEFINE call == routine.call[1]
<1>1. /\ routine.call # <<>> /\ UNCHANGED <<time, counts>>
      /\ meant' = IF Committed(call) THEN Meaning(meant, call) ELSE meant
  BY DEF RoutineWrites
<1>2. call \in Calls /\ time.tries = 0
  BY <1>1 DEF ClockIInv, RoutineFollows
<1>3. meant = [memory |-> meant.memory, seconds |-> meant.seconds,
               protected |-> meant.protected]
  BY DEF ClockIInv, Contents
<1>4. meant.seconds \in Counter /\ NotReading(time)
  BY <1>2 DEF TimeIInv, NotReading
<1> HIDE DEF call
<1>5. Meaning(meant, call).seconds \in Counter
  BY ONLY PortBAssumption, <1>2, <1>3, <1>4, MeaningStays
<1>6. meant'.seconds \in Counter
  BY <1>1, <1>4, <1>5
<1> QED BY <1>1, <1>4, <1>6, NotReadingKeeps

LEMMA TimeStep ==
  ASSUME PortBAssumption, ClockIInv, TimeIInv, [PortBNext]_portBVars
  PROVE  TimeIInv'
<1>1. CASE RoutineWrites
  BY <1>1, WriteKeepsTime
<1>2. CASE RoutineReads
  BY <1>2, TimeStays DEF RoutineReads
<1>3. ASSUME NEW call \in Calls, RoutineStarts(call) PROVE TimeIInv'
  <2>1. counts'.ticked = counts.ticked /\ DOMAIN counts' = DOMAIN counts
    BY <1>3 DEF RoutineStarts
  <2> QED BY <1>3, <2>1, TimeStays DEF RoutineStarts
<1>4. CASE TimeStarts
  BY <1>4, ReadingStarts
<1>5. CASE TimeByte
  BY <1>5, ByteKeepsTime DEF ClockIInv
<1>6. CASE TimeCompared
  BY <1>6, ComparedKeepsTime
<1>7. CASE TickSecond
  BY <1>7, TickKeepsTime
<1>8. ASSUME NEW dy \in {-1, 1}, MoveReads(dy) PROVE TimeIInv'
  <2>1. counts'.ticked = counts.ticked /\ DOMAIN counts' = DOMAIN counts
    BY <1>8 DEF MoveReads
  <2> QED BY <1>8, <2>1, TimeStays DEF MoveReads
<1>9. CASE MoveWrites
  BY <1>9, TimeStays DEF MoveWrites
<1>10. CASE LineTick
  BY <1>10, TimeStays DEF LineTick
<1>11. CASE HandlerEnters
  BY <1>11, TimeStays DEF HandlerEnters
<1>12. CASE HandlerReads
  BY <1>12, TimeStays DEF HandlerReads
<1>13. CASE ButtonPolled
  BY <1>13, TimeStays DEF ButtonPolled
<1>14. CASE Boot
  BY <1>14, TimeStays DEF Boot
<1>15. ASSUME time' = NoTime, meant'.seconds \in Counter,
              "ticked" \in DOMAIN counts', counts'.ticked \in BOOLEAN
       PROVE  TimeIInv'
  <2>1. NotReading(time') /\ time'.answer = <<>> /\ time'.from \in Counter
    BY <1>15, NoTimeIs
  <2> QED BY <1>15, <2>1 DEF TimeIInv, NotReading
<1>16. "ticked" \in DOMAIN counts /\ counts.ticked \in BOOLEAN /\ meant.seconds \in Counter
  BY DEF TimeIInv
<1>17. CASE MachineReset
  <2>1. time' = NoTime /\ meant' = meant /\ counts' = [counts EXCEPT !.resets = @ + 1]
    BY <1>17 DEF MachineReset
  <2> QED BY <1>15, <1>16, <2>1
<1>18. CASE Restart
  <2>1. /\ time' = NoTime /\ counts' = [counts EXCEPT !.starts = @ + 1]
        /\ meant'.seconds = FirstSecond
    BY <1>18 DEF Restart
  <2> QED BY <1>15, <1>16, <2>1, FirstIsCounted
<1>19. CASE UNCHANGED portBVars
  BY <1>19, TimeStays DEF portBVars
<1> QED BY ONLY <1>1, <1>2, <1>3, <1>4, <1>5, <1>6, <1>7, <1>8, <1>9, <1>10, <1>11, <1>12,
                <1>13, <1>14, <1>17, <1>18, <1>19, [PortBNext]_portBVars DEF PortBNext

\* The invariant of the clock and of the reading of it.
THEOREM ClockIsInvariant == PortBSpec => [](ClockIInv /\ TimeIInv)
<1>1. PortBInit => ClockIInv /\ TimeIInv
  BY PortBAssumption, ClockInit, TimeInit
<1>2. ClockIInv /\ TimeIInv /\ [PortBNext]_portBVars => (ClockIInv /\ TimeIInv)'
  BY PortBAssumption, ClockStep, TimeStep
<1> QED BY <1>1, <1>2, PTL DEF PortBSpec

\* Each routine of the clock is taken whole or not at all: the memory, the
\* counter and the protection of the chip are what the routines that finished
\* meant, whatever cut the others short, and after a new start of the program
\* (src/component/rtc.go, SetLines; src/via.go, writePortB).
THEOREM ClockIsTaken == PortBSpec => []TakenWhole
<1>1. ClockIInv => TakenWhole
  <2> SUFFICES ASSUME ClockIInv PROVE TakenWhole
    OBVIOUS
  <2>1. meant = Contents(clock)
    BY DEF ClockIInv
  <2>2. routine.right
    BY DEF ClockIInv, RoutineFollows
  <2> QED BY <2>1, <2>2 DEF TakenWhole, Contents
<1> QED BY <1>1, ClockIsInvariant, PTL

\* The time the machine reads is one the clock showed while it was read, and
\* a second that passes meanwhile costs it one more reading at most
\* (src/component/rtc.go, TickSecond).
THEOREM TimeIsTrue == PortBSpec => []TimeIsRead
<1>1. TimeIInv => TimeIsRead
  BY DEF TimeIInv, TimeIsRead, After
<1> QED BY <1>1, ClockIsInvariant, PTL
=============================================================================
