-------------------------------- MODULE RTC --------------------------------
(***************************************************************************)
(* The real time clock (src/component/rtc.go), as operators on its record: *)
(* the serial protocol on three lines, a bit at each change of the clock   *)
(* line, the parameter RAM and its extension, the counter of the seconds   *)
(* and the write protection.  A byte is a number and its bits are counted  *)
(* from the low one.                                                       *)
(***************************************************************************)
EXTENDS Integers, Sequences

CONSTANTS Extended,      \* the addresses of the extended RAM in use
          CounterBytes,  \* bytes of the counter of the seconds, 4 in the chip
          WallClock      \* whether the counter is the host's

Bit(value, n) == (value \div 2^n) % 2 = 1

\* The classic bytes lie at $10 and at $08 of the extended RAM.
IsClassic(address) == address \in 16..31 \union 8..11
Classic(address) == IF address >= 16 THEN address - 16 ELSE 16 + address - 8

DefaultPram == [i \in 0..19 |-> IF i = 3 THEN 34 ELSE 0]

Fresh == [pram |-> DefaultPram, xpram |-> [a \in Extended |-> 0],
          seconds |-> 0, writeProtected |-> FALSE,
          enabled |-> FALSE, clock |-> FALSE,
          shiftIn |-> 0, bitCount |-> 0, command |-> 0, hasCommand |-> FALSE,
          shiftOut |-> 0, sending |-> FALSE, outBit |-> FALSE,
          extendedStage |-> "idle", extendedAddress |-> 0,
          saving |-> FALSE]

ReadXpram(r, address) ==
    IF IsClassic(address) THEN r.pram[Classic(address)] ELSE r.xpram[address]

\* What is saved: the extended RAM, the classic bytes in their places.
Image(r) == [pram |-> r.pram, xpram |-> r.xpram]
LoadPram(r, image) == [r EXCEPT !.pram = image.pram, !.xpram = image.xpram]

\* A save cut at twenty bytes, which a start takes for the classic ones alone.
CutImage(r) ==
    [pram |-> [place \in 0..19 |->
                  IF IsClassic(place) \/ place \in Extended
                  THEN ReadXpram(r, place) ELSE 0],
     xpram |-> Fresh.xpram]

\* The option of the program decides the port use, whatever was saved.
SetAppleTalk(r, on) == [r EXCEPT !.pram[3] = IF on THEN 33 ELSE 34]

TickSecond(r) ==
    IF WallClock THEN r
    ELSE [r EXCEPT !.seconds = (@ + 1) % 256^CounterBytes]

-----------------------------------------------------------------------------
(* Commands. *)

\* Mutant of DecodeCommand: the counter answers to one of its groups.
DecodeOneGroup(command) ==
    LET index == (command \div 4) % 4
        group == (command \div 16) % 4
    IN  CASE command % 4 # 1 -> <<"none", 0>>
          [] command % 4 = 1 /\ Bit(command, 6) ->
                 <<"pram", (command \div 4) % 16>>
          [] OTHER -> IF group = 0 THEN <<"seconds", index>>
                      ELSE IF group = 2 THEN <<"pram", 16 + index>>
                      ELSE IF group = 3 /\ index = 1 THEN <<"protect", 0>>
                      ELSE <<"none", 0>>

\* The register a command reaches: bit 6 picks the sixteen low bytes, and
\* bits 5 and 4 a group, two of which are the seconds.
DecodeCommand(command) ==
    LET index == (command \div 4) % 4
        group == (command \div 16) % 4
    IN  CASE command % 4 # 1 -> <<"none", 0>>
          [] command % 4 = 1 /\ Bit(command, 6) ->
                 <<"pram", (command \div 4) % 16>>
          [] OTHER -> CASE group \in {0, 1} -> <<"seconds", index>>
                        [] group = 2 -> <<"pram", 16 + index>>
                        [] group = 3 /\ index = 0 -> <<"test", 0>>
                        [] group = 3 /\ index = 1 -> <<"protect", 0>>
                        [] OTHER -> <<"none", 0>>

ByteOf(number, index) == (number \div 256^index) % 256

\* Only the seconds and the parameter RAM can be read.
ReadRegister(r, counter) ==
    LET target == DecodeCommand(r.command)
    IN  CASE target[1] = "seconds" /\ target[2] < CounterBytes ->
                 ByteOf(counter, target[2])
          [] target[1] = "pram" -> r.pram[target[2]]
          [] OTHER -> 0

\* A byte that changes the parameter RAM has it saved.
WriteRegister(r, value) ==
    LET target == DecodeCommand(r.command)
        index == target[2]
    IN  CASE target[1] = "protect" ->
                 [r EXCEPT !.writeProtected = Bit(value, 7)]
          [] target[1] = "seconds" /\ ~r.writeProtected /\ ~WallClock
                                   /\ index < CounterBytes ->
                 [r EXCEPT !.seconds =
                     @ + (value - ByteOf(@, index)) * 256^index]
          [] target[1] = "pram" /\ ~r.writeProtected ->
                 [r EXCEPT !.pram[index] = value,
                           !.saving = @ \/ r.pram[index] # value]
          [] OTHER -> r

WriteXpram(r, address, value) ==
    IF r.writeProtected \/ ReadXpram(r, address) = value
    THEN r
    ELSE [r EXCEPT !.pram = IF IsClassic(address)
                            THEN [@ EXCEPT ![Classic(address)] = value] ELSE @,
                   !.xpram = IF IsClassic(address)
                             THEN @ ELSE [@ EXCEPT ![address] = value],
                   !.saving = TRUE]

-----------------------------------------------------------------------------
(* The serial line. *)

BeginTransaction(r) ==
    [r EXCEPT !.shiftIn = 0, !.bitCount = 0, !.hasCommand = FALSE,
              !.extendedStage = "idle", !.sending = FALSE, !.outBit = TRUE]

EndTransaction(r) ==
    [r EXCEPT !.sending = FALSE, !.hasCommand = FALSE,
              !.extendedStage = "idle", !.bitCount = 0]

Answer(r, value) ==
    [r EXCEPT !.shiftOut = value, !.sending = TRUE, !.bitCount = 0,
              !.outBit = Bit(value, 7)]

\* A whole byte from the processor: the command, and what follows it.
ByteIn(r, value, counter) ==
    CASE ~r.hasCommand ->
           LET known == [r EXCEPT !.command = value, !.hasCommand = TRUE]
           IN  CASE (value \div 8) % 16 = 7 ->     \* an extended command
                      [known EXCEPT !.extendedStage = "address"]
                 [] (value \div 8) % 16 # 7 /\ Bit(value, 7) ->
                      Answer(known, ReadRegister(known, counter))
                 [] OTHER -> known
      [] r.hasCommand /\ r.extendedStage = "address" ->
           LET address == (r.command % 8) * 32 + ((value \div 4) % 32)
               placed == [r EXCEPT !.extendedAddress = address]
           IN  IF Bit(r.command, 7)
               THEN Answer([placed EXCEPT !.extendedStage = "idle"],
                           ReadXpram(r, address))
               ELSE [placed EXCEPT !.extendedStage = "data"]
      [] r.hasCommand /\ r.extendedStage = "data" ->
           WriteXpram([r EXCEPT !.extendedStage = "idle",
                                !.hasCommand = FALSE],
                      r.extendedAddress, value)
      [] OTHER -> [WriteRegister(r, value) EXCEPT !.hasCommand = FALSE]

\* One bit from the processor, high bit first.
ShiftInBit(r, bit, counter) ==
    LET value == 2 * r.shiftIn + (IF bit THEN 1 ELSE 0)
    IN  IF r.bitCount < 7
        THEN [r EXCEPT !.shiftIn = value, !.bitCount = @ + 1]
        ELSE ByteIn([r EXCEPT !.shiftIn = 0, !.bitCount = 0], value, counter)

\* The next bit of the answer; the last one is held until an edge past it.
ShiftOutBit(r) ==
    IF r.bitCount >= 8
    THEN [r EXCEPT !.sending = FALSE, !.hasCommand = FALSE, !.bitCount = 0]
    ELSE [r EXCEPT !.outBit = Bit(r.shiftOut, 7),
                   !.shiftOut = (2 * @) % 256,
                   !.bitCount = @ + 1]

\* Mutant of SetLines: the enable line is taken for low all the time.
SetLinesEnabled(r, lines, counter) ==
    LET on == [r EXCEPT !.enabled = TRUE, !.clock = lines.clock]
        rising == lines.clock /\ ~r.clock
    IN  CASE lines.clock = r.clock -> on
          [] lines.clock # r.clock /\ r.sending ->
                 IF rising THEN on ELSE ShiftOutBit(on)
          [] OTHER -> IF rising /\ lines.driving
                      THEN ShiftInBit(on, lines.data, counter) ELSE on

\* The three lines and the direction of the data line after a write to the
\* port B.  Raising the enable line ends whatever was in progress.
SetLines(r, lines, counter) ==
    LET begun == IF r.enabled THEN r ELSE BeginTransaction(r)
        on == [begun EXCEPT !.enabled = TRUE, !.clock = lines.clock]
        ended == IF r.enabled THEN EndTransaction(r) ELSE r
        rising == lines.clock /\ ~r.clock
    IN  CASE ~lines.enabled ->
                 [ended EXCEPT !.enabled = FALSE, !.clock = lines.clock]
          [] lines.enabled /\ lines.clock = r.clock -> on
          [] lines.enabled /\ lines.clock # r.clock /\ begun.sending ->
                 IF rising THEN on ELSE ShiftOutBit(on)
          [] OTHER -> IF rising /\ lines.driving
                      THEN ShiftInBit(on, lines.data, counter) ELSE on

\* The chip drives the data line only while it answers.
DataOut(r) == r.sending => r.outBit
=============================================================================
