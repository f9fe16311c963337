------------------------------- MODULE PortB -------------------------------
(***************************************************************************)
(* The port B of the VIA, where the real time clock and the quadrature of  *)
(* the mouse meet (src/via.go, src/mouse.go, src/component/rtc.go), with   *)
(* the file the parameter RAM is kept in.  The vertical axis of the mouse  *)
(* is modelled; its other line is the carrier detect of channel B of SCC.  *)
(* External are the ROM's routines: the clock's, which run with the        *)
(* interrupts off, the mouse's handler, which comes as soon as they are    *)
(* on, and the poll of the button.  A machine reset or the end of the      *)
(* program cuts any of them short.                                         *)
(***************************************************************************)
EXTENDS Integers, SequencesExt

CONSTANTS Extended, CounterBytes, WallClock,   \* of the clock, RTC
          MaxQueued, FifoSize,                 \* of the serial chip, SCC
          AppleTalk,      \* what the option of the program says
          Calls,          \* the clock routines the machine may run
          PendingLimit,   \* quadrature steps that can wait to be paid out
          FirstSecond,    \* the counter when the program starts
          MaxBusy,        \* bound: calls of the routines and moves of the mouse
          MaxTicks, MaxMachineResets, MaxStarts \* bounds

Clock == INSTANCE RTC
Serial == INSTANCE SCC

\* The counter is the chip's own.  The routines reach what is there and write
\* bytes; the counter is read by the routine that reads the time.
PortBAssumption ==
    /\ ~WallClock
    /\ CounterBytes \in 1..4
    /\ Extended \subseteq 0..255 \ (8..11 \union 16..31)
    /\ AppleTalk \in BOOLEAN
    /\ PendingLimit \in Nat
    /\ FirstSecond \in 0..(256^CounterBytes - 1)
    /\ Calls \subseteq
          [on : {"pram"}, at : 0..19, read : BOOLEAN, value : 0..255] \union
          [on : {"extended"}, at : Extended \union 8..11 \union 16..31,
           read : BOOLEAN, value : 0..255] \union
          [on : {"seconds"}, at : 0..(CounterBytes - 1), read : {FALSE},
           value : 0..255] \union
          [on : {"protect"}, at : {0}, read : {FALSE}, value : 0..255]
ASSUME PortBAssumption

VARIABLES clock,     \* the chip of the clock
          file,      \* the parameter RAM on the host: its image, or how it failed
          pins,      \* the port B as the processor drives it
          routine,   \* the clock routine under way: its call and its step
          time,      \* the reading of the time under way
          mouse,     \* the axis: pending, phase, edge
          moving,    \* the front end between reading pending and writing it
          scc,       \* the channel the axis interrupts on
          handler,   \* the mouse handler between its two reads
          meant,     \* history: the memory as the routines meant it
          kept,      \* history: the memory the file should give back
          travel,    \* history: transitions made, those the machine counted
          counts     \* what is bounded

portBVars == <<clock, file, pins, routine, time, mouse, moving, scc, handler,
          meant, kept, travel, counts>>

-----------------------------------------------------------------------------
(* The clock routines, as what they do to the port. *)

Pins(enabled, high, data, driving) ==
    [enabled |-> enabled, clock |-> high, data |-> data, driving |-> driving]
Set(enabled, high, data, driving) ==
    [op |-> "write", lines |-> Pins(enabled, high, data, driving)]
ReadPort == [op |-> "read", lines |-> Pins(TRUE, FALSE, TRUE, FALSE)]

\* A byte goes out high bit first, each bit in two steps of the clock line.
SendBit(byte, n) == Set(TRUE, n % 2 = 1, Clock!Bit(byte, 7 - n \div 2), TRUE)
Sent(bytes) ==
    [n \in 1..(16 * Len(bytes)) |->
        SendBit(bytes[(n + 15) \div 16], (n - 1) % 16)]
ReceiveByte ==
    <<Set(TRUE, TRUE, TRUE, FALSE)>> \o
    [n \in 1..24 |-> CASE n % 3 = 1 -> Set(TRUE, FALSE, TRUE, FALSE)
                       [] n % 3 = 2 -> ReadPort
                       [] OTHER -> Set(TRUE, TRUE, TRUE, FALSE)]
Start == <<Set(FALSE, TRUE, TRUE, TRUE), Set(TRUE, TRUE, TRUE, TRUE)>>
End == <<Set(FALSE, TRUE, TRUE, TRUE)>>

\* The bytes that name what a call reaches.
Direction(call) == IF call.read THEN 128 ELSE 0
SecondsCommand(call) == Direction(call) + 4 * call.at + 1
PramCommand(call) ==
    Direction(call) + 1 + (IF call.at >= 16 THEN 32 + 4 * (call.at % 4)
                                            ELSE 64 + 4 * call.at)
ExtendedCommand(call) ==
    <<Direction(call) + 56 + call.at \div 32, 4 * (call.at % 32)>>
CommandBytes(call) ==
    CASE call.on = "seconds" -> <<SecondsCommand(call)>>
      [] call.on = "pram" -> <<PramCommand(call)>>
      [] call.on = "protect" -> <<53>>
      [] OTHER -> ExtendedCommand(call)

BytesSent(call) == IF call.read THEN CommandBytes(call)
                               ELSE Append(CommandBytes(call), call.value)
Script(call) ==
    Start \o Sent(BytesSent(call))
          \o (IF call.read THEN ReceiveByte ELSE <<>>) \o End

\* The reading of the time: every byte of the counter through one of its
\* groups and then through the other, high bytes first.
TimeCalls ==
    [n \in 1..(2 * CounterBytes) |->
        [on |-> "seconds", read |-> TRUE, value |-> 0,
         at |-> CounterBytes - 1 - ((n - 1) % CounterBytes)
                    + (IF n <= CounterBytes THEN 4 ELSE 0)]]
Scripts == [call \in Calls \union ToSet(TimeCalls) |-> Script(call)]

-----------------------------------------------------------------------------
(* What the calls mean: a memory of 256 bytes and the seconds. *)

Place(call) == CASE call.on = "extended" -> call.at
                 [] call.on = "pram" /\ call.at < 16 -> 16 + call.at
                 [] OTHER -> 8 + call.at - 16
Places == Extended \union 8..11 \union 16..31
Memory(chip) == [place \in Places |-> Clock!ReadXpram(chip, place)]
Meaning(m, call) ==
    IF call.read \/ (m.protected /\ call.on # "protect") THEN m
    ELSE CASE call.on = "protect" -> [m EXCEPT !.protected = call.value >= 128]
           [] call.on = "seconds" ->
                  [m EXCEPT !.seconds =
                      @ + (call.value - Clock!ByteOf(@, call.at)) * 256^call.at]
           [] OTHER -> [m EXCEPT !.memory[Place(call)] = call.value]
Expected(m, call) ==
    IF call.on = "seconds" THEN Clock!ByteOf(m.seconds, call.at % 4)
                           ELSE m.memory[Place(call)]

-----------------------------------------------------------------------------
(* The port. *)

Idle == [call |-> <<>>, step |-> 0, got |-> 0, right |-> TRUE]
NoTime == [bytes |-> <<>>, tries |-> 0, from |-> 0, answer |-> <<>>]
Released == Pins(FALSE, TRUE, TRUE, FALSE)
Still == [pending |-> 0, phase |-> 0, edge |-> FALSE]
ApplyPortB(chip, lines) == Clock!SetLines(chip, lines, chip.seconds)

\* Saving the parameter RAM, what a byte that changes it has done: the host
\* may fail before or after it has cut the file, and then the program saves
\* no more.  A file cut where it looks like one of another kind is read.
SavePram(chip) ==
    /\ clock' = [chip EXCEPT !.saving = FALSE]
    /\ IF ~chip.saving \/ file.off
       THEN /\ kept' = IF file.off \/ meant'.memory = meant.memory
                       THEN kept ELSE <<meant'.memory>>
            /\ UNCHANGED file
       ELSE \/ /\ file' = [file EXCEPT !.image = <<Clock!Image(chip)>>]
               /\ kept' = <<meant'.memory>>
            \/ /\ file' = [file EXCEPT !.off = TRUE]
               /\ UNCHANGED kept
            \/ /\ file' = [off |-> TRUE, image |-> <<>>]
               /\ kept' = <<>>
            \/ /\ file' = [off |-> TRUE, image |-> <<Clock!CutImage(chip)>>]
               /\ kept' = <<Memory(Clock!CutImage(chip))>>

\* The processor reads the port, and the axis may move again.
QuadratureRead(m) == [m EXCEPT !.edge = FALSE]

\* A step of the clock routine under way.
Step(call) == Scripts[call][routine.step + 1]
Committed(call) == routine.step + 2 = Len(Scripts[call])
RoutineWrites ==
    /\ routine.call # <<>>
    /\ LET call == routine.call[1]
           over == routine.step + 1 = Len(Scripts[call])
       IN  /\ Step(call).op = "write"
           /\ pins' = Step(call).lines
           /\ meant' = IF Committed(call) THEN Meaning(meant, call) ELSE meant
           /\ SavePram(ApplyPortB(clock, Step(call).lines))
           /\ routine' =
                 IF over
                 THEN [Idle EXCEPT !.right =
                          call.read => routine.got = Expected(meant, call)]
                 ELSE [routine EXCEPT !.step = @ + 1]
    /\ UNCHANGED <<time, mouse, scc, handler, travel, counts, moving>>

RoutineReads ==
    /\ routine.call # <<>>
    /\ Step(routine.call[1]).op = "read"
    /\ routine' = [routine EXCEPT
                      !.step = @ + 1,
                      !.got = 2 * @ + (IF Clock!DataOut(clock) THEN 1 ELSE 0)]
    /\ mouse' = QuadratureRead(mouse)
    /\ travel' = [travel EXCEPT !.astray = @ \/ mouse.edge]
    /\ UNCHANGED <<clock, file, pins, time, scc, handler, meant, kept, counts, moving>>

RoutineStarts(call) ==
    /\ routine.call = <<>> /\ time.tries = 0 /\ handler = <<>>
    /\ counts.busy < MaxBusy
    /\ routine' = [Idle EXCEPT !.call = <<call>>]
    /\ counts' = [counts EXCEPT !.busy = @ + 1]
    /\ UNCHANGED <<clock, file, pins, time, mouse, scc, handler, meant, kept,
                   travel, moving>>

-----------------------------------------------------------------------------
(* Reading the time, a byte of the counter in each step: what a second that *)
(* passes in the middle of a byte changes is not in that byte any more.     *)

Exchange(state, do) ==
    IF do.op = "write"
    THEN [state EXCEPT !.chip = ApplyPortB(@, do.lines)]
    ELSE [state EXCEPT !.got = 2 * @ +
                           (IF Clock!DataOut(state.chip) THEN 1 ELSE 0)]
Exchanged(chip, call) ==
    FoldLeft(Exchange, [chip |-> chip, got |-> 0], Scripts[call])

Number(bytes) == FoldLeft(LAMBDA n, byte : 256 * n + byte, 0, bytes)
Half(bytes, n) == SubSeq(bytes, n * CounterBytes + 1, (n + 1) * CounterBytes)

TimeStarts ==
    /\ routine.call = <<>> /\ time.tries = 0 /\ handler = <<>>
    /\ counts.busy < MaxBusy
    /\ time' = [NoTime EXCEPT !.tries = 1, !.from = meant.seconds]
    /\ counts' = [counts EXCEPT !.busy = @ + 1, !.ticked = FALSE]
    /\ UNCHANGED <<clock, file, pins, routine, mouse, scc, handler, meant, kept,
                   travel, moving>>

TimeByte ==
    /\ time.tries > 0 /\ Len(time.bytes) < Len(TimeCalls)
    /\ LET after == Exchanged(clock, TimeCalls[Len(time.bytes) + 1])
       IN  /\ clock' = after.chip
           /\ time' = [time EXCEPT !.bytes = Append(@, after.got)]
    /\ pins' = Pins(FALSE, TRUE, TRUE, TRUE)
    /\ mouse' = QuadratureRead(mouse)
    /\ travel' = [travel EXCEPT !.astray = @ \/ mouse.edge]
    /\ UNCHANGED <<file, routine, scc, handler, meant, kept, counts, moving>>

\* The halves agree, or the counter is read again.
TimeCompared ==
    /\ time.tries > 0 /\ Len(time.bytes) = Len(TimeCalls)
    /\ time' = IF Half(time.bytes, 0) = Half(time.bytes, 1)
               THEN [NoTime EXCEPT !.from = time.from,
                                   !.answer = <<Number(Half(time.bytes, 0))>>]
               ELSE IF time.tries < 2
               THEN [time EXCEPT !.bytes = <<>>, !.tries = 2]
               ELSE [NoTime EXCEPT !.from = time.from, !.answer = <<-1>>]
    /\ UNCHANGED <<clock, file, pins, routine, mouse, scc, handler, meant, kept,
                   travel, counts, moving>>

\* A second of the machine; reading the time takes less than one.
TickSecond ==
    /\ counts.ticks < MaxTicks
    /\ time.tries > 0 => ~counts.ticked
    /\ clock' = Clock!TickSecond(clock)
    /\ meant' = [meant EXCEPT !.seconds = (@ + 1) % 256^CounterBytes]
    /\ counts' = [counts EXCEPT !.ticks = @ + 1, !.ticked = TRUE]
    /\ UNCHANGED <<file, pins, routine, time, mouse, scc, handler, kept, travel, moving>>

-----------------------------------------------------------------------------
(* The mouse. *)

Y1(phase) == phase \in {1, 2}
Y2(phase) == phase \in {2, 3}
ClampPending(n) == IF n > PendingLimit THEN PendingLimit
                   ELSE IF n < -PendingLimit THEN -PendingLimit ELSE n
Toward(n) == IF n > 0 THEN 1 ELSE -1

\* A pixel of the host is two steps, down being positive.  The front end
\* adds it from its own goroutine with nothing to keep the run loop out: a
\* step paid out between its read and its write is lost, or the movement is.
MoveReads(dy) ==
    /\ counts.busy < MaxBusy /\ moving = <<>>
    /\ moving' = <<mouse.pending, ClampPending(mouse.pending + 2 * dy)>>
    /\ counts' = [counts EXCEPT !.busy = @ + 1]
    /\ UNCHANGED <<clock, file, pins, routine, time, mouse, scc, handler, meant,
                   kept, travel>>
MoveWrites ==
    /\ moving # <<>>
    /\ mouse' \in {[mouse EXCEPT !.pending = moving[2]]} \union
                  IF mouse.pending = moving[1] THEN {} ELSE {mouse}
    /\ moving' = <<>>
    /\ UNCHANGED <<clock, file, pins, routine, time, scc, handler, meant, kept,
                   travel, counts>>

\* Mutant of MouseTick: the edge is not held for the read of the port.
MouseTickAnswered(m, canStep) ==
    LET next == (m.phase + Toward(m.pending) + 4) % 4
    IN  IF ~canStep \/ m.pending = 0 THEN m
        ELSE [pending |-> m.pending - Toward(m.pending), phase |-> next,
              edge |-> Y1(next) # Y1(m.phase)]

\* A step of the axis, unless an edge of it has not been looked at yet.
MouseTick(m, canStep) ==
    LET next == (m.phase + Toward(m.pending) + 4) % 4
    IN  IF ~canStep \/ m.edge \/ m.pending = 0 THEN m
        ELSE [pending |-> m.pending - Toward(m.pending), phase |-> next,
              edge |-> Y1(next) # Y1(m.phase)]

\* The mouse once a scan line: the line it interrupts on is active low.
LineTick ==
    LET moved == MouseTick(mouse, ~Serial!Pending(scc))
    IN  /\ mouse' = moved
        /\ scc' = Serial!SetDcd(scc, ~Y1(moved.phase))
        /\ travel' = IF Y1(moved.phase) = Y1(mouse.phase) THEN travel
                     ELSE [travel EXCEPT !.made = @ + Toward(mouse.pending)]
        /\ UNCHANGED <<clock, file, pins, routine, time, handler, meant, kept,
                       counts, moving>>

\* The interrupts are on between the clock routines.
Unmasked == routine.call = <<>> /\ time.tries = 0

\* The dispatch of the interrupt keeps which edge it was and resets it.
HandlerEnters ==
    /\ Unmasked /\ handler = <<>>
    /\ Serial!InterruptAsserted(Serial!Fresh, scc)
    /\ Serial!Vector(Serial!Fresh, scc) = "B external"
    /\ handler' = <<~scc.dcd>>
    /\ scc' = Serial!ResetExternalStatus(scc)
    /\ UNCHANGED <<clock, file, pins, routine, time, mouse, meant, kept, travel,
                   counts, moving>>

\* The handler reads the quadrature: a positive edge with the level high is up.
HandlerReads ==
    /\ handler # <<>>
    /\ LET down == handler[1] # Y2(mouse.phase)
       IN  travel' = [travel EXCEPT !.counted = @ + IF down THEN 1 ELSE -1]
    /\ mouse' = QuadratureRead(mouse)
    /\ handler' = <<>>
    /\ UNCHANGED <<clock, file, pins, routine, time, scc, meant, kept, counts, moving>>

\* Every frame the button is read, which is on the same port.
ButtonPolled ==
    /\ Unmasked /\ handler = <<>> /\ ~Serial!Interrupts(scc)
    /\ mouse' = QuadratureRead(mouse)
    /\ UNCHANGED <<clock, file, pins, routine, time, scc, handler, meant, kept,
                   travel, counts, moving>>

-----------------------------------------------------------------------------
(* Resets and starts. *)

\* After a reset the pins are let go and the pull ups raise the enable line.
MachineReset ==
    /\ counts.resets < MaxMachineResets
    /\ clock' = ApplyPortB(clock, Released)
    /\ pins' = Released
    /\ mouse' = Still
    /\ scc' = Serial!Fresh
    /\ routine' = Idle /\ time' = NoTime /\ handler' = <<>>
    /\ travel' = [made |-> 0, counted |-> 0, astray |-> FALSE]
    /\ counts' = [counts EXCEPT !.resets = @ + 1]
    /\ UNCHANGED <<file, meant, kept, moving>>

\* The system sets the serial chip up for the mouse, many lines after the
\* first.
Boot ==
    /\ Unmasked /\ handler = <<>> /\ scc.write[1] = {}
    /\ scc.dcd = ~Y1(mouse.phase)
    /\ scc' = Serial!SetRegister(Serial!SetRegister(scc, 1, {"external"}),
                                 15, {"dcd"})
    /\ travel' = [travel EXCEPT !.counted = travel.made]
    /\ UNCHANGED <<clock, file, pins, routine, time, mouse, handler, meant, kept,
                   counts, moving>>

\* The memory a program starts with.
Loaded(image) ==
    LET fresh == [Clock!Fresh EXCEPT !.seconds = FirstSecond]
        loaded == IF image = <<>> THEN fresh
                  ELSE Clock!LoadPram(fresh, image[1])
    IN  ApplyPortB(Clock!SetAppleTalk(loaded, AppleTalk), Released)
MemoryAtStart(remembered) ==
    [(IF remembered = <<>> THEN Memory(Clock!Fresh) ELSE remembered[1])
        EXCEPT ![19] = IF AppleTalk THEN 33 ELSE 34]

\* The program ends, at any point, and is started again.
Restart ==
    /\ counts.starts < MaxStarts
    /\ clock' = Loaded(file.image)
    /\ file' = [file EXCEPT !.off = FALSE]
    /\ meant' = [memory |-> MemoryAtStart(kept), seconds |-> FirstSecond,
                 protected |-> FALSE]
    /\ pins' = Released
    /\ mouse' = Still /\ scc' = Serial!Fresh
    /\ routine' = Idle /\ time' = NoTime /\ handler' = <<>>
    /\ travel' = [made |-> 0, counted |-> 0, astray |-> FALSE]
    /\ counts' = [counts EXCEPT !.starts = @ + 1]
    /\ moving' = <<>>
    /\ UNCHANGED kept

PortBInit ==
    /\ clock = Loaded(<<>>)
    /\ file = [off |-> FALSE, image |-> <<>>]
    /\ pins = Released
    /\ routine = Idle /\ time = NoTime
    /\ mouse = Still /\ moving = <<>> /\ scc = Serial!Fresh /\ handler = <<>>
    /\ meant = [memory |-> MemoryAtStart(<<>>), seconds |-> FirstSecond,
                protected |-> FALSE]
    /\ kept = <<>>
    /\ travel = [made |-> 0, counted |-> 0, astray |-> FALSE]
    /\ counts = [busy |-> 0, ticks |-> 0, ticked |-> FALSE,
                 resets |-> 0, starts |-> 0]

PortBNext ==
    \/ RoutineWrites \/ RoutineReads
    \/ \E call \in Calls : RoutineStarts(call)
    \/ TimeStarts \/ TimeByte \/ TimeCompared \/ TickSecond
    \/ \E dy \in {-1, 1} : MoveReads(dy)
    \/ MoveWrites
    \/ LineTick \/ HandlerEnters \/ HandlerReads \/ ButtonPolled
    \/ MachineReset \/ Boot \/ Restart

PortBSpec == PortBInit /\ [][PortBNext]_portBVars

-----------------------------------------------------------------------------
(* Properties. *)

\* A routine of the clock is taken whole or not at all: whatever was cut
\* short before it, and by what, each byte written is where the routine meant
\* it, in the memory and after a new start of the program, a write under the
\* protection changes nothing, and a byte read is the one kept there.
TakenWhole ==
    /\ Memory(clock) = meant.memory
    /\ clock.seconds = meant.seconds
    /\ clock.writeProtected = meant.protected
    /\ routine.right

\* The time read is one the clock showed while it was being read, and a
\* second that passes in the middle costs no more than one reading again.
TimeIsRead ==
    time.tries = 0 /\ time.answer # <<>> =>
        time.answer[1] \in {time.from, (time.from + 1) % 256^CounterBytes}

\* What the machine counts of the mouse is what it moved, but for an edge it
\* has not looked at yet: the direction read is that of the edge.  A read of
\* the port by a clock routine between the two lets the axis go early: of the
\* count after one, up to the next reset, nothing is said here.
PointerFollows ==
    \/ travel.astray
    \/ scc.write[1] = {}
    \/ travel.made - travel.counted =
           IF Serial!Pending(scc) \/ handler # <<>>
           THEN IF Y1(mouse.phase) # Y2(mouse.phase) THEN 1 ELSE -1
           ELSE 0
=============================================================================
