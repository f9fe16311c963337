-------------------------------- MODULE SCSI --------------------------------
(***************************************************************************)
(* The SCSI bus of the machine: the controller, scsi/bus.go, and the disks *)
(* attached to it, scsi/disk.go.                                           *)
(*                                                                         *)
(* The bytes of the commands are those of the code; a block is BlockSize   *)
(* bytes, and what a disk says of itself is cut to a byte or two.  The     *)
(* disk behind a target, storage/blockDisk.go, refuses a block past its    *)
(* end, and may fail on any other.                                         *)
(*                                                                         *)
(* The initiator is the driver of the Macintosh, as the comments of bus.go *)
(* tell what it does: it sees the lines and no more, puts on the data bus  *)
(* what the phase asks for, raises acknowledge only on a request, and uses *)
(* the pseudo DMA addresses in the data phases alone.  It may reset the    *)
(* bus at any time.                                                        *)
(***************************************************************************)
EXTENDS Integers, Sequences, FiniteSets

CONSTANTS
  Targets,      \* the ids with a disk attached
  ReadOnly,     \* those whose disk is read only
  Blocks,       \* the blocks of a disk
  BlockSize,    \* storage.BlockSize, 512 in the code
  ManyBlocks,   \* what a count of zero stands for in six bytes, 256 in the code
  BufferSize,   \* bufferSize, 64 K in the code
  HeaderLength, \* the header of a buffer and of a defect list, 4 in the code
  Data,         \* the bytes the initiator sends for data
  Ids,          \* the ids the initiator looks for a disk at
  Descriptors   \* the descriptor blocks it sends

InitiatorId == 7
Free == InitiatorId  \* no target holds the bus: selected is nil

Byte == 0..255

ASSUME SCSIAssumption ==
  /\ Targets \subseteq 0..InitiatorId - 1
  /\ ReadOnly \subseteq Targets
  /\ {Blocks, BlockSize, ManyBlocks, BufferSize, HeaderLength} \subseteq Nat \ {0}
  /\ Ids \subseteq 0..InitiatorId - 1
  /\ Data \subseteq Byte
  /\ 0 \in Data

\* The commands.
TestUnitReady == 0
RequestSense == 3
FormatUnit == 4
Read6 == 8
Write6 == 10
Inquiry == 18
ModeSelect6 == 21
ModeSense6 == 26
StartStopUnit == 27
PreventRemoval == 30
ReadCapacity == 37
Read10 == 40
Write10 == 42
WriteBuffer == 59
ReadBuffer == 60

\* The statuses and the sense keys.
Good == 0
CheckCondition == 2

NoSense == 0
MediumError == 3
IllegalRequest == 5
UnitAttention == 6
DataProtect == 7

\* The size of a descriptor block, by the group of its operation code.
CommandLengthOf(opcode) ==
  CASE opcode \div 32 \in {1, 2} -> 10
    [] opcode \div 32 = 5 -> 12
    [] OTHER -> 6

ASSUME DescriptorsAssumption ==
  Descriptors \subseteq {d \in Seq(Byte) : d # <<>> /\ Len(d) = CommandLengthOf(d[1])}

Line == {"data", "sel", "ack", "rst"}
Phase == {"busFree", "command", "dataIn", "dataOut", "status", "messageIn"}
Afterwards == {"write", "buffer", "ignore", "list"}

VARIABLES
  lines,       \* the lines initiatorCommand asserts
  outputData,  \* the data bus, as the initiator leaves it
  selected,    \* the target holding the bus
  target,      \* each target's own state
  medium,      \* the blocks behind each target
  before,      \* history: medium, when the target was selected
  sent,        \* history: the data the initiator has sent to it since
  taken        \* history: the data the initiator has taken from it since

vars == <<lines, outputData, selected, target, medium, before, sent, taken>>

PhaseOf(id) == target[id].phase
CurrentPhase == IF selected = Free THEN "busFree" ELSE PhaseOf(selected)

-----------------------------------------------------------------------------
(* What a target does with a byte.  A step of it is a record of the target *)
(* and its blocks as they become; where the disk may fail there are more   *)
(* than one.                                                               *)

Finished(t) ==
  [t EXCEPT !.status = Good, !.data = <<>>, !.phase = "status"]

Fail(t, key) ==
  [t EXCEPT !.sense = key, !.status = CheckCondition, !.data = <<>>, !.phase = "status"]

FailAt(t, block) == Fail([t EXCEPT !.info = block], MediumError)

\* Mutant of SendData: the data in phase is entered with nothing to send.
SendAll(t, data) ==
  [t EXCEPT !.data = data, !.index = 0, !.status = Good, !.phase = "dataIn"]

SendData(t, data) ==
  [t EXCEPT !.data = data, !.index = 0, !.status = Good,
            !.phase = IF data = <<>> THEN "status" ELSE "dataIn"]

AwaitData(t, length, after) ==
  [t EXCEPT !.data = [i \in 1..length |-> 0], !.index = 0,
            !.after = after, !.phase = "dataOut"]

\* The address and the length in a descriptor block.
Block(c) ==
  IF c[1] \div 32 = 0
    THEN (c[2] % 32) * 65536 + c[3] * 256 + c[4]
    ELSE c[3] * 16777216 + c[4] * 65536 + c[5] * 256 + c[6]

Count(c) ==
  IF c[1] \div 32 = 0
    THEN IF c[5] = 0 THEN ManyBlocks ELSE c[5]
    ELSE c[8] * 256 + c[9]

BufferLength(c) == c[7] * 65536 + c[8] * 256 + c[9]

\* How many blocks of a command the disk moves before it fails on one, or
\* all of them.  It fails on the first one past the end.
Moved(c) ==
  {n \in 0..Count(c) : n = 0 \/ Block(c) + n <= Blocks}

Step(t, blocks) == [target |-> t, blocks |-> blocks]

First(s, length) == SubSeq(s, 1, length)
Cut(s, length) == IF length < Len(s) THEN First(s, length) ELSE s
CutIfAny(s, length) == IF length > 0 THEN Cut(s, length) ELSE s

\* Chunk n of the data that arrived, the blocks being numbered from 0.
Chunk(data, n) == SubSeq(data, n * BlockSize + 1, (n + 1) * BlockSize)

\* Mutant of DataOfBlocks: every block read is the first.
FirstBlockOver(blocks, block, count) ==
  [i \in 1..count * BlockSize |-> blocks[block][((i - 1) % BlockSize) + 1]]

DataOfBlocks(blocks, block, count) ==
  [i \in 1..count * BlockSize |->
     blocks[block + ((i - 1) \div BlockSize)][((i - 1) % BlockSize) + 1]]

\* read
ReadBlocks(t, blocks) ==
  LET c == t.command IN
    {IF n = Count(c)
       THEN SendData([t EXCEPT !.sense = NoSense], DataOfBlocks(blocks, Block(c), n))
       ELSE FailAt(t, Block(c) + n) : n \in Moved(c)}

\* Mutant of Overwritten: the chunks are taken from the first block on.
OverwrittenFromZero(blocks, block, count, data) ==
  [b \in DOMAIN blocks |->
     IF b \in block..block + count - 1 THEN Chunk(data, 0) ELSE blocks[b]]

Overwritten(blocks, block, count, data) ==
  [b \in DOMAIN blocks |->
     IF b \in block..block + count - 1 THEN Chunk(data, b - block) ELSE blocks[b]]

\* completeWrite
CompleteWrite(t, blocks) ==
  LET c == t.command IN
    {Step(IF n = Count(c)
            THEN Finished([t EXCEPT !.sense = NoSense])
            ELSE FailAt(t, Block(c) + n),
          Overwritten(blocks, Block(c), n, t.data)) : n \in Moved(c)}

\* completeWriteBuffer: the header is skipped, and the rest is copied to the
\* buffer as far as it reaches.
HasHeader(c) == c[2] % 8 = 0

CompleteWriteBuffer(t) ==
  LET from == IF HasHeader(t.command) THEN HeaderLength ELSE 0
  IN  Finished([t EXCEPT !.buffer =
                  [i \in 1..BufferSize |->
                     IF from + i <= Len(t.data) THEN t.data[from + i] ELSE @[i]]])

\* The length of a defect list, in the last two bytes of its header.
ListLength(header) ==
  header[HeaderLength] +
    (IF HeaderLength > 1 THEN 256 * header[HeaderLength - 1] ELSE 0)

\* The defect list of a format, whose length the header tells.
ReceiveList(t, length) ==
  IF length = 0 THEN Finished(t) ELSE AwaitData(t, length, "ignore")

\* afterDataOut
AfterDataOut(t, blocks, after) ==
  CASE after = "write" -> CompleteWrite(t, blocks)
    [] after = "buffer" -> {Step(CompleteWriteBuffer(t), blocks)}
    [] after = "list" -> {Step(ReceiveList(t, ListLength(t.data)), blocks)}
    [] after = "ignore" -> {Step(Finished(t), blocks)}

\* receive
Receive(t, blocks, length, after) ==
  IF length = 0
    THEN AfterDataOut(t, blocks, after)
    ELSE {Step(AwaitData(t, length, after), blocks)}

\* write
WriteBlocks(id, t, blocks) ==
  IF id \in ReadOnly
    THEN {Step(Fail(t, DataProtect), blocks)}
    ELSE Receive(t, blocks, Count(t.command) * BlockSize, "write")

\* readBuffer: a header, the buffer, or both, as far as asked for.
HeaderBytes == [i \in 1..HeaderLength |-> IF i = HeaderLength THEN BufferSize ELSE 0]

ReadFromBuffer(t) ==
  LET mode == t.command[2] % 8
      data == CASE mode = 0 -> HeaderBytes \o t.buffer
                [] mode = 2 -> t.buffer
                [] mode = 3 -> HeaderBytes
                [] OTHER -> <<>>
  IN  IF mode \in {0, 2, 3}
        THEN SendData(t, Cut(data, BufferLength(t.command)))
        ELSE Fail(t, IllegalRequest)

\* writeBuffer
WriteToBuffer(t, blocks) ==
  IF t.command[2] % 8 \in {0, 2}
    THEN Receive(t, blocks, BufferLength(t.command), "buffer")
    ELSE {Step(Fail(t, IllegalRequest), blocks)}

\* senseData: the sense is cleared once it has been read.
SendSense(t) == SendData([t EXCEPT !.sense = NoSense, !.info = 0], <<t.sense, t.info>>)

\* inquiryData, capacityData and modeSenseData, a byte or two of each.
InquiryData == <<0, 2>>
CapacityData == <<Blocks - 1, BlockSize>>
ModeSenseData(id) == <<IF id \in ReadOnly THEN 128 ELSE 0, Blocks, BlockSize>>

\* execute
Execute(id, t, blocks) ==
  LET c == t.command
      opcode == c[1]
      only(u) == {Step(u, blocks)}
  IN  CASE opcode \in {TestUnitReady, StartStopUnit, PreventRemoval} -> only(Finished(t))
        [] opcode = RequestSense -> only(SendSense(t))
        [] opcode = Inquiry -> only(SendData(t, CutIfAny(InquiryData, c[5])))
        [] opcode = ReadCapacity -> only(SendData(t, CapacityData))
        [] opcode = ModeSense6 -> only(SendData(t, CutIfAny(ModeSenseData(id), c[5])))
        [] opcode \in {Read6, Read10} -> {Step(u, blocks) : u \in ReadBlocks(t, blocks)}
        [] opcode \in {Write6, Write10} -> WriteBlocks(id, t, blocks)
        [] opcode = ReadBuffer -> only(ReadFromBuffer(t))
        [] opcode = WriteBuffer -> WriteToBuffer(t, blocks)
        [] opcode = ModeSelect6 -> Receive(t, blocks, c[5], "ignore")
        [] opcode = FormatUnit ->
             IF (c[2] \div 16) % 2 = 0
               THEN only(Finished(t))
               ELSE Receive(t, blocks, HeaderLength, "list")
        [] OTHER -> only(Fail(t, IllegalRequest))

\* putByte, in the command phase.
PutCommand(id, t, blocks, value) ==
  LET u == [t EXCEPT !.command = Append(@, value)]
  IN  IF Len(u.command) >= CommandLengthOf(u.command[1])
        THEN Execute(id, u, blocks)
        ELSE {Step(u, blocks)}

\* putByte, in the data out phase.
PutData(t, blocks, value) ==
  LET u == [t EXCEPT !.data[t.index + 1] = value, !.index = @ + 1]
  IN  IF u.index = Len(u.data)
        THEN AfterDataOut(u, blocks, u.after)
        ELSE {Step(u, blocks)}

\* peekByte
PeekByte(t) ==
  CASE t.phase = "dataIn" -> t.data[t.index + 1]
    [] t.phase = "status" -> t.status
    [] OTHER -> 0

\* getByte, in the phases that have a byte for the initiator.
GetByte(t) ==
  CASE t.phase = "dataIn" ->
         [t EXCEPT !.index = @ + 1,
                   !.phase = IF t.index + 1 = Len(t.data) THEN "status" ELSE @]
    [] t.phase = "status" -> [t EXCEPT !.phase = "messageIn"]
    [] t.phase = "messageIn" -> [t EXCEPT !.phase = "busFree"]

\* startSelection
StartSelection(t) ==
  [t EXCEPT !.phase = "command", !.command = <<>>, !.data = <<>>,
            !.index = 0, !.status = Good]

\* busReset
BusReset(t) ==
  [t EXCEPT !.phase = "busFree", !.command = <<>>, !.data = <<>>,
            !.index = 0, !.sense = UnitAttention]

\* NewDisk
NewTarget ==
  [phase |-> "busFree", command |-> <<>>, data |-> <<>>, index |-> 0, after |-> "ignore",
   status |-> Good, sense |-> UnitAttention, info |-> 0,
   buffer |-> [i \in 1..BufferSize |-> 0]]

-----------------------------------------------------------------------------
(* The controller.                                                         *)

\* The bit of the data bus an id is asked for with.
Bit(id) == <<1, 2, 4, 8, 16, 32, 64, 128>>[id + 1]

\* The ids whose bits are on the data bus.
Wanted(value) == {id \in Targets : (value \div Bit(id)) % 2 = 1}

\* The first target the data bus names, when the lines ask for one.
Named(ls, value) ==
  IF {"sel", "data"} \subseteq ls /\ Wanted(value) # {}
    THEN CHOOSE id \in Wanted(value) : \A other \in Wanted(value) : id <= other
    ELSE Free

\* trySelect: the target that holds the bus, and the targets as they become.
Chosen(ls, value) == IF selected = Free THEN Named(ls, value) ELSE selected

Started(ls, value) ==
  [id \in Targets |->
     IF selected = Free /\ id = Named(ls, value) THEN StartSelection(target[id]) ELSE target[id]]

\* Mutant of Holder: a target that has finished keeps the bus.
HolderForever(id, t) == id

\* releaseIfFree
Holder(id, t) == IF id # Free /\ t[id].phase = "busFree" THEN Free ELSE id

\* The lines a phase is named with: message, command/data and input/output.
PhaseLines(phase) ==
  CASE phase = "command" -> {"cd"}
    [] phase = "dataIn" -> {"io"}
    [] phase = "status" -> {"cd", "io"}
    [] phase = "messageIn" -> {"msg", "cd", "io"}
    [] OTHER -> {}

\* The bus status register: the lines that are up.  Request and acknowledge
\* interlock.
BusStatus ==
  (lines \cap {"sel", "rst"}) \cup
  IF CurrentPhase = "busFree" THEN {}
  ELSE {"bsy"} \cup PhaseLines(CurrentPhase)
         \cup IF "ack" \in lines THEN {} ELSE {"req"}

\* The phase match bit, with the lines of a phase in the target command
\* register; and the rest of the bus and status register.
PhaseMatches(phase) ==
  CurrentPhase # "busFree" /\ PhaseLines(CurrentPhase) = PhaseLines(phase)
BusAndStatus(phase) ==
  (lines \cap {"ack"})
    \cup (IF PhaseMatches(phase) THEN {"phaseMatch"} ELSE {})
    \cup (IF CurrentPhase # "busFree" THEN {"dmaRequest"} ELSE {})

Rises(ls) == "ack" \in ls /\ "ack" \notin lines

-----------------------------------------------------------------------------
(* The initiator.                                                          *)

\* It asks for the bus with its own id, and for a target with that and its own.
Masks == {Bit(InitiatorId)} \cup {Bit(InitiatorId) + Bit(id) : id \in Ids}

\* The bytes the phase asks for.
Offered ==
  CASE CurrentPhase = "busFree" -> Masks
    [] CurrentPhase = "command" ->
         LET c == target[selected].command
         IN  {d[Len(c) + 1] : d \in {e \in Descriptors : Len(c) < Len(e) /\ First(e, Len(c)) = c}}
    [] CurrentPhase = "dataOut" -> Data
    [] OTHER -> {}

\* A byte is asked for, and may be moved in that phase.
Requesting == "req" \in BusStatus
Transfers(phase) == Requesting /\ {"phaseMatch", "dmaRequest"} \subseteq BusAndStatus(phase)

\* Select is raised with the bus free, and dropped before the first byte; the
\* acknowledge answers a request, and stays up until that has fallen.
MayDrive(ls) ==
  /\ "sel" \in ls => "ack" \notin ls
  /\ "sel" \in ls \ lines => selected = Free /\ outputData \in Masks
  /\ "ack" \in ls \ lines =>
       /\ Requesting
       /\ CurrentPhase \in {"command", "dataOut"} => outputData \in Offered
  /\ "ack" \in lines \ ls => ~Requesting

\* The history: what has been sent and taken, until the bus is free.
Remember(s, t) ==
  IF selected' = Free
    THEN before' = medium' /\ sent' = <<>> /\ taken' = <<>>
    ELSE before' = before /\ sent' = s /\ taken' = t

\* Poke of the data register.
PokeData(value) ==
  /\ outputData' = value
  /\ selected' = Chosen(lines, value)
  /\ target' = Started(lines, value)
  /\ UNCHANGED <<lines, medium>>
  /\ Remember(sent, taken)

\* Poke of the initiator command register, with no byte to move.
Drive(ls) ==
  /\ MayDrive(ls)
  /\ ~(Rises(ls) /\ selected # Free)
  /\ lines' = ls
  /\ target' = Started(ls, outputData)
  /\ selected' = Holder(Chosen(ls, outputData), target')
  /\ UNCHANGED <<outputData, medium>>
  /\ Remember(sent, taken)

\* A byte goes to the target.
Put(steps) ==
  \E step \in steps :
    /\ target' = [target EXCEPT ![selected] = step.target]
    /\ medium' = [medium EXCEPT ![selected] = step.blocks]

\* The history of the data sent, once the target has taken the byte.
Sent(value) ==
  IF CurrentPhase = "dataOut" /\ Requesting THEN Append(sent, value) ELSE sent

\* The acknowledge rises on a byte for the target.
AckPut(ls) ==
  /\ MayDrive(ls)
  /\ Rises(ls)
  /\ lines' = ls
  /\ \/ /\ CurrentPhase = "command"
        /\ Put(PutCommand(selected, target[selected], medium[selected], outputData))
     \/ /\ CurrentPhase = "dataOut"
        /\ Put(PutData(target[selected], medium[selected], outputData))
  /\ selected' = Holder(selected, target')
  /\ UNCHANGED outputData
  /\ Remember(Sent(outputData), taken)

\* Mutant of AckPhases: the data in phase is not moved by the acknowledge.
AckPhasesButData == {"status", "messageIn"}

\* The phases with a byte for the initiator.
AckPhases == {"dataIn", "status", "messageIn"}

\* The acknowledge rises on a byte for the initiator, which has looked at it.
AckGet(ls) ==
  /\ MayDrive(ls)
  /\ Rises(ls)
  /\ CurrentPhase \in {"dataIn", "status", "messageIn"}
  /\ lines' = ls
  /\ target' = IF CurrentPhase \in AckPhases
                 THEN [target EXCEPT ![selected] = GetByte(@)]
                 ELSE target
  /\ selected' = Holder(selected, target')
  /\ UNCHANGED <<outputData, medium>>
  /\ Remember(sent,
              IF CurrentPhase = "dataIn" /\ target' # target
                THEN Append(taken, PeekByte(target[selected]))
                ELSE taken)

\* Poke of the initiator command register with the reset line.
Reset ==
  /\ lines' = {"rst"}
  /\ outputData' = 0
  /\ target' = [id \in Targets |-> BusReset(target[id])]
  /\ selected' = Free
  /\ UNCHANGED medium
  /\ Remember(sent, taken)

\* The pseudo DMA addresses, which acknowledge by themselves.
DackWrite(value) ==
  /\ Transfers("dataOut")
  /\ value \in Data
  /\ outputData' = value
  /\ Put(PutData(target[selected], medium[selected], value))
  /\ UNCHANGED <<lines, selected>>
  /\ Remember(Sent(value), taken)

DackRead ==
  /\ Transfers("dataIn")
  /\ target' = [target EXCEPT ![selected] = GetByte(@)]
  /\ UNCHANGED <<lines, outputData, selected, medium>>
  /\ Remember(sent, Append(taken, PeekByte(target[selected])))

-----------------------------------------------------------------------------
Init ==
  /\ lines = {}
  /\ outputData = 0
  /\ selected = Free
  /\ target = [id \in Targets |-> NewTarget]
  /\ medium = [id \in Targets |-> [b \in 0..Blocks - 1 |-> [i \in 1..BlockSize |-> 0]]]
  /\ before = medium
  /\ sent = <<>>
  /\ taken = <<>>

\* What the driver asserts: the data bus goes with the acknowledge.
Driven == {{}, {"data"}, {"sel"}, {"sel", "data"}, {"data", "ack"}}

Next ==
  \/ \E value \in Offered : PokeData(value)
  \/ \E ls \in Driven : Drive(ls)
  \/ \E ls \in Driven : AckPut(ls)
  \/ \E ls \in Driven : AckGet(ls)
  \/ \E value \in Data : DackWrite(value)
  \/ DackRead
  \/ Reset

Spec == Init /\ [][Next]_vars

\* The driver answers a request, drains what it does not want, and drops the
\* acknowledge when the request has fallen.
RaiseAck == \E ls \in Driven : AckPut(ls) \/ AckGet(ls)
DropAck == \E ls \in Driven : "ack" \in lines /\ "ack" \notin ls /\ Drive(ls)

FairSpec ==
  /\ Spec
  /\ WF_vars(\E value \in Offered : PokeData(value))
  /\ WF_vars(RaiseAck)
  /\ WF_vars(DropAck)

-----------------------------------------------------------------------------
(* Properties.                                                             *)

TargetState ==
  [phase : Phase, command : Seq(Byte), data : Seq(Nat), index : Nat, after : Afterwards,
   status : {Good, CheckCondition},
   sense : {NoSense, MediumError, IllegalRequest, UnitAttention, DataProtect},
   info : Nat, buffer : [1..BufferSize -> Nat]]

\* The type of the state.
TypeOK ==
  /\ lines \subseteq Line
  /\ outputData \in Byte
  /\ selected \in Targets \cup {Free}
  /\ target \in [Targets -> TargetState]
  /\ medium \in [Targets -> [0..Blocks - 1 -> Seq(Nat)]]
  /\ before \in [Targets -> [0..Blocks - 1 -> Seq(Nat)]]
  /\ sent \in Seq(Nat)
  /\ taken \in Seq(Nat)

\* One target at most is in a phase of a command, and it is the one the
\* controller has selected: neither a reset in the middle of a transfer nor
\* the release after the message leaves a target that believes it has the
\* bus, or a bus held by a target that does not.
OneTargetHoldsTheBus ==
  \A id \in Targets : PhaseOf(id) # "busFree" <=> id = selected

\* A target in a data phase has a byte left to move: an empty answer and a
\* transfer of no bytes go straight to what follows, so that the initiator
\* is never given a byte that is not there.
NeverEmptyHanded ==
  \A id \in Targets :
    PhaseOf(id) \in {"dataIn", "dataOut"} => target[id].index < Len(target[id].data)

\* A target that answered a check condition has a sense to tell for it, until
\* its next command.
CheckedMeansSense ==
  \A id \in Targets : target[id].status = CheckCondition => target[id].sense # NoSense

\* A target named on the data bus with select up is answered, in whatever
\* order the lines and the data came.
SelectionAnswered ==
  {"sel", "data"} \subseteq lines /\ Wanted(outputData) # {} => selected # Free

\* The bus is held by the target that answered and in its name alone, whatever
\* is reset and in whatever order a selection is put on the lines (step and
\* reset, bus.go).
BusFollowsItsTarget == OneTargetHoldsTheBus /\ SelectionAnswered

\* What a phase or a status says there is, there is: the bytes of a data phase
\* and the sense of a check condition.
TargetKeepsItsWord == NeverEmptyHanded /\ CheckedMeansSense

\* The command that has just run, on the selected target.
Done == selected # Free /\ PhaseOf(selected) \in {"status", "messageIn"}
Current == target[selected]
IsWrite(c) == c[1] \in {Write6, Write10}
IsRead(c) == c[1] \in {Read6, Read10}

\* The blocks a write has written: all it named when it went well, those
\* before the one the sense tells when the medium failed it, none otherwise.
HasWritten(t, b) ==
  /\ IsWrite(t.command)
  /\ b >= Block(t.command)
  /\ \/ /\ t.status = Good
        /\ b < Block(t.command) + Count(t.command)
     \/ /\ t.status = CheckCondition
        /\ t.sense = MediumError
        /\ b < t.info

Written(id, b) == Done /\ id = selected /\ HasWritten(Current, b)

\* The disks hold what they held before the command, but for the blocks it
\* has written, which hold the bytes the initiator sent for them; a write is
\* whole before any of it is on the disk, a read only disk is never written,
\* and a disk no command was for stays as it is.
MediumIsAsCommanded ==
  \A id \in Targets : \A b \in 0..Blocks - 1 :
    medium[id][b] =
      IF Written(id, b) /\ id \notin ReadOnly
        THEN Chunk(sent, b - Block(Current.command))
        ELSE before[id][b]

\* The bytes a command takes from the initiator: for a format with a defect
\* list, the header and the list whose length the header tells.
Announced(c, data) ==
  CASE IsWrite(c) -> Count(c) * BlockSize
    [] c[1] = ModeSelect6 -> c[5]
    [] c[1] = WriteBuffer -> BufferLength(c)
    [] c[1] = FormatUnit /\ (c[2] \div 16) % 2 = 1 -> HeaderLength + ListLength(data)
    [] OTHER -> 0

\* The data a command that went well has taken from the initiator is as much
\* as the command announced, and no byte of it was taken twice or left.
SentAsAnnounced ==
  Done /\ Current.status = Good => Len(sent) = Announced(Current.command, sent)

\* A read that went well has handed over every block it named, whole and in
\* order, however the bytes were acknowledged; one that failed, nothing.
ReadsAreWhole ==
  Done /\ IsRead(Current.command) =>
    LET c == Current.command IN
      IF Current.status = Good
        THEN /\ Len(taken) = Count(c) * BlockSize
             /\ \A n \in 0..Count(c) - 1 : Chunk(taken, n) = medium[selected][Block(c) + n]
        ELSE taken = <<>>

\* No transfer is short, long or of something else, either way.
TransfersAreWhole == SentAsAnnounced /\ ReadsAreWhole

\* A transfer ends: an initiator that keeps acknowledging, and drains what it
\* did not ask for, sees the bus free again.
EveryTransferEnds == selected # Free ~> selected = Free

=============================================================================
