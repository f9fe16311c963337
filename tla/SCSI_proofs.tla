----------------------------- MODULE SCSI_proofs -----------------------------
(***************************************************************************)
(* What holds of the SCSI bus for any disks, block size, descriptor blocks *)
(* and buffer: who holds the bus, that no data phase is empty, that a check*)
(* condition has a sense, and that the disks hold what was commanded and   *)
(* every transfer is whole.                                                *)
(*                                                                         *)
(* The inductive invariant says of each target what its phase promises: in *)
(* the command phase its descriptor block is not whole, in the data out    *)
(* phase it is, and the data awaited is what the command names, so that    *)
(* the blocks written are whole ones.  For the disks it is joined by an    *)
(* account, History, of what the one command on the bus has moved: what was*)
(* sent is what the target has of its data, or what its blocks are made of,*)
(* and what was taken is the part it has given of the blocks it named.     *)
(***************************************************************************)
EXTENDS SCSI, SequenceTheorems, TLAPS

Senses == {NoSense, MediumError, IllegalRequest, UnitAttention, DataProtect}
ABlock == [1..BlockSize -> Nat]
Disk == [0..Blocks - 1 -> ABlock]

\* A descriptor block with every byte of it there.
Whole(c) == c \in Seq(Byte) /\ Len(c) >= 6 /\ Len(c) = CommandLengthOf(c[1])

\* A target about to do what follows its data, after: the data are what the
\* command named.
Awaits(t, after) ==
  /\ Whole(t.command)
  /\ after = "write" =>
       /\ t.command[1] \in {Write6, Write10}
       /\ Len(t.data) = Count(t.command) * BlockSize \/ Count(t.command) = 0
  /\ after = "list" => Len(t.data) = HeaderLength

Sensed(t) == t.status = CheckCondition => t.sense # NoSense

TargetOK(t) ==
  /\ t \in TargetState
  /\ Sensed(t)
  /\ t.phase \in {"dataIn", "dataOut"} => t.index < Len(t.data)
  /\ t.phase = "dataOut" => Awaits(t, t.after)
  /\ t.phase = "command" =>
       t.command = <<>> \/ Len(t.command) < CommandLengthOf(t.command[1])

\* A target that has answered a byte and still holds the bus.
Held(t) == TargetOK(t) /\ t.phase # "busFree"

StepOK(s) == Held(s.target) /\ s.blocks \in Disk

\* A target whose descriptor block is whole, about to run it.
Commanded(t) == t \in TargetState /\ Sensed(t) /\ Whole(t.command)

USE SCSIAssumption

-----------------------------------------------------------------------------
(* Sequences and numbers.                                                  *)

\* A function on 1..n is a sequence.
LEMMA FunctionIsSeq ==
  ASSUME NEW S, NEW n \in Nat, NEW f \in [1..n -> S]
  PROVE  f \in Seq(S) /\ Len(f) = n
BY SeqDef

\* The sense keys a target fails with are senses.
LEMMA SenseConstants ==
  /\ NoSense \in Senses /\ MediumError \in Senses \ {NoSense}
  /\ IllegalRequest \in Senses \ {NoSense} /\ UnitAttention \in Senses \ {NoSense}
  /\ DataProtect \in Senses \ {NoSense}
  /\ Good # CheckCondition
BY DEF Senses, NoSense, MediumError, IllegalRequest, UnitAttention, DataProtect,
       Good, CheckCondition

\* The length of a descriptor block goes by its group.
LEMMA Lengths ==
  ASSUME NEW op \in Byte
  PROVE  /\ CommandLengthOf(op) \in {6, 10, 12}
         /\ op \div 32 \in {1, 2} => CommandLengthOf(op) = 10
BY DEF CommandLengthOf, Byte

\* The bytes of a whole descriptor block.
LEMMA BytesOf ==
  ASSUME NEW c, Whole(c)
  PROVE  /\ \A i \in 1..6 : c[i] \in Byte
         /\ c[1] \div 32 \in {1, 2} => \A i \in 1..10 : c[i] \in Byte
<1>1. c \in Seq(Byte) /\ Len(c) >= 6 /\ Len(c) \in Nat
  BY DEF Whole
<1>2. \A i \in 1..6 : c[i] \in Byte
  BY <1>1, ElementOfSeq
<1>3. ASSUME c[1] \div 32 \in {1, 2}
      PROVE  \A i \in 1..10 : c[i] \in Byte
  <2>1. Len(c) = 10
    BY <1>2, <1>3, Lengths DEF Whole
  <2> QED BY <1>1, <2>1, ElementOfSeq
<1> QED BY <1>2, <1>3

\* What a whole descriptor block of a read or a write names.
LEMMA NamedBlocks ==
  ASSUME NEW c, Whole(c), c[1] \in {Read6, Read10, Write6, Write10}
  PROVE  Block(c) \in Nat /\ Count(c) \in Nat
<1> Byte \subseteq Nat
  BY DEF Byte
<1>1. \A i \in 1..6 : c[i] \in Nat
  BY BytesOf
<1>2. CASE c[1] \in {Read6, Write6}
  <2>1. c[1] \div 32 = 0
    BY <1>2 DEF Read6, Write6
  <2>2. Count(c) \in Nat
    BY <1>1, <2>1 DEF Count
  <2>3. c[2] \in Nat /\ c[3] \in Nat /\ c[4] \in Nat /\ c[2] % 32 \in Nat
    BY <1>1
  <2>4. Block(c) = (c[2] % 32) * 65536 + c[3] * 256 + c[4]
    BY <2>1 DEF Block
  <2> QED BY <2>2, <2>3, <2>4
<1>3. CASE c[1] \in {Read10, Write10}
  <2>1. c[1] \div 32 = 1
    BY <1>3 DEF Read10, Write10
  <2>2. c[1] \div 32 \in {1, 2}
    BY <2>1
  <2>3. \A i \in 1..10 : c[i] \in Nat
    BY <2>2, BytesOf
  <2> QED BY <2>1, <2>3 DEF Block, Count
<1> QED BY <1>2, <1>3

\* The blocks a command moves are blocks of the disk.
LEMMA MovedBlocks ==
  ASSUME NEW c, Block(c) \in Nat, Count(c) \in Nat, NEW n \in Moved(c)
  PROVE  /\ n \in 0..Count(c)
         /\ \A i \in 0..n - 1 : Block(c) + i \in 0..Blocks - 1
BY DEF Moved

\* Fewer blocks are no more bytes.
LEMMA FewerBytes ==
  ASSUME NEW a \in Nat, NEW b \in Nat, a <= b, NEW m \in Nat
  PROVE  a * m \in Nat /\ b * m \in Nat /\ a * m <= b * m
<1>1. PICK k \in Nat : b = a + k
  <2>1. b - a \in Nat /\ b = a + (b - a)
    OBVIOUS
  <2> QED BY <2>1
<1>2. b * m = a * m + k * m
  BY <1>1
<1>3. a * m \in Nat /\ k * m \in Nat
  OBVIOUS
<1> QED BY <1>2, <1>3

\* A chunk of whole blocks is a block.
LEMMA ChunkType ==
  ASSUME NEW data \in Seq(Nat), NEW count \in Nat, Len(data) = count * BlockSize,
         NEW n \in 0..count - 1
  PROVE  Chunk(data, n) \in ABlock
<1>1. (n + 1) * BlockSize <= count * BlockSize /\ n * BlockSize \in Nat
  <2>1. n + 1 \in Nat /\ n + 1 <= count /\ n \in Nat /\ BlockSize \in Nat
    OBVIOUS
  <2> QED BY <2>1, FewerBytes
<1>2. (n + 1) * BlockSize = n * BlockSize + BlockSize
  OBVIOUS
<1> DEFINE m == n * BlockSize
<1>3. m \in Nat /\ m + BlockSize <= Len(data)
  BY <1>1, <1>2
<1>4. Chunk(data, n) = SubSeq(data, m + 1, m + BlockSize)
  BY <1>2 DEF Chunk
<1> HIDE DEF m
<1>5. /\ SubSeq(data, m + 1, m + BlockSize) \in Seq(Nat)
      /\ Len(SubSeq(data, m + 1, m + BlockSize)) = BlockSize
  <2>1. m + 1 \in Int /\ m + BlockSize \in Int /\ m + 1 <= m + BlockSize
    BY <1>3
  <2>2. (m + BlockSize) - (m + 1) + 1 = BlockSize
    BY <1>3
  <2>3. \A i \in m + 1..m + BlockSize : data[i] \in Nat
    BY SMTT(30), <1>3, ElementOfSeq
  <2> QED BY <2>1, <2>2, <2>3, SubSeqProperties
<1>6. \A s \in Seq(Nat) : Len(s) = BlockSize => s \in ABlock
  BY LenProperties DEF ABlock
<1> QED BY <1>4, <1>5, <1>6

\* The bytes of the blocks read.
LEMMA DataOfBlocksType ==
  ASSUME NEW blocks \in Disk, NEW block \in Nat, NEW count \in Nat,
         \A i \in 0..count - 1 : block + i \in 0..Blocks - 1
  PROVE  DataOfBlocks(blocks, block, count) \in Seq(Nat)
<1>1. count * BlockSize \in Nat
  OBVIOUS
<1>2. ASSUME NEW i \in 1..count * BlockSize
      PROVE  blocks[block + ((i - 1) \div BlockSize)][((i - 1) % BlockSize) + 1] \in Nat
  <2> DEFINE q == (i - 1) \div BlockSize
             r == (i - 1) % BlockSize
  <2>1. q \in Nat /\ r \in 0..BlockSize - 1 /\ i - 1 = q * BlockSize + r
    OBVIOUS
  <2>2. blocks[block + q][r + 1] \in Nat
    <3> HIDE DEF q, r
    <3>1. q < count
      <4>1. SUFFICES ASSUME count <= q PROVE FALSE
        BY <2>1
      <4>2. count * BlockSize <= q * BlockSize
        BY <2>1, <4>1, FewerBytes
      <4>3. q * BlockSize \in Nat /\ count * BlockSize \in Nat
        BY <2>1, <4>1, FewerBytes
      <4> QED BY <2>1, <4>2, <4>3
    <3>2. block + q \in 0..Blocks - 1
      BY <2>1, <3>1
    <3>3. blocks[block + q] \in ABlock
      BY <3>2 DEF Disk
    <3>4. r + 1 \in 1..BlockSize
      BY <2>1
    <3> QED BY <3>3, <3>4 DEF ABlock
  <2> QED BY <2>2
<1>3. DataOfBlocks(blocks, block, count) \in [1..count * BlockSize -> Nat]
  BY <1>2 DEF DataOfBlocks
<1> QED BY <1>1, <1>3, FunctionIsSeq

\* The disk once n blocks of a write are on it.
LEMMA OverwrittenType ==
  ASSUME NEW blocks \in Disk, NEW block \in Nat, NEW data \in Seq(Nat), NEW count \in Nat,
         Len(data) = count * BlockSize \/ count = 0, NEW n \in 0..count
  PROVE  Overwritten(blocks, block, n, data) \in Disk
<1>1. DOMAIN blocks = 0..Blocks - 1
  BY DEF Disk
<1>2. ASSUME NEW b \in 0..Blocks - 1, b \in block..block + n - 1
      PROVE  Chunk(data, b - block) \in ABlock
  <2>1. b - block \in 0..count - 1 /\ Len(data) = count * BlockSize
    BY <1>2
  <2> QED BY <2>1, ChunkType
<1>3. ASSUME NEW b \in 0..Blocks - 1
      PROVE  blocks[b] \in ABlock
  BY DEF Disk
<1> QED BY <1>1, <1>2, <1>3 DEF Overwritten, Disk

-----------------------------------------------------------------------------
(* What a target does: every step of it keeps what its phase promises.     *)

\* finishGood
LEMMA FinishedHeld ==
  ASSUME NEW t, t \in TargetState
  PROVE  Held(Finished(t))
<1>1. <<>> \in Seq(Nat) /\ Finished(t) \in TargetState
  BY EmptySeq DEF Finished, TargetState, Phase
<1> QED
  BY <1>1, SenseConstants DEF Finished, TargetState, Held, TargetOK, Sensed

\* fail
LEMMA FailHeld ==
  ASSUME NEW t, t \in TargetState, NEW key \in Senses \ {NoSense}
  PROVE  Held(Fail(t, key))
<1>1. <<>> \in Seq(Nat) /\ Fail(t, key) \in TargetState
  BY EmptySeq DEF Fail, TargetState, Phase, Senses
<1> QED
  BY <1>1 DEF Fail, TargetState, Held, TargetOK, Sensed

\* A read or a write the medium failed.
LEMMA FailAtHeld ==
  ASSUME NEW t, t \in TargetState, NEW block \in Nat
  PROVE  Held(FailAt(t, block))
<1>1. [t EXCEPT !.info = block] \in TargetState
  BY DEF TargetState
<1> QED
  BY <1>1, FailHeld, SenseConstants DEF FailAt

\* sendData: no data phase with nothing to send.
LEMMA SendDataHeld ==
  ASSUME NEW t, t \in TargetState, NEW data \in Seq(Nat)
  PROVE  Held(SendData(t, data))
<1>1. SendData(t, data) \in TargetState
  BY DEF SendData, TargetState, Phase
<1>2. data # <<>> => Len(data) > 0
  BY EmptySeq
<1> QED
  BY <1>1, <1>2, SenseConstants DEF SendData, TargetState, Held, TargetOK, Sensed

\* The data awaited are as many as the command names.
LEMMA AwaitDataHeld ==
  ASSUME NEW t, Commanded(t), NEW length \in Nat \ {0}, NEW after \in Afterwards,
         after = "write" =>
           /\ t.command[1] \in {Write6, Write10}
           /\ length = Count(t.command) * BlockSize,
         after = "list" => length = HeaderLength
  PROVE  Held(AwaitData(t, length, after))
<1> DEFINE zeros == [i \in 1..length |-> 0]
           u == AwaitData(t, length, after)
<1>1. zeros \in Seq(Nat) /\ Len(zeros) = length
  <2>1. zeros \in [1..length -> Nat]
    OBVIOUS
  <2> QED BY <2>1, FunctionIsSeq
<1> HIDE DEF zeros
<1>2. u = [t EXCEPT !.data = zeros, !.index = 0, !.after = after, !.phase = "dataOut"]
  BY DEF AwaitData, zeros
<1>3. t \in TargetState /\ Sensed(t) /\ Whole(t.command)
  BY DEF Commanded
<1>4. u \in TargetState
  <2>1. [t EXCEPT !.data = zeros, !.index = 0, !.after = after, !.phase = "dataOut"]
          \in TargetState
    BY <1>1, <1>3 DEF TargetState, Phase
  <2> QED BY <1>2, <2>1
<1>5. /\ u.data = zeros /\ u.index = 0 /\ u.after = after /\ u.phase = "dataOut"
      /\ u.command = t.command /\ u.status = t.status /\ u.sense = t.sense
  BY <1>2, <1>3 DEF TargetState
<1> HIDE DEF u
<1>6. Awaits(u, u.after)
  BY <1>1, <1>3, <1>5 DEF Awaits
<1> QED
  <2>1. Sensed(u)
    BY <1>3, <1>5 DEF Sensed
  <2>2. u.index < Len(u.data)
    <3>1. Len(u.data) = length /\ u.index = 0
      BY <1>1, <1>5
    <3> QED BY <3>1
  <2>3. Held(u)
    BY <1>4, <1>5, <1>6, <2>1, <2>2 DEF Held, TargetOK
  <2> QED BY <2>3 DEF u

\* read: the data are the blocks named, or the sense tells where it failed.
LEMMA ReadBlocksHeld ==
  ASSUME NEW t, Commanded(t), t.command[1] \in {Read6, Read10}, NEW blocks \in Disk,
         NEW u \in ReadBlocks(t, blocks)
  PROVE  Held(u)
<1> DEFINE c == t.command
<1>1. t \in TargetState /\ Whole(c)
  BY DEF Commanded
<1>2. Block(c) \in Nat /\ Count(c) \in Nat
  BY <1>1, NamedBlocks
<1>3. PICK n \in Moved(c) :
        u = IF n = Count(c)
              THEN SendData([t EXCEPT !.sense = NoSense], DataOfBlocks(blocks, Block(c), n))
              ELSE FailAt(t, Block(c) + n)
  BY DEF ReadBlocks
<1>4. n \in 0..Count(c) /\ \A i \in 0..n - 1 : Block(c) + i \in 0..Blocks - 1
  BY <1>2, MovedBlocks
<1>5. n \in Nat
  BY <1>2, <1>4
<1> HIDE DEF c
<1>6. DataOfBlocks(blocks, Block(c), n) \in Seq(Nat)
  BY <1>2, <1>4, <1>5, DataOfBlocksType
<1>7. [t EXCEPT !.sense = NoSense] \in TargetState
  BY <1>1 DEF TargetState
<1>8. Held(SendData([t EXCEPT !.sense = NoSense], DataOfBlocks(blocks, Block(c), n)))
  BY <1>6, <1>7, SendDataHeld
<1>9. Held(FailAt(t, Block(c) + n))
  BY <1>1, <1>2, <1>5, FailAtHeld
<1> QED
  BY <1>3, <1>8, <1>9

\* completeWrite: the disk still is one of whole blocks.
LEMMA CompleteWriteOK ==
  ASSUME NEW t, t \in TargetState, Awaits(t, "write"), NEW blocks \in Disk,
         NEW s \in CompleteWrite(t, blocks)
  PROVE  StepOK(s)
<1> DEFINE c == t.command
<1>1. /\ Whole(c) /\ c[1] \in {Write6, Write10}
      /\ Len(t.data) = Count(c) * BlockSize \/ Count(c) = 0
      /\ t.data \in Seq(Nat)
  BY DEF Awaits, TargetState
<1>2. Block(c) \in Nat /\ Count(c) \in Nat
  BY <1>1, NamedBlocks
<1>3. PICK n \in Moved(c) :
        s = Step(IF n = Count(c)
                   THEN Finished([t EXCEPT !.sense = NoSense])
                   ELSE FailAt(t, Block(c) + n),
                 Overwritten(blocks, Block(c), n, t.data))
  BY DEF CompleteWrite
<1>4. n \in 0..Count(c)
  BY <1>2, MovedBlocks
<1> HIDE DEF c
<1>5. n \in Nat
  BY <1>2, <1>4
<1>6. Overwritten(blocks, Block(c), n, t.data) \in Disk
  BY <1>1, <1>2, <1>4, OverwrittenType
<1>7. [t EXCEPT !.sense = NoSense] \in TargetState
  BY DEF TargetState
<1>8. Held(Finished([t EXCEPT !.sense = NoSense]))
  BY <1>7, FinishedHeld
<1>9. Held(FailAt(t, Block(c) + n))
  BY <1>2, <1>5, FailAtHeld
<1> QED
  BY <1>3, <1>6, <1>8, <1>9 DEF StepOK, Step

\* completeWriteBuffer
LEMMA CompleteWriteBufferHeld ==
  ASSUME NEW t, t \in TargetState
  PROVE  Held(CompleteWriteBuffer(t))
<1> DEFINE from == IF HasHeader(t.command) THEN HeaderLength ELSE 0
           filled == [i \in 1..BufferSize |->
                        IF from + i <= Len(t.data) THEN t.data[from + i] ELSE t.buffer[i]]
<1>1. filled \in [1..BufferSize -> Nat]
  <2>1. from \in Nat /\ t.data \in Seq(Nat) /\ t.buffer \in [1..BufferSize -> Nat]
    BY DEF TargetState
  <2> HIDE DEF from
  <2>2. ASSUME NEW i \in 1..BufferSize, from + i <= Len(t.data)
        PROVE  t.data[from + i] \in Nat
    <3>1. from + i \in 1..Len(t.data)
      BY <2>1, <2>2
    <3> QED BY <2>1, <3>1, ElementOfSeq
  <2> QED BY <2>1, <2>2
<1> HIDE DEF filled
<1>2. [t EXCEPT !.buffer = filled] \in TargetState
  BY <1>1 DEF TargetState
<1>3. CompleteWriteBuffer(t) = Finished([t EXCEPT !.buffer = filled])
  BY DEF CompleteWriteBuffer, filled, TargetState
<1> QED BY <1>2, <1>3, FinishedHeld

\* The length of a defect list is in its header, whatever comes after it.
LEMMA ListLengthIs ==
  ASSUME NEW s \in Seq(Nat), Len(s) >= HeaderLength, Len(s) \in Nat
  PROVE  ListLength(s) \in Nat
<1> DEFINE high == IF HeaderLength > 1 THEN 256 * s[HeaderLength - 1] ELSE 0
<1>1. HeaderLength \in 1..Len(s) /\ s[HeaderLength] \in Nat
  BY ElementOfSeq
<1>2. high \in Nat
  <2>1. CASE HeaderLength > 1
    <3>1. HeaderLength - 1 \in 1..Len(s)
      BY <2>1
    <3>2. s[HeaderLength - 1] \in Nat
      BY <3>1, ElementOfSeq
    <3> QED BY <2>1, <3>2
  <2> QED BY <2>1
<1> HIDE DEF high
<1>3. s[HeaderLength] + high \in Nat
  BY <1>1, <1>2
<1> QED BY <1>3 DEF ListLength, high

LEMMA ListLengthStays ==
  ASSUME NEW s, NEW grown, Len(s) \in Nat, Len(s) >= HeaderLength,
         \A i \in 1..Len(s) : grown[i] = s[i]
  PROVE  ListLength(grown) = ListLength(s)
<1>1. grown[HeaderLength] = s[HeaderLength]
  OBVIOUS
<1>2. HeaderLength > 1 => grown[HeaderLength - 1] = s[HeaderLength - 1]
  OBVIOUS
<1> QED BY <1>1, <1>2 DEF ListLength

\* The defect list of a format.
LEMMA ReceiveListHeld ==
  ASSUME NEW t, Commanded(t), NEW length \in Nat
  PROVE  Held(ReceiveList(t, length))
<1>1. CASE length = 0
  BY <1>1, FinishedHeld DEF ReceiveList, Commanded
<1>2. CASE length # 0
  <2>1. "ignore" \in Afterwards
    BY DEF Afterwards
  <2>2. Held(AwaitData(t, length, "ignore"))
    BY <1>2, <2>1, AwaitDataHeld
  <2> QED BY <1>2, <2>2 DEF ReceiveList
<1> QED BY <1>1, <1>2

\* afterDataOut
LEMMA AfterDataOutOK ==
  ASSUME NEW t, Commanded(t), NEW after \in Afterwards, Awaits(t, after),
         NEW blocks \in Disk, NEW s \in AfterDataOut(t, blocks, after)
  PROVE  StepOK(s)
<1>1. t \in TargetState
  BY DEF Commanded
<1>2. CASE after = "write"
  BY <1>1, <1>2, CompleteWriteOK DEF AfterDataOut
<1>3. CASE after = "buffer"
  BY <1>1, <1>3, CompleteWriteBufferHeld DEF AfterDataOut, StepOK, Step
<1>4. CASE after = "list"
  <2>1. Len(t.data) = HeaderLength /\ t.data \in Seq(Nat)
    BY <1>1, <1>4 DEF Awaits, TargetState
  <2>2. ListLength(t.data) \in Nat
    BY <2>1, ListLengthIs
  <2>3. Held(ReceiveList(t, ListLength(t.data)))
    BY <2>2, ReceiveListHeld
  <2> QED BY <1>4, <2>3 DEF AfterDataOut, StepOK, Step
<1>5. CASE after = "ignore"
  BY <1>1, <1>5, FinishedHeld DEF AfterDataOut, StepOK, Step
<1> QED BY <1>2, <1>3, <1>4, <1>5 DEF Afterwards

\* receive: of no bytes, what follows is done at once, and a write of no
\* bytes writes nothing.
LEMMA ReceiveOK ==
  ASSUME NEW t, Commanded(t), NEW length \in Nat, NEW after \in Afterwards,
         after = "write" =>
           /\ t.command[1] \in {Write6, Write10}
           /\ length = Count(t.command) * BlockSize /\ Count(t.command) \in Nat,
         after = "list" => length = HeaderLength,
         NEW blocks \in Disk, NEW s \in Receive(t, blocks, length, after)
  PROVE  StepOK(s)
<1>1. CASE length = 0
  <2>1. after # "list"
    BY <1>1
  <2>2. after = "write" => Count(t.command) = 0
    <3>1. ASSUME NEW n \in Nat, n * BlockSize = 0
          PROVE  n = 0
      <4>1. SUFFICES ASSUME 1 <= n PROVE FALSE
        OBVIOUS
      <4>2. 1 * BlockSize <= n * BlockSize
        BY <4>1, FewerBytes
      <4> QED BY <3>1, <4>2
    <3> QED BY <1>1, <3>1
  <2>3. Awaits(t, after)
    BY <2>1, <2>2 DEF Awaits, Commanded
  <2>4. s \in AfterDataOut(t, blocks, after)
    BY <1>1 DEF Receive
  <2> QED BY <2>3, <2>4, AfterDataOutOK
<1>2. CASE length # 0
  <2>1. Held(AwaitData(t, length, after))
    BY <1>2, AwaitDataHeld
  <2> QED BY <1>2, <2>1 DEF Receive, StepOK, Step
<1> QED BY <1>1, <1>2

\* write
LEMMA WriteBlocksOK ==
  ASSUME NEW id, NEW t, Commanded(t), t.command[1] \in {Write6, Write10},
         NEW blocks \in Disk, NEW s \in WriteBlocks(id, t, blocks)
  PROVE  StepOK(s)
<1>1. CASE id \in ReadOnly
  <2>1. Held(Fail(t, DataProtect))
    BY FailHeld, SenseConstants DEF Commanded
  <2> QED BY <1>1, <2>1 DEF WriteBlocks, StepOK, Step
<1>2. CASE id \notin ReadOnly
  <2>1. Count(t.command) \in Nat
    BY NamedBlocks DEF Commanded
  <2>2. Count(t.command) * BlockSize \in Nat /\ "write" \in Afterwards
    BY <2>1 DEF Afterwards
  <2>3. s \in Receive(t, blocks, Count(t.command) * BlockSize, "write")
    BY <1>2 DEF WriteBlocks
  <2> QED BY <2>1, <2>2, <2>3, ReceiveOK
<1> QED BY <1>1, <1>2

\* What is left of an answer cut to the length asked for.
LEMMA CutType ==
  ASSUME NEW data \in Seq(Nat), NEW length \in Nat
  PROVE  Cut(data, length) \in Seq(Nat) /\ CutIfAny(data, length) \in Seq(Nat)
<1>1. Cut(data, length) \in Seq(Nat)
  <2>1. CASE length < Len(data)
    <3>1. \A i \in 1..length : data[i] \in Nat
      BY <2>1, ElementOfSeq, LenProperties
    <3>2. SubSeq(data, 1, length) \in Seq(Nat)
      BY <3>1, SubSeqProperties
    <3> QED BY <2>1, <3>2 DEF Cut, First
  <2>2. CASE ~(length < Len(data))
    BY <2>2 DEF Cut
  <2> QED BY <2>1, <2>2
<1> QED BY <1>1 DEF CutIfAny

\* The commands on the buffer are of ten bytes.
LEMMA BufferLengthType ==
  ASSUME NEW c, Whole(c), c[1] \in {ReadBuffer, WriteBuffer}
  PROVE  BufferLength(c) \in Nat
<1>1. c[1] \div 32 \in {1, 2}
  BY DEF ReadBuffer, WriteBuffer
<1>2. \A i \in 1..10 : c[i] \in Byte
  BY <1>1, BytesOf
<1>3. c[7] \in Nat /\ c[8] \in Nat /\ c[9] \in Nat
  BY SMTT(30), <1>2 DEF Byte
<1> QED BY <1>3 DEF BufferLength

\* readBuffer: it sends some bytes, or refuses.
LEMMA ReadFromBufferIs ==
  ASSUME NEW t, Commanded(t), t.command[1] = ReadBuffer
  PROVE  \/ \E data \in Seq(Nat) : ReadFromBuffer(t) = SendData(t, data)
         \/ ReadFromBuffer(t) = Fail(t, IllegalRequest)
<1> DEFINE mode == t.command[2] % 8
           data == CASE mode = 0 -> HeaderBytes \o t.buffer
                     [] mode = 2 -> t.buffer
                     [] mode = 3 -> HeaderBytes
                     [] OTHER -> <<>>
<1>1. t \in TargetState /\ BufferLength(t.command) \in Nat
  BY BufferLengthType DEF Commanded
<1>2. HeaderBytes \in Seq(Nat) /\ t.buffer \in Seq(Nat)
  <2>1. HeaderBytes \in [1..HeaderLength -> Nat] /\ HeaderLength \in Nat
    BY DEF HeaderBytes
  <2>2. t.buffer \in [1..BufferSize -> Nat] /\ BufferSize \in Nat
    BY <1>1 DEF TargetState
  <2> QED BY <2>1, <2>2, FunctionIsSeq
<1>3. HeaderBytes \o t.buffer \in Seq(Nat) /\ <<>> \in Seq(Nat)
  BY <1>2, ConcatProperties, EmptySeq
<1> HIDE DEF mode
<1>4. data \in Seq(Nat)
  BY <1>2, <1>3
<1>5. ReadFromBuffer(t) = IF mode \in {0, 2, 3}
                            THEN SendData(t, Cut(data, BufferLength(t.command)))
                            ELSE Fail(t, IllegalRequest)
  BY DEF ReadFromBuffer, mode
<1> HIDE DEF data
<1>6. Cut(data, BufferLength(t.command)) \in Seq(Nat)
  BY <1>1, <1>4, CutType
<1> QED BY <1>5, <1>6

LEMMA ReadFromBufferHeld ==
  ASSUME NEW t, Commanded(t), t.command[1] = ReadBuffer
  PROVE  Held(ReadFromBuffer(t))
BY ReadFromBufferIs, SendDataHeld, FailHeld, SenseConstants DEF Commanded

\* writeBuffer
LEMMA WriteToBufferOK ==
  ASSUME NEW t, Commanded(t), t.command[1] = WriteBuffer, NEW blocks \in Disk,
         NEW s \in WriteToBuffer(t, blocks)
  PROVE  StepOK(s)
<1>1. CASE t.command[2] % 8 \in {0, 2}
  <2>1. BufferLength(t.command) \in Nat /\ "buffer" \in Afterwards
    BY BufferLengthType DEF Commanded, Afterwards
  <2>2. s \in Receive(t, blocks, BufferLength(t.command), "buffer")
    BY <1>1 DEF WriteToBuffer
  <2> QED BY <2>1, <2>2, ReceiveOK
<1>2. CASE t.command[2] % 8 \notin {0, 2}
  <2>1. Held(Fail(t, IllegalRequest))
    BY FailHeld, SenseConstants DEF Commanded
  <2> QED BY <1>2, <2>1 DEF WriteToBuffer, StepOK, Step
<1> QED BY <1>1, <1>2

\* senseData
LEMMA SendSenseHeld ==
  ASSUME NEW t, t \in TargetState
  PROVE  Held(SendSense(t))
<1>1. [t EXCEPT !.sense = NoSense, !.info = 0] \in TargetState
  BY DEF TargetState
<1>2. t.sense \in Nat /\ t.info \in Nat
  BY DEF TargetState, NoSense, MediumError, IllegalRequest, UnitAttention, DataProtect
<1>3. <<t.sense, t.info>> \in Seq(Nat)
  BY <1>2
<1> QED BY <1>1, <1>3, SendDataHeld DEF SendSense

\* What a disk says of itself.
LEMMA SelfDescriptions ==
  ASSUME NEW id
  PROVE  /\ InquiryData \in Seq(Nat)
         /\ CapacityData \in Seq(Nat)
         /\ ModeSenseData(id) \in Seq(Nat)
<1>1. Blocks - 1 \in Nat /\ Blocks \in Nat /\ BlockSize \in Nat
  OBVIOUS
<1>2. (IF id \in ReadOnly THEN 128 ELSE 0) \in Nat
  OBVIOUS
<1>3. CapacityData \in Seq(Nat)
  BY <1>1 DEF CapacityData
<1>4. ModeSenseData(id) \in Seq(Nat)
  BY <1>1, <1>2 DEF ModeSenseData
<1> QED BY <1>3, <1>4 DEF InquiryData

\* execute
LEMMA ExecuteOK ==
  ASSUME NEW id, NEW t, Commanded(t), NEW blocks \in Disk, NEW s \in Execute(id, t, blocks)
  PROVE  StepOK(s)
<1> DEFINE c == t.command
           op == t.command[1]
<1> USE DEF TestUnitReady, StartStopUnit, PreventRemoval, RequestSense, Inquiry, ReadCapacity,
            ModeSense6, Read6, Read10, Write6, Write10, ReadBuffer, WriteBuffer, ModeSelect6,
            FormatUnit
<1>1. t \in TargetState /\ \A i \in 1..6 : c[i] \in Nat
  <2>1. t \in TargetState /\ Whole(c)
    BY DEF Commanded
  <2>2. \A i \in 1..6 : c[i] \in Byte
    BY <2>1, BytesOf
  <2>3. Byte \subseteq Nat
    BY DEF Byte
  <2> QED BY <2>1, <2>2, <2>3
<1>2. /\ \A u : Held(u) => StepOK(Step(u, blocks))
      /\ c[5] \in Nat
  BY <1>1 DEF StepOK, Step
<1>3. CASE op \in {TestUnitReady, StartStopUnit, PreventRemoval}
  <2>1. s = Step(Finished(t), blocks)
    BY <1>3 DEF Execute
  <2> QED BY <1>1, <1>2, <2>1, FinishedHeld
<1>4. CASE op = RequestSense
  <2>1. s = Step(SendSense(t), blocks)
    BY <1>4 DEF Execute
  <2> QED BY <1>1, <1>2, <2>1, SendSenseHeld
<1>5. CASE op = Inquiry
  <2>1. s = Step(SendData(t, CutIfAny(InquiryData, c[5])), blocks)
    BY <1>5 DEF Execute
  <2>2. CutIfAny(InquiryData, c[5]) \in Seq(Nat)
    BY <1>2, CutType, SelfDescriptions
  <2> QED BY <1>1, <1>2, <2>1, <2>2, SendDataHeld
<1>6. CASE op = ReadCapacity
  <2>1. s = Step(SendData(t, CapacityData), blocks)
    BY <1>6 DEF Execute
  <2> QED BY <1>1, <1>2, <2>1, SelfDescriptions, SendDataHeld
<1>7. CASE op = ModeSense6
  <2>1. s = Step(SendData(t, CutIfAny(ModeSenseData(id), c[5])), blocks)
    BY <1>7 DEF Execute
  <2>2. CutIfAny(ModeSenseData(id), c[5]) \in Seq(Nat)
    BY <1>2, CutType, SelfDescriptions
  <2> QED BY <1>1, <1>2, <2>1, <2>2, SendDataHeld
<1>8. CASE op \in {Read6, Read10}
  <2>1. \E u \in ReadBlocks(t, blocks) : s = Step(u, blocks)
    BY <1>8 DEF Execute
  <2> QED BY <1>2, <1>8, <2>1, ReadBlocksHeld
<1>9. CASE op \in {Write6, Write10}
  <2>1. s \in WriteBlocks(id, t, blocks)
    BY <1>9 DEF Execute
  <2> QED BY <1>9, <2>1, WriteBlocksOK
<1>10. CASE op = ReadBuffer
  <2>1. s = Step(ReadFromBuffer(t), blocks)
    BY <1>10 DEF Execute
  <2> QED BY <1>2, <1>10, <2>1, ReadFromBufferHeld
<1>11. CASE op = WriteBuffer
  <2>1. s \in WriteToBuffer(t, blocks)
    BY <1>11 DEF Execute
  <2> QED BY <1>11, <2>1, WriteToBufferOK
<1>12. CASE op = ModeSelect6
  <2>1. s \in Receive(t, blocks, c[5], "ignore")
    BY <1>12 DEF Execute
  <2>2. "ignore" \in Afterwards
    BY DEF Afterwards
  <2> QED BY <1>2, <2>1, <2>2, ReceiveOK
<1>13. CASE op = FormatUnit
  <2>1. CASE (c[2] \div 16) % 2 = 0
    <3>1. s = Step(Finished(t), blocks)
      BY <1>13, <2>1 DEF Execute
    <3> QED BY <1>1, <1>2, <3>1, FinishedHeld
  <2>2. CASE (c[2] \div 16) % 2 # 0
    <3>1. s \in Receive(t, blocks, HeaderLength, "list")
      BY <1>13, <2>2 DEF Execute
    <3>2. "list" \in Afterwards
      BY DEF Afterwards
    <3> QED BY <3>1, <3>2, ReceiveOK
  <2> QED BY <2>1, <2>2
<1>14. CASE op \notin {TestUnitReady, StartStopUnit, PreventRemoval, RequestSense, Inquiry,
                       ReadCapacity, ModeSense6, Read6, Read10, Write6, Write10, ReadBuffer,
                       WriteBuffer, ModeSelect6, FormatUnit}
  <2>1. s = Step(Fail(t, IllegalRequest), blocks)
    BY <1>14 DEF Execute
  <2> QED BY <1>1, <1>2, <2>1, FailHeld, SenseConstants
<1> QED
  BY <1>3, <1>4, <1>5, <1>6, <1>7, <1>8, <1>9, <1>10, <1>11, <1>12, <1>13, <1>14

\* putByte, in the command phase: the descriptor block is whole, and is run, or
\* it is not.
LEMMA PutCommandIs ==
  ASSUME NEW id, NEW t, TargetOK(t), t.phase = "command", NEW blocks,
         NEW value \in Byte, NEW s \in PutCommand(id, t, blocks, value)
  PROVE  \E u : \/ Commanded(u) /\ s \in Execute(id, u, blocks)
                \/ Held(u) /\ u.phase = "command" /\ s = Step(u, blocks)
<1> DEFINE c == Append(t.command, value)
           u == [t EXCEPT !.command = c]
<1>1. t \in TargetState /\ t.command \in Seq(Byte)
  BY DEF TargetOK, TargetState
<1>2. /\ c \in Seq(Byte) /\ Len(c) = Len(t.command) + 1 /\ c # <<>>
      /\ c[1] = IF t.command = <<>> THEN value ELSE t.command[1]
  <2>1. /\ c \in Seq(Byte) /\ Len(c) = Len(t.command) + 1
        /\ \A i \in 1..Len(t.command) : c[i] = t.command[i]
        /\ c[Len(t.command) + 1] = value
    BY <1>1, AppendProperties
  <2>2. Len(t.command) \in Nat /\ (t.command = <<>> => Len(t.command) = 0)
        /\ (t.command # <<>> => Len(t.command) > 0)
    BY <1>1, EmptySeq, LenProperties
  <2> HIDE DEF c
  <2>3. c # <<>>
    BY <2>1, <2>2, EmptySeq
  <2> QED BY <2>1, <2>2, <2>3
<1> HIDE DEF c
<1>3. c[1] \in Byte
  BY <1>1, <1>2, ElementOfSeq, EmptySeq
<1>4. CommandLengthOf(c[1]) \in {6, 10, 12}
  BY <1>3, Lengths
<1>5. Len(c) <= CommandLengthOf(c[1])
  <2>1. CASE t.command = <<>>
    BY <1>2, <1>4, <2>1, EmptySeq
  <2>2. CASE t.command # <<>>
    <3>1. Len(t.command) < CommandLengthOf(c[1]) /\ Len(t.command) \in Nat
      BY <1>1, <1>2, <2>2, LenProperties DEF TargetOK
    <3> QED BY <1>2, <1>4, <3>1
  <2> QED BY <2>1, <2>2
<1>6. /\ u \in TargetState /\ u.command = c /\ u.phase = "command"
      /\ u.status = t.status /\ u.sense = t.sense
  BY <1>1, <1>2 DEF TargetState
<1>7. s \in IF Len(u.command) >= CommandLengthOf(u.command[1])
              THEN Execute(id, u, blocks)
              ELSE {Step(u, blocks)}
  BY DEF PutCommand, c
<1> HIDE DEF u
<1>8. Sensed(u)
  BY <1>6 DEF Sensed, TargetOK
<1>9. CASE Len(c) >= CommandLengthOf(c[1])
  <2>1. Len(c) \in Nat
    BY <1>2, LenProperties
  <2>2. Whole(c)
    BY <1>2, <1>4, <1>5, <1>9, <2>1 DEF Whole
  <2>3. Commanded(u)
    BY <1>6, <1>8, <2>2 DEF Commanded
  <2> QED BY <1>6, <1>7, <1>9, <2>3
<1>10. CASE ~(Len(c) >= CommandLengthOf(c[1]))
  <2>1. Len(c) \in Nat
    BY <1>2, LenProperties
  <2>2. Len(c) < CommandLengthOf(c[1])
    BY <1>4, <1>10, <2>1
  <2>3. Held(u)
    BY <1>6, <1>8, <2>2 DEF Held, TargetOK
  <2>4. s = Step(u, blocks)
    BY <1>6, <1>7, <1>10
  <2> QED BY <1>6, <2>3, <2>4
<1> QED BY <1>9, <1>10

LEMMA PutCommandOK ==
  ASSUME NEW id, NEW t, TargetOK(t), t.phase = "command", NEW blocks \in Disk,
         NEW value \in Byte, NEW s \in PutCommand(id, t, blocks, value)
  PROVE  StepOK(s)
<1>1. PICK u : \/ Commanded(u) /\ s \in Execute(id, u, blocks)
               \/ Held(u) /\ u.phase = "command" /\ s = Step(u, blocks)
  BY PutCommandIs
<1> QED BY <1>1, ExecuteOK DEF StepOK, Step

\* A target with one byte more of the data it awaits.
OneMore(t, u, value) ==
  /\ Commanded(u) /\ Awaits(u, u.after) /\ u.after \in Afterwards
  /\ u.phase = "dataOut" /\ u.command = t.command /\ u.after = t.after
  /\ u.index = t.index + 1 /\ u.index <= Len(u.data) /\ Len(u.data) = Len(t.data)
  /\ u.data[u.index] = value /\ \A i \in 1..t.index : u.data[i] = t.data[i]

\* putByte, in the data out phase: the byte was the last, or was not.
LEMMA PutDataIs ==
  ASSUME NEW t, TargetOK(t), t.phase = "dataOut", NEW blocks,
         NEW value \in Byte, NEW s \in PutData(t, blocks, value)
  PROVE  \E u : /\ OneMore(t, u, value)
                /\ \/ u.index = Len(u.data) /\ s \in AfterDataOut(u, blocks, u.after)
                   \/ Held(u) /\ s = Step(u, blocks)
<1> DEFINE next == t.index + 1
           data == [t.data EXCEPT ![next] = value]
           u == [t EXCEPT !.data = data, !.index = next]
<1>1. /\ t \in TargetState /\ t.data \in Seq(Nat) /\ Len(t.data) \in Nat
      /\ t.index \in Nat /\ t.index < Len(t.data)
  BY LenProperties DEF TargetOK, TargetState
<1>2. data \in Seq(Nat) /\ Len(data) = Len(t.data)
  <2>1. next \in 1..Len(t.data)
    BY SMTT(30), <1>1
  <2>2. value \in Nat
    BY DEF Byte
  <2> HIDE DEF next
  <2> QED BY <1>1, <2>1, <2>2, ExceptSeq
<1>0. next \in Nat /\ next <= Len(t.data)
  BY <1>1
<1>9. data[next] = value /\ \A i \in 1..t.index : data[i] = t.data[i]
  <2>1. next \in 1..Len(t.data) /\ \A i \in 1..t.index : i # next
    BY SMTT(30), <1>1
  <2> HIDE DEF next
  <2> QED BY <1>1, <2>1, LenProperties, SMTT(30)
<1>a. next = t.index + 1
  OBVIOUS
<1> HIDE DEF data, next
<1>3. /\ u \in TargetState /\ u.data = data /\ u.index = next /\ u.phase = "dataOut"
      /\ u.command = t.command /\ u.after = t.after /\ u.status = t.status /\ u.sense = t.sense
  BY <1>0, <1>1, <1>2 DEF TargetState
<1>4. s \in IF u.index = Len(u.data) THEN AfterDataOut(u, blocks, u.after) ELSE {Step(u, blocks)}
  <2>1. u = [t EXCEPT !.data[t.index + 1] = value, !.index = @ + 1]
    BY <1>1 DEF data, next, TargetState
  <2> HIDE DEF u
  <2> QED BY <2>1 DEF PutData
<1> HIDE DEF u
<1>5. Awaits(u, u.after)
  <2>1. Awaits(t, t.after)
    BY DEF TargetOK
  <2> QED BY <1>2, <1>3, <2>1 DEF Awaits
<1>6. Commanded(u) /\ Sensed(u) /\ u.after \in Afterwards
  BY <1>3, <1>5 DEF Commanded, Sensed, TargetOK, Awaits, TargetState
<1>b. OneMore(t, u, value)
  BY <1>0, <1>2, <1>3, <1>5, <1>6, <1>9, <1>a DEF OneMore
<1>7. CASE u.index = Len(u.data)
  BY <1>4, <1>7, <1>b
<1>8. CASE u.index # Len(u.data)
  <2>1. u.index < Len(u.data)
    BY <1>0, <1>1, <1>2, <1>3, <1>8
  <2>2. Held(u)
    BY <1>3, <1>5, <1>6, <2>1 DEF Held, TargetOK
  <2> QED BY <1>4, <1>8, <1>b, <2>2
<1> QED BY <1>7, <1>8

LEMMA PutDataOK ==
  ASSUME NEW t, TargetOK(t), t.phase = "dataOut", NEW blocks \in Disk,
         NEW value \in Byte, NEW s \in PutData(t, blocks, value)
  PROVE  StepOK(s)
<1>1. PICK u : /\ OneMore(t, u, value)
               /\ \/ u.index = Len(u.data) /\ s \in AfterDataOut(u, blocks, u.after)
                  \/ Held(u) /\ s = Step(u, blocks)
  BY PutDataIs
<1> QED BY <1>1, AfterDataOutOK DEF OneMore, StepOK, Step

\* getByte: the bus is let go by the message alone.
LEMMA GetByteOK ==
  ASSUME NEW t, TargetOK(t), t.phase \in AckPhases
  PROVE  /\ TargetOK(GetByte(t))
         /\ t.phase = "dataIn" => GetByte(t).phase # "busFree"
<1>1. t \in TargetState /\ Sensed(t)
  BY DEF TargetOK
<1>2. CASE t.phase = "dataIn"
  <2> DEFINE next == t.index + 1
             phase == IF next = Len(t.data) THEN "status" ELSE "dataIn"
             u == [t EXCEPT !.index = next, !.phase = phase]
  <2>1. GetByte(t) = u
    BY <1>1, <1>2 DEF GetByte, TargetState
  <2>2. /\ next \in Nat /\ (phase = "dataIn" => next < Len(t.data))
        /\ phase \in {"status", "dataIn"}
    <3>1. t.index \in Nat /\ t.data \in Seq(Nat) /\ t.index < Len(t.data)
      BY <1>1, <1>2 DEF TargetOK, TargetState
    <3> QED BY <3>1, LenProperties
  <2> HIDE DEF next, phase
  <2>3. /\ u \in TargetState /\ u.index = next /\ u.data = t.data /\ u.phase = phase
        /\ u.status = t.status /\ u.sense = t.sense
    BY <1>1, <2>2 DEF TargetState, Phase
  <2> HIDE DEF u
  <2>4. u.phase = "dataIn" => u.index < Len(u.data)
    BY <2>2, <2>3
  <2> QED BY <1>1, <2>1, <2>2, <2>3, <2>4 DEF TargetOK, Sensed
<1>3. CASE t.phase = "status"
  BY <1>1, <1>3 DEF GetByte, TargetOK, Sensed, TargetState, Phase
<1>4. CASE t.phase = "messageIn"
  BY <1>1, <1>4 DEF GetByte, TargetOK, Sensed, TargetState, Phase
<1> QED BY <1>2, <1>3, <1>4 DEF AckPhases

\* startSelection
LEMMA StartSelectionHeld ==
  ASSUME NEW t, t \in TargetState
  PROVE  Held(StartSelection(t))
<1>1. <<>> \in Seq(Nat) /\ <<>> \in Seq(Byte)
  BY EmptySeq
<1>2. StartSelection(t) \in TargetState
  BY <1>1 DEF StartSelection, TargetState, Phase
<1> QED
  BY <1>2, SenseConstants DEF StartSelection, TargetState, Held, TargetOK, Sensed

\* busReset
LEMMA BusResetOK ==
  ASSUME NEW t, t \in TargetState
  PROVE  TargetOK(BusReset(t)) /\ BusReset(t).phase = "busFree"
<1>1. <<>> \in Seq(Nat) /\ <<>> \in Seq(Byte)
  BY EmptySeq
<1>2. BusReset(t) \in TargetState
  BY <1>1 DEF BusReset, TargetState, Phase
<1> QED
  BY <1>2, SenseConstants DEF BusReset, TargetState, TargetOK, Sensed

-----------------------------------------------------------------------------
(* The controller.                                                         *)

\* The inductive invariant: what the phases of the targets promise, and who
\* holds the bus.
IInv ==
  /\ lines \subseteq Line
  /\ outputData \in Byte
  /\ selected \in Targets \cup {Free}
  /\ target \in [Targets -> TargetState]
  /\ \A id \in Targets : TargetOK(target[id])
  /\ medium \in [Targets -> Disk]
  /\ before \in [Targets -> Disk]
  /\ sent \in Seq(Nat)
  /\ taken \in Seq(Nat)
  /\ OneTargetHoldsTheBus
  /\ SelectionAnswered

\* The id that stands for a free bus is the initiator's, no target's.
LEMMA FreeIsNoTarget == Free \notin Targets
BY DEF Free, InitiatorId

\* The data bus names a target whenever it wants one.
LEMMA NamedTarget ==
  ASSUME NEW ls, NEW value
  PROVE  /\ Named(ls, value) \in Targets \cup {Free}
         /\ {"sel", "data"} \subseteq ls /\ Wanted(value) # {} => Named(ls, value) \in Targets
<1>1. ASSUME NEW S \in SUBSET (0..6), S # {}
      PROVE  \E id \in S : \A other \in S : id <= other
  <2>1. CASE 0 \in S
    BY <2>1
  <2>2. CASE 0 \notin S /\ 1 \in S
    BY <2>2
  <2>3. CASE 0 \notin S /\ 1 \notin S /\ 2 \in S
    BY <2>3
  <2>4. CASE 0 \notin S /\ 1 \notin S /\ 2 \notin S /\ 3 \in S
    BY <2>4
  <2>5. CASE 0 \notin S /\ 1 \notin S /\ 2 \notin S /\ 3 \notin S /\ 4 \in S
    BY <2>5
  <2>6. CASE 0 \notin S /\ 1 \notin S /\ 2 \notin S /\ 3 \notin S /\ 4 \notin S /\ 5 \in S
    BY <2>6
  <2>7. CASE 0 \notin S /\ 1 \notin S /\ 2 \notin S /\ 3 \notin S /\ 4 \notin S /\ 5 \notin S
    <3>1. S \subseteq {6}
      BY <2>7
    <3>2. 6 \in S /\ \A other \in S : other = 6
      BY <1>1, <3>1
    <3> QED BY <3>2
  <2> QED BY <2>1, <2>2, <2>3, <2>4, <2>5, <2>6, <2>7
<1>2. Wanted(value) \in SUBSET (0..6) /\ Wanted(value) \subseteq Targets
  <2>1. Wanted(value) \subseteq Targets
    BY DEF Wanted
  <2>2. InitiatorId - 1 = 6
    BY DEF InitiatorId
  <2> QED BY <2>1, <2>2
<1>3. Wanted(value) # {} =>
        (CHOOSE id \in Wanted(value) : \A other \in Wanted(value) : id <= other) \in Targets
  BY <1>1, <1>2
<1> QED BY <1>3 DEF Named

\* What the selection leaves: the target chosen is the one that has the bus.
LEMMA StartedOK ==
  ASSUME IInv, NEW ls, NEW value
  PROVE  /\ Chosen(ls, value) \in Targets \cup {Free}
         /\ Started(ls, value) \in [Targets -> TargetState]
         /\ \A id \in Targets :
              /\ TargetOK(Started(ls, value)[id])
              /\ Started(ls, value)[id].phase # "busFree" <=> id = Chosen(ls, value)
         /\ {"sel", "data"} \subseteq ls /\ Wanted(value) # {} => Chosen(ls, value) # Free
<1>1. /\ Named(ls, value) \in Targets \cup {Free}
      /\ {"sel", "data"} \subseteq ls /\ Wanted(value) # {} => Named(ls, value) \in Targets
  BY NamedTarget
<1>2. Chosen(ls, value) = IF selected = Free THEN Named(ls, value) ELSE selected
  BY DEF Chosen
<1>3. ASSUME NEW id \in Targets
      PROVE  /\ Started(ls, value)[id] \in TargetState
             /\ TargetOK(Started(ls, value)[id])
             /\ Started(ls, value)[id].phase # "busFree" <=> id = Chosen(ls, value)
  <2>1. target[id] \in TargetState /\ TargetOK(target[id])
    BY DEF IInv
  <2>2. target[id].phase # "busFree" <=> id = selected
    BY DEF IInv, OneTargetHoldsTheBus, PhaseOf
  <2>3. Started(ls, value)[id] = IF selected = Free /\ id = Named(ls, value)
                                   THEN StartSelection(target[id]) ELSE target[id]
    BY DEF Started
  <2>4. CASE selected = Free /\ id = Named(ls, value)
    <3>1. Held(StartSelection(target[id]))
      BY <2>1, StartSelectionHeld
    <3> QED BY <1>2, <2>3, <2>4, <3>1 DEF Held, TargetOK
  <2>5. CASE ~(selected = Free /\ id = Named(ls, value))
    BY <1>2, <2>1, <2>2, <2>3, <2>5, FreeIsNoTarget
  <2> QED BY <2>4, <2>5
<1>4. Started(ls, value) \in [Targets -> TargetState]
  BY <1>3 DEF Started
<1> QED BY <1>1, <1>2, <1>3, <1>4, FreeIsNoTarget DEF IInv

\* What a byte leaves: the other targets stay as they are, and the bus is
\* held until the target that has it lets it go.
LEMMA OneTargetMoves ==
  ASSUME IInv, selected # Free, NEW u, TargetOK(u),
         target' = [target EXCEPT ![selected] = u],
         selected' = Holder(selected, target')
  PROVE  /\ selected' \in Targets \cup {Free}
         /\ target' \in [Targets -> TargetState]
         /\ \A id \in Targets : TargetOK(target'[id])
         /\ OneTargetHoldsTheBus'
<1>1. selected \in Targets /\ u \in TargetState
  BY DEF IInv, TargetOK
<1>2. /\ target' \in [Targets -> TargetState]
      /\ target'[selected] = u
      /\ \A id \in Targets : id # selected => target'[id] = target[id]
  BY <1>1 DEF IInv
<1>3. selected' = IF u.phase = "busFree" THEN Free ELSE selected
  BY <1>2 DEF Holder
<1>4. \A id \in Targets : target'[id].phase # "busFree" <=> id = selected'
  BY <1>1, <1>2, <1>3, FreeIsNoTarget DEF IInv, OneTargetHoldsTheBus, PhaseOf
<1> QED
  BY <1>1, <1>2, <1>3, <1>4 DEF IInv, OneTargetHoldsTheBus, PhaseOf

\* The history is made of bytes that were.
LEMMA RememberType ==
  ASSUME IInv, medium' \in [Targets -> Disk], NEW s \in Seq(Nat), NEW t \in Seq(Nat),
         Remember(s, t)
  PROVE  before' \in [Targets -> Disk] /\ sent' \in Seq(Nat) /\ taken' \in Seq(Nat)
BY EmptySeq DEF IInv, Remember

\* The bytes of the initiator are bytes.
LEMMA OfferedType ==
  ASSUME IInv
  PROVE  Offered \subseteq Byte
<1>1. \A id \in 0..7 : Bit(id) \in 0..128 /\ (id < 7 => Bit(id) <= 64)
  BY DEF Bit
<1>2. Masks \subseteq Byte
  <2>1. Bit(7) \in Byte
    BY <1>1 DEF Byte
  <2>2. ASSUME NEW id \in Ids
        PROVE  Bit(7) + Bit(id) \in Byte
    <3>1. id \in 0..6
      BY DEF InitiatorId
    <3>2. Bit(id) \in 0..64 /\ Bit(7) \in 0..128
      BY <1>1, <3>1
    <3> QED BY <3>2 DEF Byte
  <2> QED BY <2>1, <2>2 DEF Masks, InitiatorId
<1>3. ASSUME NEW n \in Nat, NEW d \in Descriptors, n < Len(d)
      PROVE  d[n + 1] \in Byte
  <2>1. d \in Seq(Byte) /\ Len(d) \in Nat
    BY DescriptorsAssumption, LenProperties
  <2>2. n + 1 \in 1..Len(d)
    BY <1>3, <2>1
  <2> QED BY <2>1, <2>2, ElementOfSeq
<1>4. CASE CurrentPhase = "busFree"
  BY <1>2, <1>4 DEF Offered
<1>5. CASE CurrentPhase = "command"
  <2> DEFINE c == target[selected].command
  <2>1. selected \in Targets
    BY <1>5 DEF IInv, CurrentPhase
  <2>2. c \in Seq(Byte)
    BY <2>1 DEF IInv, TargetState
  <2>3. Len(c) \in Nat
    BY <2>2, LenProperties
  <2>4. Offered = {d[Len(c) + 1] : d \in {e \in Descriptors : Len(c) < Len(e) /\ First(e, Len(c)) = c}}
    BY <1>5 DEF Offered
  <2> HIDE DEF c
  <2> QED BY <1>3, <2>3, <2>4
<1>6. CASE CurrentPhase = "dataOut"
  BY <1>6 DEF Offered
<1>7. CASE CurrentPhase \notin {"busFree", "command", "dataOut"}
  BY <1>7 DEF Offered
<1> QED BY <1>4, <1>5, <1>6, <1>7

\* The byte a target shows is one it has.
LEMMA PeekByteType ==
  ASSUME NEW t, TargetOK(t), t.phase = "dataIn"
  PROVE  PeekByte(t) \in Nat
<1>1. t.data \in Seq(Nat) /\ t.index \in Nat /\ t.index < Len(t.data)
  BY DEF TargetOK, TargetState
<1>2. t.index + 1 \in 1..Len(t.data)
  BY <1>1, LenProperties
<1>3. PeekByte(t) = t.data[t.index + 1]
  BY DEF PeekByte
<1> QED BY SMTT(30), <1>1, <1>2, <1>3, ElementOfSeq

\* A byte for the target: what it leaves is what a target may be left with,
\* and a disk stays a disk.
LEMMA PutOK ==
  ASSUME IInv, selected # Free, NEW steps, \A s \in steps : StepOK(s), Put(steps)
  PROVE  /\ \E u : /\ Held(u)
                   /\ target' = [target EXCEPT ![selected] = u]
         /\ medium' \in [Targets -> Disk]
<1>1. PICK s \in steps : /\ target' = [target EXCEPT ![selected] = s.target]
                        /\ medium' = [medium EXCEPT ![selected] = s.blocks]
  BY DEF Put
<1>2. Held(s.target) /\ s.blocks \in Disk
  BY <1>1 DEF StepOK
<1> QED BY <1>1, <1>2 DEF IInv

\* The target that holds the bus is in a phase of a command.
LEMMA HolderIsHeld ==
  ASSUME IInv, CurrentPhase # "busFree"
  PROVE  /\ selected \in Targets /\ selected # Free
         /\ TargetOK(target[selected])
         /\ CurrentPhase = target[selected].phase
         /\ medium[selected] \in Disk
<1>1. selected # Free
  BY DEF CurrentPhase
<1> QED BY <1>1 DEF IInv, CurrentPhase, PhaseOf

\* The lines of the status registers tell the phases of the data apart.
LEMMA PhaseIsSeen ==
  ASSUME IInv, NEW phase \in {"dataIn", "dataOut"}, Transfers(phase)
  PROVE  CurrentPhase = phase
<1>1. PhaseMatches(phase)
  BY DEF Transfers, BusAndStatus
<1>2. CurrentPhase # "busFree" /\ PhaseLines(CurrentPhase) = PhaseLines(phase)
  BY <1>1 DEF PhaseMatches
<1>3. CurrentPhase \in {"command", "dataIn", "dataOut", "status", "messageIn"}
  <2>1. TargetOK(target[selected]) /\ selected \in Targets /\ CurrentPhase = target[selected].phase
    BY <1>2, HolderIsHeld
  <2> QED BY <1>2, <2>1 DEF IInv, TargetState, Phase
<1> QED BY <1>2, <1>3 DEF PhaseLines

\* The history of the data sent is one of bytes.
LEMMA SentType ==
  ASSUME IInv, NEW value \in Byte
  PROVE  Sent(value) \in Seq(Nat)
<1>1. value \in Nat /\ sent \in Seq(Nat)
  BY DEF IInv, Byte
<1> QED BY <1>1, AppendProperties DEF Sent

-----------------------------------------------------------------------------
(* The invariant.                                                          *)

\* The machine starts with the bus free.
LEMMA InitInv == Init => IInv
<1> SUFFICES ASSUME Init PROVE IInv
  OBVIOUS
<1>1. NewTarget \in TargetState
  <2>1. <<>> \in Seq(Nat) /\ <<>> \in Seq(Byte)
    BY EmptySeq
  <2>2. [i \in 1..BufferSize |-> 0] \in [1..BufferSize -> Nat]
    OBVIOUS
  <2> QED BY <2>1, <2>2 DEF NewTarget, TargetState, Phase, Afterwards
<1>2. TargetOK(NewTarget)
  BY <1>1, SenseConstants DEF NewTarget, TargetOK, Sensed
<1>3. target = [id \in Targets |-> NewTarget] /\ selected = Free
  BY DEF Init
<1>4. OneTargetHoldsTheBus
  BY <1>3, FreeIsNoTarget DEF OneTargetHoldsTheBus, PhaseOf, NewTarget
<1>5. medium \in [Targets -> Disk] /\ before \in [Targets -> Disk]
  BY DEF Init, Disk, ABlock
<1>6. lines = {} /\ outputData \in Byte /\ sent \in Seq(Nat) /\ taken \in Seq(Nat)
  BY EmptySeq DEF Init, Byte
<1>7. SelectionAnswered
  BY <1>6 DEF SelectionAnswered
<1> QED BY <1>1, <1>2, <1>3, <1>4, <1>5, <1>6, <1>7 DEF IInv

\* Poke of the data register may select.
LEMMA PokeDataInv ==
  ASSUME IInv, NEW value \in Offered, PokeData(value)
  PROVE  IInv'
<1>1. value \in Byte
  BY OfferedType
<1>2. /\ selected' = Chosen(lines, value) /\ target' = Started(lines, value)
      /\ outputData' = value /\ lines' = lines /\ medium' = medium /\ Remember(sent, taken)
  BY DEF PokeData
<1>3. /\ selected' \in Targets \cup {Free} /\ target' \in [Targets -> TargetState]
      /\ \A id \in Targets : TargetOK(target'[id])
      /\ OneTargetHoldsTheBus'
  BY <1>2, StartedOK DEF OneTargetHoldsTheBus, PhaseOf
<1>4. SelectionAnswered'
  BY <1>2, StartedOK DEF SelectionAnswered, Wanted
<1>5. before' \in [Targets -> Disk] /\ sent' \in Seq(Nat) /\ taken' \in Seq(Nat)
  BY <1>2, RememberType DEF IInv
<1> QED BY <1>1, <1>2, <1>3, <1>4, <1>5 DEF IInv

\* Poke of the initiator command register, with no byte to move: the target
\* chosen is in a phase of a command, so that it is not let go.
LEMMA DriveInv ==
  ASSUME IInv, NEW ls \in Driven, Drive(ls)
  PROVE  IInv'
<1>1. /\ lines' = ls /\ target' = Started(ls, outputData) /\ outputData' = outputData
      /\ selected' = Holder(Chosen(ls, outputData), target') /\ medium' = medium
      /\ Remember(sent, taken)
  BY DEF Drive
<1>2. ls \subseteq Line
  BY DEF Driven, Line
<1>3. selected' = Chosen(ls, outputData)
  <2>1. CASE Chosen(ls, outputData) = Free
    BY <1>1, <2>1 DEF Holder
  <2>2. CASE Chosen(ls, outputData) # Free
    <3> DEFINE id == Chosen(ls, outputData)
    <3>1. /\ id \in Targets \cup {Free}
          /\ \A other \in Targets :
               Started(ls, outputData)[other].phase # "busFree" <=> other = id
      BY StartedOK
    <3> HIDE DEF id
    <3>2. Started(ls, outputData)[id].phase # "busFree"
      BY <2>2, <3>1 DEF id
    <3> QED BY <1>1, <3>2 DEF Holder, id
  <2> QED BY <2>1, <2>2
<1>4. /\ selected' \in Targets \cup {Free} /\ target' \in [Targets -> TargetState]
      /\ \A id \in Targets : TargetOK(target'[id])
      /\ OneTargetHoldsTheBus'
  BY <1>1, <1>3, StartedOK DEF OneTargetHoldsTheBus, PhaseOf
<1>5. SelectionAnswered'
  BY <1>1, <1>3, StartedOK DEF SelectionAnswered, Wanted
<1>6. before' \in [Targets -> Disk] /\ sent' \in Seq(Nat) /\ taken' \in Seq(Nat)
  BY <1>1, RememberType DEF IInv
<1> QED BY <1>1, <1>2, <1>4, <1>5, <1>6 DEF IInv

\* With the acknowledge up there is no selection to answer.
LEMMA AckNotSelecting ==
  ASSUME NEW ls \in Driven, "ack" \in ls
  PROVE  ls \subseteq Line /\ "sel" \notin ls
BY DEF Driven, Line

\* A byte for the target, taken on the acknowledge.
LEMMA AckPutInv ==
  ASSUME IInv, NEW ls \in Driven, AckPut(ls)
  PROVE  IInv'
<1>1. /\ "ack" \in ls /\ lines' = ls /\ outputData' = outputData
      /\ selected' = Holder(selected, target') /\ Remember(Sent(outputData), taken)
  BY DEF AckPut, Rises
<1>2. outputData \in Byte
  BY DEF IInv
<1>3. /\ selected # Free
      /\ \E u : Held(u) /\ target' = [target EXCEPT ![selected] = u]
      /\ medium' \in [Targets -> Disk]
  <2>1. CASE /\ CurrentPhase = "command"
             /\ Put(PutCommand(selected, target[selected], medium[selected], outputData))
    <3>1. /\ selected # Free /\ TargetOK(target[selected])
          /\ target[selected].phase = "command" /\ medium[selected] \in Disk
      BY <2>1, HolderIsHeld
    <3>2. \A s \in PutCommand(selected, target[selected], medium[selected], outputData) : StepOK(s)
      BY <1>2, <3>1, PutCommandOK
    <3> QED BY <2>1, <3>1, <3>2, PutOK
  <2>2. CASE /\ CurrentPhase = "dataOut"
             /\ Put(PutData(target[selected], medium[selected], outputData))
    <3>1. /\ selected # Free /\ TargetOK(target[selected])
          /\ target[selected].phase = "dataOut" /\ medium[selected] \in Disk
      BY <2>2, HolderIsHeld
    <3>2. \A s \in PutData(target[selected], medium[selected], outputData) : StepOK(s)
      BY <1>2, <3>1, PutDataOK
    <3> QED BY <2>2, <3>1, <3>2, PutOK
  <2> QED BY <2>1, <2>2 DEF AckPut
<1>4. PICK u : TargetOK(u) /\ target' = [target EXCEPT ![selected] = u]
  BY <1>3 DEF Held
<1>5. /\ selected' \in Targets \cup {Free} /\ target' \in [Targets -> TargetState]
      /\ \A id \in Targets : TargetOK(target'[id])
      /\ OneTargetHoldsTheBus'
  BY <1>1, <1>3, <1>4, OneTargetMoves
<1>6. ls \subseteq Line /\ SelectionAnswered'
  BY <1>1, AckNotSelecting DEF SelectionAnswered
<1>7. before' \in [Targets -> Disk] /\ sent' \in Seq(Nat) /\ taken' \in Seq(Nat)
  <2>1. taken \in Seq(Nat) /\ Sent(outputData) \in Seq(Nat)
    BY <1>2, SentType DEF IInv
  <2> QED BY <1>1, <1>3, <2>1, RememberType
<1> QED BY <1>1, <1>2, <1>3, <1>5, <1>6, <1>7 DEF IInv

\* A byte for the initiator, given up on the acknowledge.
LEMMA AckGetInv ==
  ASSUME IInv, NEW ls \in Driven, AckGet(ls)
  PROVE  IInv'
<1> DEFINE took == IF CurrentPhase = "dataIn" /\ target' # target
                     THEN Append(taken, PeekByte(target[selected]))
                     ELSE taken
<1>1. /\ "ack" \in ls /\ lines' = ls /\ outputData' = outputData /\ medium' = medium
      /\ selected' = Holder(selected, target') /\ Remember(sent, took)
      /\ CurrentPhase \in {"dataIn", "status", "messageIn"}
  BY DEF AckGet, Rises
<1>2. /\ selected \in Targets /\ selected # Free /\ TargetOK(target[selected])
      /\ target[selected].phase = CurrentPhase /\ CurrentPhase \in AckPhases
  BY <1>1, HolderIsHeld DEF AckPhases
<1>3. target' = [target EXCEPT ![selected] = GetByte(target[selected])]
  BY <1>2 DEF AckGet
<1>4. TargetOK(GetByte(target[selected]))
  BY <1>2, GetByteOK
<1>5. /\ selected' \in Targets \cup {Free} /\ target' \in [Targets -> TargetState]
      /\ \A id \in Targets : TargetOK(target'[id])
      /\ OneTargetHoldsTheBus'
  BY <1>1, <1>2, <1>3, <1>4, OneTargetMoves
<1>6. ls \subseteq Line /\ SelectionAnswered'
  BY <1>1, AckNotSelecting DEF SelectionAnswered
<1>7. took \in Seq(Nat) /\ sent \in Seq(Nat) /\ medium' \in [Targets -> Disk]
  <2>1. taken \in Seq(Nat) /\ sent \in Seq(Nat)
    BY DEF IInv
  <2>2. CurrentPhase = "dataIn" => PeekByte(target[selected]) \in Nat
    BY <1>2, PeekByteType
  <2> QED BY <1>1, <2>1, <2>2, AppendProperties DEF IInv
<1> HIDE DEF took
<1>8. before' \in [Targets -> Disk] /\ sent' \in Seq(Nat) /\ taken' \in Seq(Nat)
  BY <1>1, <1>7, RememberType
<1> QED BY <1>1, <1>5, <1>6, <1>7, <1>8 DEF IInv

\* The pseudo DMA write.
LEMMA DackWriteInv ==
  ASSUME IInv, NEW value \in Data, DackWrite(value)
  PROVE  IInv'
<1>1. /\ CurrentPhase = "dataOut" /\ outputData' = value /\ lines' = lines
      /\ selected' = selected /\ Remember(Sent(value), taken)
      /\ Put(PutData(target[selected], medium[selected], value))
  BY PhaseIsSeen DEF DackWrite
<1>2. value \in Byte
  OBVIOUS
<1>3. /\ selected # Free /\ selected \in Targets /\ TargetOK(target[selected])
      /\ target[selected].phase = "dataOut" /\ medium[selected] \in Disk
  BY <1>1, HolderIsHeld
<1>4. \A s \in PutData(target[selected], medium[selected], value) : StepOK(s)
  BY <1>2, <1>3, PutDataOK
<1>5. /\ \E u : Held(u) /\ target' = [target EXCEPT ![selected] = u]
      /\ medium' \in [Targets -> Disk]
  BY <1>1, <1>3, <1>4, PutOK
<1>6. PICK u : Held(u) /\ target' = [target EXCEPT ![selected] = u]
  BY <1>5
<1>7. selected' = Holder(selected, target')
  <2>1. target'[selected].phase # "busFree"
    BY <1>3, <1>6 DEF Held, IInv
  <2> QED BY <1>1, <2>1 DEF Holder
<1>8. /\ target' \in [Targets -> TargetState]
      /\ \A id \in Targets : TargetOK(target'[id])
      /\ OneTargetHoldsTheBus'
  BY <1>3, <1>6, <1>7, OneTargetMoves DEF Held
<1>9. SelectionAnswered'
  BY <1>1, <1>3 DEF SelectionAnswered
<1>10. before' \in [Targets -> Disk] /\ sent' \in Seq(Nat) /\ taken' \in Seq(Nat)
  <2>1. taken \in Seq(Nat) /\ Sent(value) \in Seq(Nat)
    BY <1>2, SentType DEF IInv
  <2> QED BY <1>1, <1>5, <2>1, RememberType
<1> QED BY <1>1, <1>2, <1>3, <1>5, <1>8, <1>9, <1>10 DEF IInv

\* The pseudo DMA read.
LEMMA DackReadInv ==
  ASSUME IInv, DackRead
  PROVE  IInv'
<1> DEFINE t == target[selected]
<1>1. /\ CurrentPhase = "dataIn" /\ outputData' = outputData /\ lines' = lines
      /\ selected' = selected /\ medium' = medium
      /\ Remember(sent, Append(taken, PeekByte(t)))
      /\ target' = [target EXCEPT ![selected] = GetByte(t)]
  BY PhaseIsSeen DEF DackRead
<1>2. selected # Free /\ selected \in Targets /\ TargetOK(t) /\ t.phase = "dataIn"
  BY <1>1, HolderIsHeld
<1>3. TargetOK(GetByte(t)) /\ GetByte(t).phase # "busFree"
  BY <1>2, GetByteOK DEF AckPhases
<1>4. selected' = Holder(selected, target')
  <2>1. target'[selected].phase # "busFree"
    BY <1>1, <1>2, <1>3 DEF IInv
  <2> QED BY <1>1, <2>1 DEF Holder
<1>5. /\ target' \in [Targets -> TargetState]
      /\ \A id \in Targets : TargetOK(target'[id])
      /\ OneTargetHoldsTheBus'
  BY <1>1, <1>2, <1>3, <1>4, OneTargetMoves
<1>6. SelectionAnswered'
  BY <1>1, <1>2 DEF SelectionAnswered
<1>7. /\ Append(taken, PeekByte(t)) \in Seq(Nat) /\ sent \in Seq(Nat)
      /\ medium' \in [Targets -> Disk]
  <2>1. taken \in Seq(Nat) /\ sent \in Seq(Nat)
    BY DEF IInv
  <2>2. PeekByte(t) \in Nat
    BY <1>2, PeekByteType
  <2> QED BY <1>1, <2>1, <2>2, AppendProperties DEF IInv
<1>8. before' \in [Targets -> Disk] /\ sent' \in Seq(Nat) /\ taken' \in Seq(Nat)
  BY <1>1, <1>7, RememberType
<1> QED BY <1>1, <1>2, <1>5, <1>6, <1>7, <1>8 DEF IInv

\* The reset leaves no target in a phase of a command.
LEMMA ResetInv ==
  ASSUME IInv, Reset
  PROVE  IInv'
<1>1. /\ lines' = {"rst"} /\ outputData' = 0 /\ selected' = Free /\ medium' = medium
      /\ target' = [id \in Targets |-> BusReset(target[id])] /\ Remember(sent, taken)
  BY DEF Reset
<1>2. ASSUME NEW id \in Targets
      PROVE  TargetOK(target'[id]) /\ target'[id].phase = "busFree"
  <2>1. target'[id] = BusReset(target[id]) /\ target[id] \in TargetState
    BY <1>1 DEF IInv
  <2> QED BY <2>1, BusResetOK
<1>3. target' \in [Targets -> TargetState]
  BY <1>1, <1>2 DEF TargetOK
<1>4. OneTargetHoldsTheBus'
  BY <1>1, <1>2, FreeIsNoTarget DEF OneTargetHoldsTheBus, PhaseOf
<1>5. lines' \subseteq Line /\ outputData' \in Byte /\ SelectionAnswered'
  BY <1>1 DEF Line, Byte, SelectionAnswered
<1>6. before' \in [Targets -> Disk] /\ sent' \in Seq(Nat) /\ taken' \in Seq(Nat)
  BY <1>1, RememberType DEF IInv
<1> QED BY <1>1, <1>2, <1>3, <1>4, <1>5, <1>6 DEF IInv

\* A step keeps the invariant.
LEMMA NextInv == IInv /\ [Next]_vars => IInv'
<1> SUFFICES ASSUME IInv, [Next]_vars PROVE IInv'
  OBVIOUS
<1>1. ASSUME NEW value \in Offered, PokeData(value) PROVE IInv'
  BY <1>1, PokeDataInv
<1>2. ASSUME NEW ls \in Driven, Drive(ls) PROVE IInv'
  BY <1>2, DriveInv
<1>3. ASSUME NEW ls \in Driven, AckPut(ls) PROVE IInv'
  BY <1>3, AckPutInv
<1>4. ASSUME NEW ls \in Driven, AckGet(ls) PROVE IInv'
  BY <1>4, AckGetInv
<1>5. ASSUME NEW value \in Data, DackWrite(value) PROVE IInv'
  BY <1>5, DackWriteInv
<1>6. CASE DackRead
  BY <1>6, DackReadInv
<1>7. CASE Reset
  BY <1>7, ResetInv
<1>8. CASE UNCHANGED vars
  BY <1>8 DEF vars, IInv, OneTargetHoldsTheBus, PhaseOf, SelectionAnswered, Wanted
<1> QED BY <1>1, <1>2, <1>3, <1>4, <1>5, <1>6, <1>7, <1>8 DEF Next

\* The invariant holds of every behaviour.
THEOREM Invariant == Spec => []IInv
BY InitInv, NextInv, PTL DEF Spec

\* Every variable keeps its type; a block stays a sequence of bytes.
THEOREM TypeCorrect == Spec => []TypeOK
<1>1. ASSUME NEW d \in Disk
      PROVE  d \in [0..Blocks - 1 -> Seq(Nat)]
  <2>1. \A b \in 0..Blocks - 1 : d[b] \in Seq(Nat)
    BY FunctionIsSeq DEF Disk, ABlock
  <2> QED BY <2>1 DEF Disk
<1>2. IInv => TypeOK
  BY <1>1 DEF IInv, TypeOK
<1> QED BY <1>2, Invariant, PTL

\* The controller and the targets agree on who holds the bus, and a selection
\* is answered in whatever order its lines come, whatever the disks, and
\* whatever the driver resets and when (bus.go).
THEOREM BusHasOneHolder == Spec => []BusFollowsItsTarget
<1>1. IInv => BusFollowsItsTarget
  BY DEF IInv, BusFollowsItsTarget
<1> QED BY <1>1, Invariant, PTL

\* No target asks for a byte it has no room for, or offers one it has not, and
\* a target that refused a command can say why (disk.go).
THEOREM TargetsKeepTheirWord == Spec => []TargetKeepsItsWord
<1>1. IInv => NeverEmptyHanded
  BY DEF IInv, TargetOK, NeverEmptyHanded, PhaseOf
<1>2. IInv => CheckedMeansSense
  BY DEF IInv, TargetOK, Sensed, CheckedMeansSense
<1> QED BY <1>1, <1>2, Invariant, PTL DEF TargetKeepsItsWord

-----------------------------------------------------------------------------
(* What has been moved.  The invariant tells, of the target that holds the *)
(* bus, how what was sent and taken so far stands to what it has, and to   *)
(* its disk as it was when the target was selected.                        *)

\* What was sent so far is what the target has of it.
SoFar(t, s) == Len(s) = t.index /\ \A i \in 1..t.index : s[i] = t.data[i]

HasList(c) == c[1] = FormatUnit /\ (c[2] \div 16) % 2 = 1

\* In the data out phase: the data awaited are what the command announces.
Sending(id, t, s) ==
  LET c == t.command IN
    /\ t.after = "write" =>
         /\ IsWrite(c) /\ id \notin ReadOnly
         /\ Len(t.data) = Count(c) * BlockSize /\ SoFar(t, s)
    /\ t.after = "buffer" =>
         c[1] = WriteBuffer /\ Len(t.data) = BufferLength(c) /\ Len(s) = t.index
    /\ t.after = "list" => HasList(c) /\ SoFar(t, s)
    /\ t.after = "ignore" =>
         \/ c[1] = ModeSelect6 /\ Len(t.data) = c[5] /\ Len(s) = t.index
         \/ HasList(c) /\ Len(t.data) = ListLength(s) /\ Len(s) = HeaderLength + t.index

\* The commands that take data, or may.
Takers == {Write6, Write10, ModeSelect6, WriteBuffer, FormatUnit}

\* In the data in phase: a read gives the blocks it named.
Giving(t, blocks, k) ==
  LET c == t.command IN
    /\ Whole(c)
    /\ c[1] \notin Takers
    /\ t.status = Good
    /\ IsRead(c) =>
         /\ t.data = DataOfBlocks(blocks, Block(c), Count(c))
         /\ \A n \in 0..Count(c) - 1 : Block(c) + n \in 0..Blocks - 1
         /\ Len(k) = t.index
         /\ \A i \in 1..t.index : k[i] = t.data[i]

\* Once the command is over, what the properties say of it.
Ended(id, t, blocks, was, s, k) ==
  LET c == t.command IN
    /\ \A b \in 0..Blocks - 1 :
         blocks[b] = IF HasWritten(t, b) /\ id \notin ReadOnly
                       THEN Chunk(s, b - Block(c)) ELSE was[b]
    /\ t.status = Good => Len(s) = Announced(c, s)
    /\ IsRead(c) =>
         IF t.status = Good
           THEN /\ Len(k) = Count(c) * BlockSize
                /\ \A n \in 0..Count(c) - 1 : Chunk(k, n) = blocks[Block(c) + n]
           ELSE k = <<>>

\* The disk as it was and is, and what was sent and taken, in any phase.
Told(id, t, blocks, was, s, k) ==
  /\ t.phase = "command" => blocks = was /\ s = <<>> /\ k = <<>>
  /\ t.phase = "dataOut" => blocks = was /\ k = <<>> /\ Sending(id, t, s)
  /\ t.phase = "dataIn" => blocks = was /\ s = <<>> /\ Giving(t, blocks, k)
  /\ t.phase \in {"status", "messageIn"} => Ended(id, t, blocks, was, s, k)

History ==
  IF selected = Free
    THEN before = medium /\ sent = <<>> /\ taken = <<>>
    ELSE /\ \A id \in Targets \ {selected} : medium[id] = before[id]
         /\ Told(selected, target[selected], medium[selected], before[selected], sent, taken)

\* No bytes are no blocks.
LEMMA NoBytes ==
  ASSUME NEW n \in Nat, n * BlockSize = 0
  PROVE  n = 0
<1>1. SUFFICES ASSUME 1 <= n PROVE FALSE
  OBVIOUS
<1>2. 1 * BlockSize <= n * BlockSize
  BY <1>1, FewerBytes
<1> QED BY <1>2

LEMMA NothingAnnounced ==
  ASSUME NEW c, c[1] \notin Takers, NEW s
  PROVE  Announced(c, s) = 0 /\ ~IsWrite(c)
BY DEF Announced, Takers, IsWrite

LEMMA EmptyLength == Len(<<>>) = 0
OBVIOUS

\* A command that moved nothing leaves nothing to account for.
LEMMA EndedQuietly ==
  ASSUME NEW id, NEW t, NEW blocks,
         IsWrite(t.command) => t.status = CheckCondition /\ t.sense # MediumError,
         t.status = Good => Announced(t.command, <<>>) = 0,
         IsRead(t.command) => t.status # Good
  PROVE  Ended(id, t, blocks, blocks, <<>>, <<>>)
<1>1. \A b : ~HasWritten(t, b)
  BY DEF HasWritten, Good, CheckCondition
<1> QED BY <1>1, EmptyLength DEF Ended

\* fail
LEMMA FailTold ==
  ASSUME NEW id, NEW t, t \in TargetState, NEW blocks, NEW key \in Senses \ {MediumError}
  PROVE  Told(id, Fail(t, key), blocks, blocks, <<>>, <<>>)
<1> DEFINE u == Fail(t, key)
<1>1. u.status = CheckCondition /\ u.sense = key /\ u.phase = "status" /\ u.command = t.command
  BY DEF Fail, TargetState
<1>2. u.status # Good
  BY <1>1 DEF Good, CheckCondition
<1> HIDE DEF u
<1>3. Ended(id, u, blocks, blocks, <<>>, <<>>)
  BY <1>1, <1>2, EndedQuietly
<1>4. Told(id, u, blocks, blocks, <<>>, <<>>)
  BY <1>1, <1>3 DEF Told
<1> QED BY <1>4 DEF u

\* finishGood, of a command that moves nothing.
LEMMA FinishedTold ==
  ASSUME NEW id, NEW t, t \in TargetState, NEW blocks,
         ~IsWrite(t.command), ~IsRead(t.command), Announced(t.command, <<>>) = 0
  PROVE  Told(id, Finished(t), blocks, blocks, <<>>, <<>>)
<1> DEFINE u == Finished(t)
<1>1. u.phase = "status" /\ u.command = t.command
  BY DEF Finished, TargetState
<1> HIDE DEF u
<1>2. Ended(id, u, blocks, blocks, <<>>, <<>>)
  BY <1>1, EndedQuietly
<1>3. Told(id, u, blocks, blocks, <<>>, <<>>)
  BY <1>1, <1>2 DEF Told
<1> QED BY <1>3 DEF u

\* What sendData leaves.
LEMMA SendDataLeaves ==
  ASSUME NEW t, t \in TargetState, NEW data \in Seq(Nat)
  PROVE  LET u == SendData(t, data) IN
           /\ u.status = Good /\ u.command = t.command /\ u.data = data /\ u.index = 0
           /\ u.phase = IF data = <<>> THEN "status" ELSE "dataIn"
BY DEF SendData, TargetState

\* sendData, of a command that is no read of blocks.
LEMMA SendDataTold ==
  ASSUME NEW id, NEW t, t \in TargetState, NEW blocks, NEW data \in Seq(Nat),
         Whole(t.command), t.command[1] \notin Takers, ~IsRead(t.command)
  PROVE  Told(id, SendData(t, data), blocks, blocks, <<>>, <<>>)
<1> DEFINE u == SendData(t, data)
<1>1. /\ u.status = Good /\ u.command = t.command
      /\ u.phase \in {"status", "dataIn"}
  BY SendDataLeaves
<1> HIDE DEF u
<1>2. Ended(id, u, blocks, blocks, <<>>, <<>>)
  BY <1>1, EndedQuietly, NothingAnnounced
<1>3. Giving(u, blocks, <<>>)
  BY <1>1 DEF Giving
<1>4. Told(id, u, blocks, blocks, <<>>, <<>>)
  BY <1>1, <1>2, <1>3 DEF Told
<1> QED BY <1>4 DEF u

\* The bytes of the blocks a command names, counted.
LEMMA DataOfBlocksLength ==
  ASSUME NEW blocks \in Disk, NEW block \in Nat, NEW count \in Nat,
         \A i \in 0..count - 1 : block + i \in 0..Blocks - 1
  PROVE  /\ DataOfBlocks(blocks, block, count) \in Seq(Nat)
         /\ Len(DataOfBlocks(blocks, block, count)) = count * BlockSize
<1>1. count * BlockSize \in Nat
  OBVIOUS
<1>2. DataOfBlocks(blocks, block, count) \in Seq(Nat)
  BY DataOfBlocksType
<1>3. DOMAIN DataOfBlocks(blocks, block, count) = 1..count * BlockSize
  BY DEF DataOfBlocks
<1> QED BY <1>1, <1>2, <1>3, LenProperties

\* read
LEMMA ReadBlocksTold ==
  ASSUME NEW id, NEW t, Commanded(t), IsRead(t.command), NEW blocks \in Disk,
         NEW u \in ReadBlocks(t, blocks)
  PROVE  Told(id, u, blocks, blocks, <<>>, <<>>)
<1> DEFINE c == t.command
           v == [t EXCEPT !.sense = NoSense]
           all == DataOfBlocks(blocks, Block(c), Count(c))
<1>1. t \in TargetState /\ Whole(c) /\ v \in TargetState /\ v.command = c
  BY DEF Commanded, TargetState
<1>2. Block(c) \in Nat /\ Count(c) \in Nat /\ c[1] \notin Takers /\ ~IsWrite(c) /\ c[1] \in {Read6, Read10}
  BY <1>1, NamedBlocks DEF IsRead, IsWrite, Takers, Read6, Read10, Write6, Write10, ModeSelect6,
     WriteBuffer, FormatUnit
<1>3. PICK n \in Moved(c) :
        u = IF n = Count(c)
              THEN SendData(v, DataOfBlocks(blocks, Block(c), n))
              ELSE FailAt(t, Block(c) + n)
  BY DEF ReadBlocks
<1>4. n \in 0..Count(c) /\ \A i \in 0..n - 1 : Block(c) + i \in 0..Blocks - 1
  BY <1>2, MovedBlocks
<1>5. CASE n # Count(c)
  <2>1. /\ u.status = CheckCondition /\ u.phase = "status" /\ u.command = c
    BY <1>1, <1>3, <1>5 DEF FailAt, Fail, TargetState
  <2>2. u.status # Good
    BY <2>1 DEF Good, CheckCondition
  <2>3. Ended(id, u, blocks, blocks, <<>>, <<>>)
    BY <1>2, <2>1, <2>2, EndedQuietly
  <2> QED BY <2>1, <2>3 DEF Told
<1>6. CASE n = Count(c)
  <2>1. u = SendData(v, all)
    BY <1>3, <1>6
  <2>2. all \in Seq(Nat) /\ Len(all) = Count(c) * BlockSize
    BY <1>2, <1>4, <1>6, DataOfBlocksLength
  <2> HIDE DEF all, v
  <2>3. /\ u.status = Good /\ u.command = c /\ u.data = all /\ u.index = 0
        /\ u.phase = IF all = <<>> THEN "status" ELSE "dataIn"
    BY <1>1, <2>1, <2>2, SendDataLeaves
  <2>4. CASE all = <<>>
    <3>1. Count(c) * BlockSize = 0 /\ Count(c) = 0
      BY <1>2, <2>2, <2>4, NoBytes
    <3>2. Len(<<>>) = Count(c) * BlockSize /\ 0..Count(c) - 1 = {}
      BY <3>1
    <3>3. \A b : ~HasWritten(u, b)
      BY <1>2, <2>3 DEF HasWritten
    <3>4. Announced(c, <<>>) = 0
      BY <1>2, NothingAnnounced
    <3>5. Ended(id, u, blocks, blocks, <<>>, <<>>)
      BY <2>3, <3>2, <3>3, <3>4, EmptyLength DEF Ended
    <3> QED BY <2>3, <2>4, <3>5 DEF Told
  <2>5. CASE all # <<>>
    <3>1. Giving(u, blocks, <<>>)
      <4>1. u.data = DataOfBlocks(blocks, Block(c), Count(c))
        BY <2>3 DEF all
      <4>2. \A m \in 0..Count(c) - 1 : Block(c) + m \in 0..Blocks - 1
        BY <1>4, <1>6
      <4>3. 1..u.index = {} /\ Len(<<>>) = u.index
        BY <2>3
      <4> QED BY <1>1, <1>2, <2>3, <4>1, <4>2, <4>3 DEF Giving
    <3> QED BY <2>3, <2>5, <3>1 DEF Told
  <2> QED BY <2>4, <2>5
<1> QED BY <1>5, <1>6

\* All a command announced has come, and what follows it is to be done.
AllSent(id, t, after, s) ==
  LET c == t.command IN
    /\ after = "write" =>
         /\ IsWrite(c) /\ id \notin ReadOnly
         /\ Len(s) = Count(c) * BlockSize
         /\ s = t.data \/ Count(c) = 0
    /\ after = "buffer" => c[1] = WriteBuffer /\ Len(s) = BufferLength(c)
    /\ after = "list" => HasList(c) /\ s = t.data /\ Len(s) = HeaderLength
    /\ after = "ignore" =>
         \/ c[1] = ModeSelect6 /\ Len(s) = c[5]
         \/ HasList(c) /\ Len(s) = HeaderLength + ListLength(s)

\* The numbers of the commands that take data are their own.
LEMMA TakersApart ==
  ASSUME NEW c, NEW s
  PROVE  /\ IsWrite(c) => Announced(c, s) = Count(c) * BlockSize /\ ~IsRead(c)
         /\ c[1] = ModeSelect6 => Announced(c, s) = c[5] /\ ~IsRead(c) /\ ~IsWrite(c)
         /\ c[1] = WriteBuffer => Announced(c, s) = BufferLength(c) /\ ~IsRead(c) /\ ~IsWrite(c)
         /\ HasList(c) => /\ Announced(c, s) = HeaderLength + ListLength(s)
                          /\ ~IsRead(c) /\ ~IsWrite(c)
BY DEF Announced, IsWrite, IsRead, HasList, Write6, Write10, Read6, Read10, ModeSelect6,
   WriteBuffer, FormatUnit

\* completeWrite: the blocks the sense or the status tells of, and no other,
\* hold what was sent for them.
LEMMA CompleteWriteTold ==
  ASSUME NEW id, NEW t, t \in TargetState, Awaits(t, "write"), NEW blocks \in Disk, NEW s,
         AllSent(id, t, "write", s), NEW step \in CompleteWrite(t, blocks)
  PROVE  Told(id, step.target, step.blocks, blocks, s, <<>>)
<1> DEFINE c == t.command
           u == step.target
<1>1. /\ IsWrite(c) /\ id \notin ReadOnly /\ Len(s) = Count(c) * BlockSize
      /\ s = t.data \/ Count(c) = 0
  BY DEF AllSent
<1>2. Block(c) \in Nat /\ Count(c) \in Nat
  BY NamedBlocks DEF Awaits
<1>3. PICK n \in Moved(c) :
        step = Step(IF n = Count(c)
                      THEN Finished([t EXCEPT !.sense = NoSense])
                      ELSE FailAt(t, Block(c) + n),
                    Overwritten(blocks, Block(c), n, t.data))
  BY DEF CompleteWrite
<1>4. n \in 0..Count(c)
  BY <1>2, MovedBlocks
<1>5. /\ u.command = c /\ u.phase = "status"
      /\ \/ n = Count(c) /\ u.status = Good
         \/ n # Count(c) /\ u.status = CheckCondition /\ u.sense = MediumError
              /\ u.info = Block(c) + n
  <2>1. CASE n = Count(c)
    <3>1. u = Finished([t EXCEPT !.sense = NoSense])
      BY <1>3, <2>1 DEF Step
    <3> QED BY <2>1, <3>1 DEF Finished, TargetState
  <2>2. CASE n # Count(c)
    <3>1. u = FailAt(t, Block(c) + n)
      BY <1>3, <2>2 DEF Step
    <3> QED BY <2>2, <3>1 DEF FailAt, Fail, TargetState
  <2> QED BY <2>1, <2>2
<1>6. step.blocks = Overwritten(blocks, Block(c), n, t.data)
  BY <1>3 DEF Step
<1>7. ASSUME NEW b \in 0..Blocks - 1
      PROVE  HasWritten(u, b) <=> b \in Block(c)..Block(c) + n - 1
  <2> HIDE DEF u, c
  <2>1. CASE n = Count(c) /\ u.status = Good
    <3>1. HasWritten(u, b) <=> b >= Block(c) /\ b < Block(c) + Count(c)
      BY <1>1, <1>5, <2>1 DEF HasWritten, Good, CheckCondition
    <3> QED BY <1>2, <2>1, <3>1
  <2>2. CASE u.status = CheckCondition /\ u.sense = MediumError /\ u.info = Block(c) + n
    <3>1. HasWritten(u, b) <=> b >= Block(c) /\ b < Block(c) + n
      BY <1>1, <1>5, <2>2 DEF HasWritten, Good, CheckCondition
    <3> QED BY <1>2, <1>4, <3>1
  <2> QED BY <1>5, <2>1, <2>2
<1> HIDE DEF u, c
<1>8. ASSUME NEW b \in 0..Blocks - 1
      PROVE  step.blocks[b] = IF HasWritten(u, b) /\ id \notin ReadOnly
                                THEN Chunk(s, b - Block(c)) ELSE blocks[b]
  <2>1. b \in DOMAIN blocks
    BY DEF Disk
  <2>2. step.blocks[b] = IF b \in Block(c)..Block(c) + n - 1
                           THEN Chunk(t.data, b - Block(c)) ELSE blocks[b]
    BY <1>6, <2>1 DEF Overwritten
  <2>3. b \in Block(c)..Block(c) + n - 1 => s = t.data
    BY <1>1, <1>2, <1>4
  <2> QED BY <1>1, <1>7, <2>2, <2>3
<1>9. Len(s) = Announced(c, s) /\ ~IsRead(c)
  BY <1>1, TakersApart
<1>10. Ended(id, u, step.blocks, blocks, s, <<>>)
  BY <1>5, <1>8, <1>9 DEF Ended
<1>11. Told(id, u, step.blocks, blocks, s, <<>>)
  BY <1>5, <1>10 DEF Told
<1> QED BY <1>11 DEF u

\* A command that ends with what it took, and leaves the disk.
LEMMA EndedTaking ==
  ASSUME NEW id, NEW u, NEW blocks, NEW s, u.phase = "status",
         ~IsWrite(u.command), ~IsRead(u.command), Len(s) = Announced(u.command, s)
  PROVE  Told(id, u, blocks, blocks, s, <<>>)
<1>1. \A b : ~HasWritten(u, b)
  BY DEF HasWritten
<1> QED BY <1>1 DEF Told, Ended

\* completeWriteBuffer leaves the command and its phase as any other does.
LEMMA CompleteWriteBufferLeaves ==
  ASSUME NEW t, t \in TargetState
  PROVE  /\ CompleteWriteBuffer(t).phase = "status"
         /\ CompleteWriteBuffer(t).command = t.command
BY DEF CompleteWriteBuffer, Finished, TargetState

\* What a target awaits.
LEMMA AwaitDataLeaves ==
  ASSUME NEW t, t \in TargetState, NEW length \in Nat, NEW after
  PROVE  LET u == AwaitData(t, length, after) IN
           /\ u.phase = "dataOut" /\ u.command = t.command /\ u.index = 0
           /\ u.after = after /\ Len(u.data) = length
<1> DEFINE zeros == [i \in 1..length |-> 0]
<1>1. Len(zeros) = length
  BY FunctionIsSeq
<1>2. AwaitData(t, length, after) =
        [t EXCEPT !.data = zeros, !.index = 0, !.after = after, !.phase = "dataOut"]
  BY DEF AwaitData
<1> HIDE DEF zeros
<1> QED BY <1>1, <1>2 DEF TargetState

\* The defect list of a format, after its header.
LEMMA ReceiveListTold ==
  ASSUME NEW id, NEW t, t \in TargetState, NEW blocks, NEW s, HasList(t.command),
         Len(s) = HeaderLength, ListLength(s) \in Nat
  PROVE  Told(id, ReceiveList(t, ListLength(s)), blocks, blocks, s, <<>>)
<1> DEFINE length == ListLength(s)
           u == ReceiveList(t, length)
<1>1. CASE length = 0
  <2>1. u.phase = "status" /\ u.command = t.command
    BY <1>1 DEF ReceiveList, Finished, TargetState
  <2>2. Len(s) = Announced(t.command, s) /\ ~IsWrite(t.command) /\ ~IsRead(t.command)
    BY <1>1, TakersApart
  <2> HIDE DEF u
  <2>3. Told(id, u, blocks, blocks, s, <<>>)
    BY <2>1, <2>2, EndedTaking
  <2> QED BY <2>3 DEF u
<1>2. CASE length # 0
  <2>1. u = AwaitData(t, length, "ignore")
    BY <1>2 DEF ReceiveList
  <2>2. /\ u.phase = "dataOut" /\ u.command = t.command /\ u.index = 0
        /\ u.after = "ignore" /\ Len(u.data) = length
    BY <2>1, AwaitDataLeaves
  <2> HIDE DEF u
  <2>3. Sending(id, u, s)
    BY <2>2 DEF Sending
  <2>4. Told(id, u, blocks, blocks, s, <<>>)
    BY <2>2, <2>3 DEF Told
  <2> QED BY <2>4 DEF u
<1> QED BY <1>1, <1>2

\* afterDataOut
LEMMA AfterDataOutTold ==
  ASSUME NEW id, NEW t, Commanded(t), NEW after \in Afterwards, Awaits(t, after),
         NEW blocks \in Disk, NEW s, AllSent(id, t, after, s),
         NEW step \in AfterDataOut(t, blocks, after)
  PROVE  Told(id, step.target, step.blocks, blocks, s, <<>>)
<1>1. t \in TargetState
  BY DEF Commanded
<1>2. CASE after = "write"
  BY <1>1, <1>2, CompleteWriteTold DEF AfterDataOut
<1>3. CASE after = "buffer"
  <2>1. step.target = CompleteWriteBuffer(t) /\ step.blocks = blocks
    BY <1>3 DEF AfterDataOut, Step
  <2>2. step.target.phase = "status" /\ step.target.command = t.command
    BY <1>1, <2>1, CompleteWriteBufferLeaves
  <2>3. /\ Len(s) = Announced(t.command, s)
        /\ ~IsWrite(t.command) /\ ~IsRead(t.command)
    BY <1>3, TakersApart DEF AllSent
  <2> QED BY <2>1, <2>2, <2>3, EndedTaking
<1>4. CASE after = "list"
  <2>1. HasList(t.command) /\ s = t.data /\ Len(s) = HeaderLength
    BY <1>4 DEF AllSent
  <2>2. s \in Seq(Nat)
    BY <1>1, <2>1 DEF TargetState
  <2>3. ListLength(s) \in Nat
    BY <2>1, <2>2, ListLengthIs
  <2>4. step.target = ReceiveList(t, ListLength(s)) /\ step.blocks = blocks
    BY <1>4, <2>1 DEF AfterDataOut, Step
  <2> QED BY <1>1, <2>1, <2>3, <2>4, ReceiveListTold
<1>5. CASE after = "ignore"
  <2>1. step.target = Finished(t) /\ step.blocks = blocks
    BY <1>5 DEF AfterDataOut, Step
  <2>2. step.target.phase = "status" /\ step.target.command = t.command
    BY <1>1, <2>1 DEF Finished, TargetState
  <2>3. /\ Len(s) = Announced(t.command, s)
        /\ ~IsWrite(t.command) /\ ~IsRead(t.command)
    BY <1>5, TakersApart DEF AllSent
  <2> QED BY <2>1, <2>2, <2>3, EndedTaking
<1> QED BY <1>2, <1>3, <1>4, <1>5 DEF Afterwards

\* receive
LEMMA ReceiveTold ==
  ASSUME NEW id, NEW t, Commanded(t), NEW length \in Nat, NEW after \in Afterwards,
         after = "write" =>
           IsWrite(t.command) /\ id \notin ReadOnly /\ length = Count(t.command) * BlockSize,
         after = "buffer" => t.command[1] = WriteBuffer /\ length = BufferLength(t.command),
         after = "list" => HasList(t.command) /\ length = HeaderLength,
         after = "ignore" => t.command[1] = ModeSelect6 /\ length = t.command[5],
         NEW blocks \in Disk, NEW step \in Receive(t, blocks, length, after)
  PROVE  Told(id, step.target, step.blocks, blocks, <<>>, <<>>)
<1>1. t \in TargetState /\ Whole(t.command)
  BY DEF Commanded
<1>2. CASE length = 0
  <2>1. after # "list"
    BY <1>2
  <2>2. after = "write" => Count(t.command) = 0 /\ t.command[1] \in {Write6, Write10}
    <3> SUFFICES ASSUME after = "write"
                 PROVE  Count(t.command) = 0 /\ t.command[1] \in {Write6, Write10}
      OBVIOUS
    <3>1. t.command[1] \in {Write6, Write10}
      BY DEF IsWrite
    <3>2. Count(t.command) \in Nat
      BY <1>1, <3>1, NamedBlocks
    <3> QED BY <1>2, <3>1, <3>2, NoBytes
  <2>3. Awaits(t, after)
    BY <1>1, <2>1, <2>2 DEF Awaits
  <2>4. AllSent(id, t, after, <<>>)
    BY <1>2, <2>1, <2>2, EmptyLength DEF AllSent
  <2>5. step \in AfterDataOut(t, blocks, after)
    BY <1>2 DEF Receive
  <2> QED BY <2>3, <2>4, <2>5, AfterDataOutTold
<1>3. CASE length # 0
  <2>1. step.target = AwaitData(t, length, after) /\ step.blocks = blocks
    BY <1>3 DEF Receive, Step
  <2>2. /\ step.target.phase = "dataOut" /\ step.target.command = t.command
        /\ step.target.index = 0 /\ step.target.after = after
        /\ Len(step.target.data) = length
    BY <1>1, <2>1, AwaitDataLeaves
  <2>3. SoFar(step.target, <<>>)
    BY <2>2, EmptyLength DEF SoFar
  <2>4. Sending(id, step.target, <<>>)
    BY <2>2, <2>3, EmptyLength DEF Sending
  <2> QED BY <2>1, <2>2, <2>4 DEF Told
<1> QED BY <1>2, <1>3

\* write
LEMMA WriteBlocksTold ==
  ASSUME NEW id, NEW t, Commanded(t), IsWrite(t.command), NEW blocks \in Disk,
         NEW step \in WriteBlocks(id, t, blocks)
  PROVE  Told(id, step.target, step.blocks, blocks, <<>>, <<>>)
<1>1. CASE id \in ReadOnly
  <2>1. step.target = Fail(t, DataProtect) /\ step.blocks = blocks
    BY <1>1 DEF WriteBlocks, Step
  <2>2. DataProtect \in Senses \ {MediumError}
    BY DEF Senses, DataProtect, MediumError
  <2> QED BY <2>1, <2>2, FailTold DEF Commanded
<1>2. CASE id \notin ReadOnly
  <2>1. Count(t.command) \in Nat
    BY NamedBlocks DEF Commanded, IsWrite
  <2>2. Count(t.command) * BlockSize \in Nat /\ "write" \in Afterwards
    BY <2>1 DEF Afterwards
  <2>3. step \in Receive(t, blocks, Count(t.command) * BlockSize, "write")
    BY <1>2 DEF WriteBlocks
  <2> QED BY <1>2, <2>2, <2>3, ReceiveTold
<1> QED BY <1>1, <1>2

\* writeBuffer
LEMMA WriteToBufferTold ==
  ASSUME NEW id, NEW t, Commanded(t), t.command[1] = WriteBuffer, NEW blocks \in Disk,
         NEW step \in WriteToBuffer(t, blocks)
  PROVE  Told(id, step.target, step.blocks, blocks, <<>>, <<>>)
<1>1. CASE t.command[2] % 8 \in {0, 2}
  <2>1. BufferLength(t.command) \in Nat /\ "buffer" \in Afterwards
    BY BufferLengthType DEF Commanded, Afterwards
  <2>2. step \in Receive(t, blocks, BufferLength(t.command), "buffer")
    BY <1>1 DEF WriteToBuffer
  <2> QED BY <2>1, <2>2, ReceiveTold
<1>2. CASE t.command[2] % 8 \notin {0, 2}
  <2>1. step.target = Fail(t, IllegalRequest) /\ step.blocks = blocks
    BY <1>2 DEF WriteToBuffer, Step
  <2>2. IllegalRequest \in Senses \ {MediumError}
    BY DEF Senses, IllegalRequest, MediumError
  <2> QED BY <2>1, <2>2, FailTold DEF Commanded
<1> QED BY <1>1, <1>2

\* The commands that move nothing or send something of their own.
LEMMA GiversApart ==
  ASSUME NEW op \in {TestUnitReady, StartStopUnit, PreventRemoval, RequestSense, Inquiry,
                     ReadCapacity, ModeSense6, ReadBuffer}
  PROVE  op \notin Takers /\ op \notin {Read6, Read10}
<1> USE DEF TestUnitReady, StartStopUnit, PreventRemoval, RequestSense, Inquiry, ReadCapacity,
            ModeSense6, ReadBuffer, Read6, Read10, Write6, Write10, WriteBuffer, ModeSelect6,
            FormatUnit
<1>1. op \in {0, 27, 30, 3, 18, 37, 26, 60}
  OBVIOUS
<1> QED BY <1>1 DEF Takers

\* execute: every command starts its accounts from nothing moved.
LEMMA ExecuteTold ==
  ASSUME NEW id, NEW t, Commanded(t), NEW blocks \in Disk, NEW s \in Execute(id, t, blocks)
  PROVE  Told(id, s.target, s.blocks, blocks, <<>>, <<>>)
<1> DEFINE c == t.command
           op == t.command[1]
           Quiet(u) == s.target = u /\ s.blocks = blocks
<1> USE DEF TestUnitReady, StartStopUnit, PreventRemoval, RequestSense, Inquiry, ReadCapacity,
            ModeSense6, Read6, Read10, Write6, Write10, ReadBuffer, WriteBuffer, ModeSelect6,
            FormatUnit
<1>1. t \in TargetState /\ Whole(c) /\ c[5] \in Nat /\ c[2] \in Nat
  <2>1. t \in TargetState /\ Whole(c)
    BY DEF Commanded
  <2>2. \A i \in 1..6 : c[i] \in Byte
    BY <2>1, BytesOf
  <2>3. c[5] \in Byte /\ c[2] \in Byte
    BY <2>2
  <2> QED BY <2>1, <2>3 DEF Byte
<1>2. \A u : s = Step(u, blocks) => Quiet(u)
  BY DEF Step
<1>3. CASE op \in {TestUnitReady, StartStopUnit, PreventRemoval}
  <2>1. s = Step(Finished(t), blocks)
    BY <1>3 DEF Execute
  <2>2. c[1] \notin Takers /\ ~IsRead(c)
    <3>1. op \notin Takers /\ op \notin {Read6, Read10}
      BY <1>3, GiversApart
    <3> QED BY <3>1 DEF IsRead
  <2>3. ~IsWrite(c) /\ Announced(c, <<>>) = 0
    BY <2>2, NothingAnnounced
  <2> QED BY <1>1, <1>2, <2>1, <2>2, <2>3, FinishedTold
<1>4. ASSUME op \in {RequestSense, Inquiry, ReadCapacity, ModeSense6, ReadBuffer},
             NEW v, v \in TargetState, v.command = c, NEW data \in Seq(Nat),
             s = Step(SendData(v, data), blocks)
      PROVE  Told(id, s.target, s.blocks, blocks, <<>>, <<>>)
  <2>1. c[1] \notin Takers /\ ~IsRead(c)
    <3>1. op \notin Takers /\ op \notin {Read6, Read10}
      BY <1>4, GiversApart
    <3> QED BY <3>1 DEF IsRead
  <2>2. Told(id, SendData(v, data), blocks, blocks, <<>>, <<>>)
    BY <1>1, <1>4, <2>1, SendDataTold
  <2> QED BY <1>2, <1>4, <2>2
<1>5. CASE op = RequestSense
  <2> DEFINE v == [t EXCEPT !.sense = NoSense, !.info = 0]
  <2>1. s = Step(SendData(v, <<t.sense, t.info>>), blocks)
    BY <1>5 DEF Execute, SendSense
  <2>2. v \in TargetState /\ v.command = c
    BY <1>1 DEF TargetState
  <2>3. t.sense \in Nat /\ t.info \in Nat
    BY <1>1 DEF TargetState, NoSense, MediumError, IllegalRequest, UnitAttention, DataProtect
  <2>4. <<t.sense, t.info>> \in Seq(Nat)
    BY <2>3
  <2> QED BY <1>4, <1>5, <2>1, <2>2, <2>4
<1>6. CASE op = Inquiry
  <2>1. s = Step(SendData(t, CutIfAny(InquiryData, c[5])), blocks)
    BY <1>6 DEF Execute
  <2>2. CutIfAny(InquiryData, c[5]) \in Seq(Nat)
    BY <1>1, CutType, SelfDescriptions
  <2> QED BY <1>1, <1>4, <1>6, <2>1, <2>2
<1>7. CASE op = ReadCapacity
  <2>1. s = Step(SendData(t, CapacityData), blocks)
    BY <1>7 DEF Execute
  <2> QED BY <1>1, <1>4, <1>7, <2>1, SelfDescriptions
<1>8. CASE op = ModeSense6
  <2>1. s = Step(SendData(t, CutIfAny(ModeSenseData(id), c[5])), blocks)
    BY <1>8 DEF Execute
  <2>2. CutIfAny(ModeSenseData(id), c[5]) \in Seq(Nat)
    BY <1>1, CutType, SelfDescriptions
  <2> QED BY <1>1, <1>4, <1>8, <2>1, <2>2
<1>9. ASSUME s = Step(Fail(t, IllegalRequest), blocks)
      PROVE  Told(id, s.target, s.blocks, blocks, <<>>, <<>>)
  <2>1. IllegalRequest \in Senses \ {MediumError}
    BY DEF Senses, IllegalRequest, MediumError
  <2> QED BY <1>1, <1>2, <1>9, <2>1, FailTold
<1>10. CASE op = ReadBuffer
  <2>1. s = Step(ReadFromBuffer(t), blocks)
    BY <1>10 DEF Execute
  <2>2. CASE \E data \in Seq(Nat) : ReadFromBuffer(t) = SendData(t, data)
    BY <1>1, <1>4, <1>10, <2>1, <2>2
  <2>3. CASE ReadFromBuffer(t) = Fail(t, IllegalRequest)
    BY <1>9, <2>1, <2>3
  <2> QED BY <1>10, <2>2, <2>3, ReadFromBufferIs
<1>11. CASE op \in {Read6, Read10}
  <2>1. PICK u \in ReadBlocks(t, blocks) : s = Step(u, blocks)
    BY <1>11 DEF Execute
  <2>2. IsRead(c)
    BY <1>11 DEF IsRead
  <2> QED BY <1>2, <2>1, <2>2, ReadBlocksTold
<1>12. CASE op \in {Write6, Write10}
  <2>1. s \in WriteBlocks(id, t, blocks)
    BY <1>12 DEF Execute
  <2>2. IsWrite(c)
    BY <1>12 DEF IsWrite
  <2> QED BY <2>1, <2>2, WriteBlocksTold
<1>13. CASE op = WriteBuffer
  <2>1. s \in WriteToBuffer(t, blocks)
    BY <1>13 DEF Execute
  <2> QED BY <1>13, <2>1, WriteToBufferTold
<1>14. CASE op = ModeSelect6
  <2>1. s \in Receive(t, blocks, c[5], "ignore")
    BY <1>14 DEF Execute
  <2>2. "ignore" \in Afterwards
    BY DEF Afterwards
  <2> QED BY <1>1, <1>14, <2>1, <2>2, ReceiveTold
<1>15. CASE op = FormatUnit
  <2>1. CASE (c[2] \div 16) % 2 = 0
    <3>1. s = Step(Finished(t), blocks)
      BY <1>15, <2>1 DEF Execute
    <3>2. ~IsWrite(c) /\ ~IsRead(c)
      BY <1>15 DEF IsWrite, IsRead
    <3>3. Announced(c, <<>>) = 0
      BY <1>15, <2>1 DEF Announced, IsWrite
    <3> QED BY <1>1, <1>2, <3>1, <3>2, <3>3, FinishedTold
  <2>2. CASE (c[2] \div 16) % 2 # 0
    <3>1. s \in Receive(t, blocks, HeaderLength, "list")
      BY <1>15, <2>2 DEF Execute
    <3>2. (c[2] \div 16) \in Nat
      BY <1>1
    <3>3. HasList(c)
      BY <1>15, <2>2, <3>2 DEF HasList
    <3>4. "list" \in Afterwards
      BY DEF Afterwards
    <3> QED BY <3>1, <3>3, <3>4, ReceiveTold
  <2> QED BY <2>1, <2>2
<1>16. CASE op \notin {TestUnitReady, StartStopUnit, PreventRemoval, RequestSense, Inquiry,
                       ReadCapacity, ModeSense6, Read6, Read10, Write6, Write10, ReadBuffer,
                       WriteBuffer, ModeSelect6, FormatUnit}
  <2>1. s = Step(Fail(t, IllegalRequest), blocks)
    BY <1>16 DEF Execute
  <2> QED BY <1>9, <2>1
<1> QED
  BY <1>3, <1>5, <1>6, <1>7, <1>8, <1>10, <1>11, <1>12, <1>13, <1>14, <1>15, <1>16

\* putByte, in the command phase.
LEMMA PutCommandTold ==
  ASSUME NEW id, NEW t, TargetOK(t), t.phase = "command", NEW blocks \in Disk,
         NEW value \in Byte, NEW s \in PutCommand(id, t, blocks, value)
  PROVE  Told(id, s.target, s.blocks, blocks, <<>>, <<>>)
<1>1. PICK u : \/ Commanded(u) /\ s \in Execute(id, u, blocks)
               \/ Held(u) /\ u.phase = "command" /\ s = Step(u, blocks)
  BY PutCommandIs
<1>2. CASE Commanded(u) /\ s \in Execute(id, u, blocks)
  BY <1>2, ExecuteTold
<1>3. CASE u.phase = "command" /\ s = Step(u, blocks)
  BY <1>3 DEF Told, Step
<1> QED BY <1>1, <1>2, <1>3

\* One byte more has been sent, and the target has it.
LEMMA SoFarGrows ==
  ASSUME NEW t, NEW u, NEW value, NEW s \in Seq(Nat), value \in Nat, t.index \in Nat,
         OneMore(t, u, value), SoFar(t, s)
  PROVE  SoFar(u, Append(s, value))
<1>1. /\ Len(Append(s, value)) = Len(s) + 1 /\ Append(s, value)[Len(s) + 1] = value
      /\ \A i \in 1..Len(s) : Append(s, value)[i] = s[i]
  BY AppendProperties
<1>2. /\ Len(s) = t.index /\ u.index = t.index + 1 /\ u.data[t.index + 1] = value
      /\ \A i \in 1..t.index : s[i] = t.data[i] /\ u.data[i] = t.data[i]
  BY DEF SoFar, OneMore
<1> DEFINE grown == Append(s, value)
<1> HIDE DEF grown
<1>3. Len(grown) = u.index
  BY <1>1, <1>2 DEF grown
<1>4. \A i \in 1..u.index : grown[i] = u.data[i]
  <2> SUFFICES ASSUME NEW i \in 1..u.index PROVE grown[i] = u.data[i]
    OBVIOUS
  <2>1. i \in 1..t.index \/ i = t.index + 1
    BY <1>2
  <2> QED BY <1>1, <1>2, <2>1 DEF grown
<1> QED BY <1>3, <1>4 DEF SoFar, grown

\* What has been sent so far is all of it once it is as long as the data.
LEMMA SoFarIsAll ==
  ASSUME NEW u, NEW s \in Seq(Nat), u.data \in Seq(Nat), SoFar(u, s), u.index = Len(u.data)
  PROVE  s = u.data
BY SeqEqual DEF SoFar

\* putByte, in the data out phase.
LEMMA PutDataTold ==
  ASSUME NEW id, NEW t, TargetOK(t), t.phase = "dataOut", NEW blocks \in Disk,
         NEW value \in Byte, NEW s \in Seq(Nat), Sending(id, t, s),
         NEW step \in PutData(t, blocks, value)
  PROVE  Told(id, step.target, step.blocks, blocks, Append(s, value), <<>>)
<1> DEFINE grown == Append(s, value)
<1>1. PICK u : /\ OneMore(t, u, value)
               /\ \/ u.index = Len(u.data) /\ step \in AfterDataOut(u, blocks, u.after)
                  \/ Held(u) /\ step = Step(u, blocks)
  BY PutDataIs
<1>2. /\ value \in Nat /\ t.index \in Nat /\ u.index = t.index + 1
      /\ u.command = t.command /\ u.after = t.after /\ Len(u.data) = Len(t.data)
      /\ u.phase = "dataOut" /\ u.data \in Seq(Nat) /\ Commanded(u)
      /\ u.after \in Afterwards /\ Awaits(u, u.after)
  BY <1>1, SMTT(30) DEF TargetOK, TargetState, OneMore, Byte, Commanded
<1>3. /\ grown \in Seq(Nat) /\ Len(grown) = Len(s) + 1 /\ Len(s) \in Nat
      /\ \A i \in 1..Len(s) : grown[i] = s[i]
  BY <1>2, AppendProperties, LenProperties
<1>4. SoFar(t, s) => SoFar(u, grown)
  BY <1>1, <1>2, SoFarGrows
<1> HIDE DEF grown
<1>5. Sending(id, u, grown)
  <2>1. u.after = "write" =>
          /\ IsWrite(u.command) /\ id \notin ReadOnly
          /\ Len(u.data) = Count(u.command) * BlockSize /\ SoFar(u, grown)
    BY <1>2, <1>4 DEF Sending
  <2>2. u.after = "buffer" =>
          /\ u.command[1] = WriteBuffer /\ Len(u.data) = BufferLength(u.command)
          /\ Len(grown) = u.index
    BY <1>2, <1>3 DEF Sending
  <2>3. u.after = "list" => HasList(u.command) /\ SoFar(u, grown)
    BY <1>2, <1>4 DEF Sending
  <2>4. ASSUME u.after = "ignore", t.command[1] = ModeSelect6, Len(t.data) = t.command[5],
               Len(s) = t.index
        PROVE  u.command[1] = ModeSelect6 /\ Len(u.data) = u.command[5] /\ Len(grown) = u.index
    BY <1>2, <1>3, <2>4
  <2>5. ASSUME u.after = "ignore", HasList(t.command), Len(t.data) = ListLength(s),
               Len(s) = HeaderLength + t.index
        PROVE  /\ HasList(u.command) /\ Len(u.data) = ListLength(grown)
               /\ Len(grown) = HeaderLength + u.index
    <3>1. Len(s) >= HeaderLength
      <4>1. HeaderLength \in Nat \ {0}
        OBVIOUS
      <4>2. Len(s) = HeaderLength + t.index /\ t.index \in Nat
        BY <1>2, <2>5
      <4> QED BY ONLY <4>1, <4>2
    <3>2. ListLength(grown) = ListLength(s)
      BY <1>3, <3>1, ListLengthStays
    <3> QED BY <1>2, <1>3, <2>5, <3>2
  <2>6. u.after = "ignore" =>
          \/ t.command[1] = ModeSelect6 /\ Len(t.data) = t.command[5] /\ Len(s) = t.index
          \/ /\ HasList(t.command) /\ Len(t.data) = ListLength(s)
             /\ Len(s) = HeaderLength + t.index
    BY <1>2 DEF Sending
  <2> QED BY <2>1, <2>2, <2>3, <2>4, <2>5, <2>6 DEF Sending
<1>6. CASE u.index = Len(u.data) /\ step \in AfterDataOut(u, blocks, u.after)
  <2>1. SoFar(u, grown) => grown = u.data
    BY <1>2, <1>3, <1>6, SoFarIsAll
  <2>2. AllSent(id, u, u.after, grown)
    BY <1>2, <1>5, <1>6, <2>1 DEF Sending, AllSent, SoFar, Awaits
  <2> QED BY <1>2, <1>6, <2>2, AfterDataOutTold DEF grown
<1>7. CASE step = Step(u, blocks)
  BY <1>2, <1>5, <1>7 DEF Told, Step, grown
<1> QED BY <1>1, <1>6, <1>7

\* The byte of a block, and the block, a place in the data is of.
LEMMA Place ==
  ASSUME NEW n \in Nat, NEW i \in 0..BlockSize - 1, NEW x \in Nat, x = n * BlockSize + i
  PROVE  x \div BlockSize = n /\ x % BlockSize = i
<1> DEFINE q == x \div BlockSize
           r == x % BlockSize
<1>1. q \in Nat /\ r \in 0..BlockSize - 1 /\ x = q * BlockSize + r
  OBVIOUS
<1> HIDE DEF q, r
<1>2. ASSUME NEW a \in Nat, NEW b \in Nat, a < b,
             NEW v \in 0..BlockSize - 1, NEW w \in 0..BlockSize - 1,
             a * BlockSize + v = b * BlockSize + w
      PROVE  FALSE
  <2>1. a + 1 \in Nat /\ a + 1 <= b /\ BlockSize \in Nat
    BY <1>2
  <2>2. (a + 1) * BlockSize <= b * BlockSize
    BY <2>1, FewerBytes
  <2>3. (a + 1) * BlockSize = a * BlockSize + BlockSize
    BY <2>1
  <2>4. a * BlockSize \in Nat /\ b * BlockSize \in Nat
    BY <2>1
  <2> QED BY <1>2, <2>1, <2>2, <2>3, <2>4
<1>3. q = n
  <2>1. ~(q < n) /\ ~(n < q)
    BY <1>1, <1>2
  <2> QED BY <1>1, <2>1
<1>4. r = i
  <2>1. n * BlockSize \in Nat
    OBVIOUS
  <2>2. n * BlockSize + r = n * BlockSize + i
    BY <1>1, <1>3
  <2> QED BY <1>1, <2>1, <2>2
<1> QED BY <1>3, <1>4 DEF q, r

\* The data of a read are its blocks, whole and in order.
LEMMA ChunkOfBlocks ==
  ASSUME NEW blocks \in Disk, NEW block \in Nat, NEW count \in Nat,
         \A m \in 0..count - 1 : block + m \in 0..Blocks - 1,
         NEW n \in 0..count - 1
  PROVE  Chunk(DataOfBlocks(blocks, block, count), n) = blocks[block + n]
<1> DEFINE data == DataOfBlocks(blocks, block, count)
           m == n * BlockSize
<1>1. data \in Seq(Nat) /\ Len(data) = count * BlockSize
  BY DataOfBlocksLength
<1>2. Chunk(data, n) \in ABlock /\ blocks[block + n] \in ABlock
  <2> HIDE DEF data
  <2> QED BY <1>1, ChunkType DEF Disk
<1>3. /\ m \in Nat /\ m + BlockSize <= count * BlockSize /\ count * BlockSize \in Nat
      /\ (n + 1) * BlockSize = m + BlockSize
  <2>1. n + 1 \in Nat /\ n + 1 <= count /\ n \in Nat /\ BlockSize \in Nat
    OBVIOUS
  <2>2. (n + 1) * BlockSize <= count * BlockSize /\ count * BlockSize \in Nat
    BY <2>1, FewerBytes
  <2>3. (n + 1) * BlockSize = n * BlockSize + BlockSize /\ n * BlockSize \in Nat
    BY <2>1
  <2> QED BY <2>2, <2>3
<1>4. ASSUME NEW j \in 1..BlockSize
      PROVE  Chunk(data, n)[j] = blocks[block + n][j]
  <2>1. Chunk(data, n) = SubSeq(data, m + 1, m + BlockSize)
    BY <1>3 DEF Chunk
  <2>2. Chunk(data, n)[j] = data[m + j]
    <3> HIDE DEF data, m
    <3>1. /\ m + 1 \in Int /\ m + BlockSize \in Int /\ m + 1 <= m + BlockSize + 1
          /\ (m + BlockSize) - (m + 1) + 1 = BlockSize
          /\ (m + 1) + j - 1 = m + j
      BY <1>3
    <3>2. \A i \in m + 1..m + BlockSize : data[i] \in Nat
      BY SMTT(30), <1>1, <1>3, ElementOfSeq
    <3>3. SubSeq(data, m + 1, m + BlockSize)[j] = data[(m + 1) + j - 1]
      BY <3>1, <3>2, SubSeqProperties
    <3> QED BY <2>1, <3>1, <3>3
  <2>3. m + j \in 1..count * BlockSize
    <3> HIDE DEF m
    <3> QED BY <1>3
  <2>4. data[m + j] = blocks[block + ((m + j - 1) \div BlockSize)]
                            [((m + j - 1) % BlockSize) + 1]
    BY <2>3 DEF DataOfBlocks
  <2>5. (m + j - 1) \div BlockSize = n /\ (m + j - 1) % BlockSize = j - 1
    <3> DEFINE x == m + j - 1
    <3>1. n \in Nat /\ j - 1 \in 0..BlockSize - 1
      OBVIOUS
    <3>2. x \in Nat /\ x = n * BlockSize + (j - 1)
      <4>1. m \in Nat /\ m = n * BlockSize
        BY <1>3
      <4> HIDE DEF m
      <4> QED BY <4>1
    <3> HIDE DEF x
    <3>3. x \div BlockSize = n /\ x % BlockSize = j - 1
      BY <3>1, <3>2, Place
    <3> QED BY <3>3 DEF x
  <2>6. (j - 1) + 1 = j
    OBVIOUS
  <2> QED BY <2>2, <2>4, <2>5, <2>6
<1> HIDE DEF data
<1> QED BY <1>2, <1>4, SMTT(30) DEF ABlock, data

\* getByte: a byte more has been taken, or the phase goes on.
LEMMA GetByteTold ==
  ASSUME NEW id, NEW t, TargetOK(t), t.phase \in AckPhases, NEW blocks \in Disk, NEW was,
         NEW s, NEW k \in Seq(Nat), Told(id, t, blocks, was, s, k)
  PROVE  /\ t.phase = "dataIn" =>
              Told(id, GetByte(t), blocks, was, s, Append(k, PeekByte(t)))
         /\ t.phase # "dataIn" => Told(id, GetByte(t), blocks, was, s, k)
<1> DEFINE c == t.command
           u == GetByte(t)
           more == Append(k, PeekByte(t))
<1>1. t \in TargetState
  BY DEF TargetOK
<1>2. CASE t.phase = "status"
  <2>1. /\ u.phase = "messageIn" /\ u.command = c /\ u.status = t.status
        /\ u.sense = t.sense /\ u.info = t.info
    BY <1>1, <1>2 DEF GetByte, TargetState
  <2>2. Ended(id, t, blocks, was, s, k)
    BY <1>2 DEF Told
  <2> HIDE DEF u
  <2>3. Ended(id, u, blocks, was, s, k)
    BY <2>1, <2>2 DEF Ended, HasWritten
  <2> QED BY <1>2, <2>1, <2>3 DEF Told, u
<1>3. CASE t.phase = "messageIn"
  <2>1. u.phase = "busFree"
    BY <1>1, <1>3 DEF GetByte, TargetState
  <2> QED BY <1>3, <2>1 DEF Told
<1>4. CASE t.phase = "dataIn"
  <2>1. /\ u.command = c /\ u.status = t.status /\ u.data = t.data /\ u.index = t.index + 1
        /\ u.phase = IF t.index + 1 = Len(t.data) THEN "status" ELSE "dataIn"
    BY <1>1, <1>4 DEF GetByte, TargetState
  <2>2. blocks = was /\ s = <<>> /\ Giving(t, blocks, k)
    BY <1>4 DEF Told
  <2>3. /\ Whole(c) /\ c[1] \notin Takers /\ t.status = Good
        /\ IsRead(c) =>
             /\ t.data = DataOfBlocks(blocks, Block(c), Count(c))
             /\ \A n \in 0..Count(c) - 1 : Block(c) + n \in 0..Blocks - 1
             /\ Len(k) = t.index
             /\ \A i \in 1..t.index : k[i] = t.data[i]
    BY <2>2 DEF Giving
  <2>4. /\ t.index \in Nat /\ t.data \in Seq(Nat) /\ t.index < Len(t.data)
        /\ Len(t.data) \in Nat
    BY <1>1, <1>4, LenProperties DEF TargetOK, TargetState
  <2>5. PeekByte(t) = t.data[t.index + 1] /\ PeekByte(t) \in Nat
    BY <1>4, PeekByteType DEF PeekByte
  <2>6. /\ more \in Seq(Nat) /\ Len(more) = Len(k) + 1 /\ more[Len(k) + 1] = PeekByte(t)
        /\ \A i \in 1..Len(k) : more[i] = k[i]
    BY <2>5, AppendProperties
  <2> HIDE DEF u, more, c
  <2>7. IsRead(c) => Len(more) = u.index /\ \A i \in 1..u.index : more[i] = u.data[i]
    <3> SUFFICES ASSUME IsRead(c)
                 PROVE  Len(more) = u.index /\ \A i \in 1..u.index : more[i] = u.data[i]
      OBVIOUS
    <3>1. Len(more) = u.index
      BY <2>1, <2>3, <2>6
    <3>2. ASSUME NEW i \in 1..u.index PROVE more[i] = u.data[i]
      <4>1. i \in 1..t.index \/ i = t.index + 1
        BY <2>1, <2>4
      <4> QED BY <2>1, <2>3, <2>5, <2>6, <4>1
    <3> QED BY <3>1, <3>2
  <2>8. CASE t.index + 1 # Len(t.data)
    <3>1. u.phase = "dataIn"
      BY <2>1, <2>8
    <3>2. Giving(u, blocks, more)
      BY <2>1, <2>3, <2>7 DEF Giving
    <3>3. Told(id, u, blocks, was, s, more)
      BY <2>2, <3>1, <3>2 DEF Told
    <3> QED BY <1>4, <3>3 DEF u, more
  <2>9. CASE t.index + 1 = Len(t.data)
    <3>1. u.phase = "status"
      BY <2>1, <2>9
    <3>2. ~IsWrite(c) /\ Announced(c, <<>>) = 0
      BY <2>3, NothingAnnounced
    <3>3. \A b : ~HasWritten(u, b)
      BY <2>1, <3>2 DEF HasWritten
    <3>4. IsRead(c) =>
            /\ Len(more) = Count(c) * BlockSize
            /\ \A n \in 0..Count(c) - 1 : Chunk(more, n) = blocks[Block(c) + n]
      <4> SUFFICES ASSUME IsRead(c)
                   PROVE  /\ Len(more) = Count(c) * BlockSize
                          /\ \A n \in 0..Count(c) - 1 : Chunk(more, n) = blocks[Block(c) + n]
        OBVIOUS
      <4>1. Block(c) \in Nat /\ Count(c) \in Nat
        BY <2>3, NamedBlocks DEF IsRead
      <4>2. more = t.data
        <5>1. u.data = t.data /\ u.index = Len(t.data)
          BY <2>1, <2>9
        <5>2. Len(more) = Len(t.data) /\ \A i \in 1..Len(more) : more[i] = t.data[i]
          BY <2>7, <5>1
        <5> QED BY <2>4, <2>6, <5>2, SeqEqual
      <4>3. /\ t.data = DataOfBlocks(blocks, Block(c), Count(c))
            /\ \A n \in 0..Count(c) - 1 : Block(c) + n \in 0..Blocks - 1
        BY <2>3
      <4>4. /\ Len(t.data) = Count(c) * BlockSize
            /\ \A n \in 0..Count(c) - 1 : Chunk(t.data, n) = blocks[Block(c) + n]
        <5> DEFINE block == Block(c)
                   count == Count(c)
        <5>1. /\ block \in Nat /\ count \in Nat
              /\ \A n \in 0..count - 1 : block + n \in 0..Blocks - 1
          BY <4>1, <4>3
        <5> HIDE DEF block, count
        <5>2. Len(DataOfBlocks(blocks, block, count)) = count * BlockSize
          BY <5>1, DataOfBlocksLength
        <5>3. \A n \in 0..count - 1 :
                Chunk(DataOfBlocks(blocks, block, count), n) = blocks[block + n]
          BY <5>1, ChunkOfBlocks
        <5> QED BY <4>3, <5>2, <5>3 DEF block, count
      <4> QED BY <4>2, <4>4
    <3>5. Ended(id, u, blocks, was, s, more)
      BY <2>1, <2>2, <2>3, <3>2, <3>3, <3>4, EmptyLength DEF Ended
    <3>6. Told(id, u, blocks, was, s, more)
      BY <3>1, <3>5 DEF Told
    <3> QED BY <1>4, <3>6 DEF u, more
  <2> QED BY <2>8, <2>9
<1> QED BY <1>2, <1>3, <1>4 DEF AckPhases

-----------------------------------------------------------------------------
(* The history is kept by every step.                                      *)

\* A byte that leaves the bus free leaves nothing to account for; one that
\* does not is accounted for by what its target has become.
LEMMA Recorded ==
  ASSUME IInv, History, selected # Free, NEW u, NEW blocks, NEW s, NEW k,
         target'[selected] = u, medium'[selected] = blocks,
         \A id \in Targets \ {selected} : medium'[id] = medium[id],
         selected' = Holder(selected, target'), Remember(s, k),
         Told(selected, u, blocks, before[selected], s, k)
  PROVE  History'
<1>1. selected' = Free \/ selected' = selected
  BY DEF Holder
<1>2. CASE selected' = Free
  BY <1>2 DEF Remember, History
<1>3. CASE selected' = selected
  <2>1. before' = before /\ sent' = s /\ taken' = k
    BY <1>3 DEF Remember
  <2>2. \A id \in Targets \ {selected} : medium'[id] = before[id]
    BY DEF History
  <2>3. Told(selected', target'[selected'], medium'[selected'], before'[selected'], sent', taken')
    BY <1>3, <2>1
  <2> QED BY <1>3, <2>1, <2>2, <2>3 DEF History
<1> QED BY <1>1, <1>2, <1>3

\* The same of a selection: the target chosen was in no phase, and is now in
\* the command phase; nothing has been moved.
LEMMA SelectionRecorded ==
  ASSUME IInv, History, NEW ls, NEW value,
         selected' = Chosen(ls, value), target' = Started(ls, value), medium' = medium,
         Remember(sent, taken)
  PROVE  History'
<1>1. CASE selected' = Free
  BY <1>1 DEF Remember, History
<1>2. CASE selected' # Free /\ selected # Free
  <2>1. selected' = selected
    BY <1>2 DEF Chosen
  <2>2. selected \in Targets /\ target'[selected] = target[selected]
    BY <1>2 DEF IInv, Started
  <2>3. before' = before /\ sent' = sent /\ taken' = taken
    BY <1>2 DEF Remember
  <2> QED BY <1>2, <2>1, <2>2, <2>3 DEF History
<1>3. CASE selected' # Free /\ selected = Free
  <2>1. selected' = Named(ls, value)
    BY <1>3 DEF Chosen
  <2>2. selected' \in Targets
    BY <1>3, <2>1, NamedTarget
  <2>3. target'[selected'] = StartSelection(target[selected'])
    BY <1>3, <2>1, <2>2 DEF Started
  <2>4. target'[selected'].phase = "command"
    BY <2>2, <2>3 DEF StartSelection, IInv, TargetState
  <2>5. before' = before /\ sent' = sent /\ taken' = taken
    BY <1>3 DEF Remember
  <2>6. before = medium /\ sent = <<>> /\ taken = <<>>
    BY <1>3 DEF History
  <2>7. Told(selected', target'[selected'], medium'[selected'], before'[selected'], sent', taken')
    BY <2>4, <2>5, <2>6 DEF Told
  <2> QED BY <1>3, <2>5, <2>6, <2>7 DEF History
<1> QED BY <1>1, <1>2, <1>3

\* What was sent is remembered with a byte more when it was asked for as data.
LEMMA SentTold ==
  ASSUME IInv, NEW value, Requesting
  PROVE  /\ CurrentPhase = "dataOut" => Sent(value) = Append(sent, value)
         /\ CurrentPhase # "dataOut" => Sent(value) = sent
BY DEF Sent

\* A byte is taken by the target that holds the bus.
LEMMA PutRecorded ==
  ASSUME IInv, History, NEW steps, NEW s, selected # Free, selected \in Targets,
         selected' = Holder(selected, target'), Remember(s, taken), Put(steps),
         \A step \in steps :
           Told(selected, step.target, step.blocks, before[selected], s, taken)
  PROVE  History'
<1>1. PICK step \in steps : /\ target' = [target EXCEPT ![selected] = step.target]
                           /\ medium' = [medium EXCEPT ![selected] = step.blocks]
  BY DEF Put
<1>2. /\ target'[selected] = step.target /\ medium'[selected] = step.blocks
      /\ \A id \in Targets \ {selected} : medium'[id] = medium[id]
  BY <1>1 DEF IInv
<1>3. Told(selected, step.target, step.blocks, before[selected], s, taken)
  OBVIOUS
<1> HIDE DEF History
<1> QED BY <1>2, <1>3, Recorded

\* What the history tells of the target that holds the bus, phase by phase.
LEMMA HolderTold ==
  ASSUME IInv, History, CurrentPhase # "busFree"
  PROVE  /\ Told(selected, target[selected], medium[selected], before[selected], sent, taken)
         /\ CurrentPhase = "command" =>
              medium[selected] = before[selected] /\ sent = <<>> /\ taken = <<>>
         /\ CurrentPhase = "dataOut" =>
              /\ medium[selected] = before[selected] /\ taken = <<>>
              /\ Sending(selected, target[selected], sent)
BY HolderIsHeld DEF History, Told

\* A byte of data that is written leaves the target where PutDataTold says.
LEMMA DataRecorded ==
  ASSUME IInv, History, NEW value \in Byte, CurrentPhase = "dataOut",
         NEW step \in PutData(target[selected], medium[selected], value)
  PROVE  Told(selected, step.target, step.blocks, before[selected], Append(sent, value), taken)
<1>1. /\ TargetOK(target[selected]) /\ target[selected].phase = "dataOut"
      /\ medium[selected] \in Disk
  BY HolderIsHeld
<1>2. /\ medium[selected] = before[selected] /\ taken = <<>>
      /\ Sending(selected, target[selected], sent)
  BY HolderTold
<1>3. sent \in Seq(Nat)
  BY DEF IInv
<1>4. Told(selected, step.target, step.blocks, medium[selected], Append(sent, value), <<>>)
  BY <1>1, <1>2, <1>3, PutDataTold
<1> QED BY <1>2, <1>4

LEMMA AckPutHistory ==
  ASSUME IInv, History, NEW ls \in Driven, AckPut(ls)
  PROVE  History'
<1>1. /\ selected' = Holder(selected, target') /\ Remember(Sent(outputData), taken)
      /\ Requesting /\ outputData \in Byte
  BY DEF AckPut, MayDrive, Rises, IInv
<1>2. CASE /\ CurrentPhase = "command"
           /\ Put(PutCommand(selected, target[selected], medium[selected], outputData))
  <2>1. /\ selected # Free /\ selected \in Targets /\ TargetOK(target[selected])
        /\ target[selected].phase = "command" /\ medium[selected] \in Disk
    BY <1>2, HolderIsHeld
  <2>2. medium[selected] = before[selected] /\ sent = <<>> /\ taken = <<>>
    BY <1>2, HolderTold
  <2>3. Sent(outputData) = sent
    BY <1>2 DEF Sent
  <2>4. \A step \in PutCommand(selected, target[selected], medium[selected], outputData) :
          Told(selected, step.target, step.blocks, medium[selected], <<>>, <<>>)
    BY <1>1, <2>1, PutCommandTold
  <2> QED BY <1>1, <1>2, <2>1, <2>2, <2>3, <2>4, PutRecorded
<1>3. CASE /\ CurrentPhase = "dataOut"
           /\ Put(PutData(target[selected], medium[selected], outputData))
  <2>1. selected # Free /\ selected \in Targets
    BY <1>3, HolderIsHeld
  <2>2. Sent(outputData) = Append(sent, outputData)
    BY <1>1, <1>3 DEF Sent
  <2>3. \A step \in PutData(target[selected], medium[selected], outputData) :
          Told(selected, step.target, step.blocks, before[selected],
               Append(sent, outputData), taken)
    BY <1>1, <1>3, DataRecorded
  <2> QED BY <1>1, <1>3, <2>1, <2>2, <2>3, PutRecorded
<1> QED BY <1>2, <1>3 DEF AckPut

LEMMA DackWriteHistory ==
  ASSUME IInv, History, NEW value \in Data, DackWrite(value)
  PROVE  History'
<1>1. /\ CurrentPhase = "dataOut" /\ Requesting /\ selected' = selected
      /\ Remember(Sent(value), taken)
      /\ Put(PutData(target[selected], medium[selected], value))
  BY PhaseIsSeen DEF DackWrite, Transfers
<1>2. value \in Byte
  OBVIOUS
<1>3. selected # Free /\ selected \in Targets
  BY <1>1, HolderIsHeld
<1>4. Sent(value) = Append(sent, value)
  BY <1>1 DEF Sent
<1>5. \A step \in PutData(target[selected], medium[selected], value) :
        Told(selected, step.target, step.blocks, before[selected], Append(sent, value), taken)
  BY <1>1, <1>2, DataRecorded
<1>6. selected' = Holder(selected, target')
  <2>1. IInv'
    BY DackWriteInv
  <2>2. target'[selected].phase # "busFree"
    BY <1>1, <1>3, <2>1 DEF IInv, OneTargetHoldsTheBus, PhaseOf
  <2> QED BY <1>1, <2>2 DEF Holder
<1> QED BY <1>1, <1>3, <1>4, <1>5, <1>6, PutRecorded

\* A byte for the initiator: it is remembered when it was data.
LEMMA GetRecorded ==
  ASSUME IInv, History, NEW k, CurrentPhase \in AckPhases,
         target' = [target EXCEPT ![selected] = GetByte(target[selected])],
         medium' = medium, selected' = Holder(selected, target'), Remember(sent, k),
         k = IF CurrentPhase = "dataIn" THEN Append(taken, PeekByte(target[selected])) ELSE taken
  PROVE  History'
<1> DEFINE t == target[selected]
<1>1. /\ selected \in Targets /\ selected # Free /\ TargetOK(t) /\ t.phase = CurrentPhase
      /\ medium[selected] \in Disk
  BY HolderIsHeld DEF AckPhases
<1>2. Told(selected, t, medium[selected], before[selected], sent, taken)
  BY HolderTold DEF AckPhases
<1>3. taken \in Seq(Nat)
  BY DEF IInv
<1>4. /\ target'[selected] = GetByte(t) /\ medium'[selected] = medium[selected]
      /\ \A id \in Targets \ {selected} : medium'[id] = medium[id]
  BY <1>1 DEF IInv
<1> HIDE DEF t
<1>5. Told(selected, GetByte(t), medium[selected], before[selected], sent, k)
  <2>1. /\ t.phase = "dataIn" =>
             Told(selected, GetByte(t), medium[selected], before[selected], sent,
                  Append(taken, PeekByte(t)))
        /\ t.phase # "dataIn" =>
             Told(selected, GetByte(t), medium[selected], before[selected], sent, taken)
    BY <1>1, <1>2, <1>3, GetByteTold
  <2> QED BY <1>1, <2>1 DEF t
<1> QED BY <1>1, <1>4, <1>5, Recorded

LEMMA AckGetHistory ==
  ASSUME IInv, History, NEW ls \in Driven, AckGet(ls)
  PROVE  History'
<1> DEFINE t == target[selected]
           k == IF CurrentPhase = "dataIn" THEN Append(taken, PeekByte(t)) ELSE taken
           took == IF CurrentPhase = "dataIn" /\ target' # target
                     THEN Append(taken, PeekByte(t)) ELSE taken
<1>1. /\ CurrentPhase \in AckPhases /\ medium' = medium
      /\ target' = [target EXCEPT ![selected] = GetByte(t)]
      /\ selected' = Holder(selected, target') /\ Remember(sent, took)
  BY DEF AckGet, AckPhases
<1>2. took = k
  <2> SUFFICES ASSUME CurrentPhase = "dataIn" PROVE target' # target
    OBVIOUS
  <2>1. selected \in Targets /\ t.phase = "dataIn" /\ t \in TargetState
    BY HolderIsHeld DEF TargetOK
  <2>2. GetByte(t).index = t.index + 1 /\ t.index \in Nat
    BY <2>1 DEF GetByte, TargetState
  <2>3. target'[selected] = GetByte(t)
    BY <1>1, <2>1 DEF IInv
  <2> QED BY <2>2, <2>3
<1> HIDE DEF k, took
<1>3. Remember(sent, k)
  BY <1>1, <1>2
<1> QED BY <1>1, <1>3, GetRecorded DEF k

LEMMA DackReadHistory ==
  ASSUME IInv, History, DackRead
  PROVE  History'
<1> DEFINE t == target[selected]
<1>1. /\ CurrentPhase = "dataIn" /\ medium' = medium /\ selected' = selected
      /\ target' = [target EXCEPT ![selected] = GetByte(t)]
      /\ Remember(sent, Append(taken, PeekByte(t)))
  BY PhaseIsSeen DEF DackRead
<1>2. selected' = Holder(selected, target')
  <2>1. IInv'
    BY DackReadInv
  <2>2. selected \in Targets
    BY <1>1, HolderIsHeld
  <2>3. target'[selected].phase # "busFree"
    BY <1>1, <2>1, <2>2 DEF IInv, OneTargetHoldsTheBus, PhaseOf
  <2> QED BY <1>1, <2>3 DEF Holder
<1>3. CurrentPhase \in AckPhases
  BY <1>1 DEF AckPhases
<1> QED BY <1>1, <1>2, <1>3, GetRecorded

\* A step keeps the account of what has been moved.
LEMMA NextHistory == IInv /\ History /\ [Next]_vars => History'
<1> SUFFICES ASSUME IInv, History, [Next]_vars PROVE History'
  OBVIOUS
<1>1. ASSUME NEW value \in Offered, PokeData(value) PROVE History'
  BY <1>1, SelectionRecorded DEF PokeData
<1>2. ASSUME NEW ls \in Driven, Drive(ls) PROVE History'
  <2>1. /\ target' = Started(ls, outputData) /\ medium' = medium /\ Remember(sent, taken)
        /\ selected' = Holder(Chosen(ls, outputData), target')
    BY <1>2 DEF Drive
  <2>2. selected' = Chosen(ls, outputData)
    <3>1. Chosen(ls, outputData) = Free => selected' = Free
      BY <2>1 DEF Holder
    <3>2. Chosen(ls, outputData) # Free =>
            target'[Chosen(ls, outputData)].phase # "busFree"
      BY <2>1, StartedOK, ZenonT(30)
    <3> QED BY <2>1, <3>1, <3>2 DEF Holder
  <2> QED BY <2>1, <2>2, SelectionRecorded
<1>3. ASSUME NEW ls \in Driven, AckPut(ls) PROVE History'
  BY <1>3, AckPutHistory
<1>4. ASSUME NEW ls \in Driven, AckGet(ls) PROVE History'
  BY <1>4, AckGetHistory
<1>5. ASSUME NEW value \in Data, DackWrite(value) PROVE History'
  BY <1>5, DackWriteHistory
<1>6. CASE DackRead
  BY <1>6, DackReadHistory
<1>7. CASE Reset
  BY <1>7 DEF Reset, Remember, History
<1>8. CASE UNCHANGED vars
  BY <1>8 DEF vars, History
<1> QED BY <1>1, <1>2, <1>3, <1>4, <1>5, <1>6, <1>7, <1>8 DEF Next

\* The account of what has been moved is kept in every behaviour.
THEOREM HistoryIsKept == Spec => [](IInv /\ History)
<1>1. Init => IInv /\ History
  BY InitInv DEF Init, History
<1>2. IInv /\ History /\ [Next]_vars => (IInv /\ History)'
  BY NextInv, NextHistory
<1> QED BY <1>1, <1>2, PTL DEF Spec

\* What the disks hold is what they held before the command but for the blocks
\* a write named, which hold the bytes that were sent for them; whatever the
\* blocks, the descriptor and the way the bytes are acknowledged, wherever the
\* medium fails, and whenever the bus is reset (write and completeWrite,
\* disk.go).
THEOREM DisksAreAsCommanded == Spec => []MediumIsAsCommanded
<1>1. IInv /\ History => MediumIsAsCommanded
  <2> SUFFICES ASSUME IInv, History, NEW id \in Targets, NEW b \in 0..Blocks - 1
               PROVE  medium[id][b] = IF Written(id, b) /\ id \notin ReadOnly
                                        THEN Chunk(sent, b - Block(Current.command))
                                        ELSE before[id][b]
    BY DEF MediumIsAsCommanded
  <2>1. CASE selected = Free
    BY <2>1 DEF History, Written, Done
  <2>2. CASE selected # Free /\ id # selected
    BY <2>2 DEF History, Written
  <2>3. CASE selected # Free /\ id = selected
    <3>1. /\ Told(id, target[id], medium[id], before[id], sent, taken)
          /\ target[id].phase # "busFree" /\ target[id].phase \in Phase
      BY <2>3 DEF History, IInv, OneTargetHoldsTheBus, PhaseOf, TargetState
    <3>2. Done <=> target[id].phase \in {"status", "messageIn"}
      BY <2>3 DEF Done, PhaseOf
    <3>3. CASE target[id].phase \in {"status", "messageIn"}
      <4>1. Ended(id, target[id], medium[id], before[id], sent, taken)
        BY <3>1, <3>3 DEF Told
      <4>2. Written(id, b) <=> HasWritten(target[id], b)
        BY <2>3, <3>2, <3>3 DEF Written, Current
      <4> QED BY <2>3, <4>1, <4>2 DEF Ended, Current
    <3>4. CASE target[id].phase \notin {"status", "messageIn"}
      BY <3>1, <3>2, <3>4 DEF Told, Phase, Written
    <3> QED BY <3>3, <3>4
  <2> QED BY <2>1, <2>2, <2>3
<1> QED BY <1>1, HistoryIsKept, PTL

\* A command that went well has taken as many bytes as it announced, and a read
\* has handed over every block it named, whole and in order, whether the bytes
\* went by acknowledge or by the pseudo DMA (putByte and getByte, disk.go).
THEOREM EveryTransferIsWhole == Spec => []TransfersAreWhole
<1>1. IInv /\ History => TransfersAreWhole
  <2> SUFFICES ASSUME IInv, History, Done PROVE TransfersAreWhole
    BY DEF TransfersAreWhole, SentAsAnnounced, ReadsAreWhole
  <2>1. selected # Free /\ target[selected].phase \in {"status", "messageIn"}
    BY DEF Done, PhaseOf
  <2>2. Ended(selected, Current, medium[selected], before[selected], sent, taken)
    BY <2>1 DEF History, Told, Current
  <2>3. SentAsAnnounced
    BY <2>2 DEF Ended, SentAsAnnounced
  <2>4. ReadsAreWhole
    BY <2>2 DEF Ended, ReadsAreWhole
  <2> QED BY <2>3, <2>4 DEF TransfersAreWhole
<1> QED BY <1>1, HistoryIsKept, PTL

=============================================================================
