------------------------------- MODULE MC_SCSI -------------------------------
(* The descriptor blocks of the runs of SCSI.                              *)
EXTENDS SCSI

Six(opcode, b1, b3, b4) == <<opcode, b1, 0, b3, b4, 0>>
Ten(opcode, b1, b5, b8) == <<opcode, b1, 0, 0, 0, b5, 0, 0, b8, 0>>

\* Reads and writes of all the blocks, past the last and of none.
MCBlocks ==
  {Six(Write6, 0, 0, 2), Six(Write6, 0, 1, 2), Six(Read6, 0, 0, 0),
   Ten(Read10, 0, 1, 2), Ten(Read10, 0, 0, 0), Six(RequestSense, 0, 0, 18)}

\* The rest of the commands, with no length, and lengths short and long.
MCOthers ==
  {Six(TestUnitReady, 0, 0, 0), Six(Inquiry, 0, 0, 36), Six(ModeSense6, 0, 0, 2),
   Six(ModeSelect6, 0, 0, 0), Six(ModeSelect6, 0, 0, 2),
   Six(FormatUnit, 0, 0, 0), Six(FormatUnit, 16, 0, 0),
   Ten(ReadCapacity, 0, 0, 0), Ten(WriteBuffer, 0, 0, 2), Ten(WriteBuffer, 1, 0, 1),
   Ten(ReadBuffer, 0, 0, 9), Ten(ReadBuffer, 2, 0, 0), Ten(ReadBuffer, 3, 0, 9),
   <<160, 0, 0, 0, 0, 0, 0, 0, 0, 0, 0, 0>>}

MCAll == MCBlocks \cup MCOthers

=============================================================================
