--------------------------- MODULE Machine_proofs ---------------------------
(***************************************************************************)
(* What a paste and a click may count on, proved for any texts, any size   *)
(* of the channel and any times: the processor is given back, a click      *)
(* holds the real speed for as long as it asked, and no text goes back to  *)
(* where it came from.  For the last, the front end remembers what it gave *)
(* the host, and the watcher of the scrap has passed over what was pasted  *)
(* or is yet to.                                                           *)
(***************************************************************************)
EXTENDS Machine, TLAPS

\* A paste that runs took the processor where an application asks for an
\* event, and knows what it pastes.
PasteOK ==
    /\ clip = [pending |-> clip.pending, running |-> clip.running,
               saved |-> clip.saved, waiting |-> clip.waiting,
               copied |-> clip.copied, from |-> clip.from]
    /\ clip.running \in BOOLEAN
    /\ clip.running => clip.pending # <<>> /\ clip.saved = <<"event">>
    /\ ProcessorIsGivenBack

\* What the run loop has read of a hold, and is about to drop, has run out.
HoldOK ==
    /\ hold \in [until : Nat, loaded : Nat, asked : Nat]
    /\ now \in Nat
    /\ loop = "swap" => hold.loaded <= now
    /\ ClickHolds

-----------------------------------------------------------------------------
(* The paste. *)

\* A frame less to wait leaves a paste that runs alone, and starts none.
LEMMA WaitingStartsNothing ==
    ASSUME NEW c,
           c = [pending |-> c.pending, running |-> c.running, saved |-> c.saved,
                waiting |-> c.waiting, copied |-> c.copied, from |-> c.from],
           c.running \in BOOLEAN
    PROVE  /\ Waited(c) = [pending |-> Waited(c).pending, running |-> c.running,
                           saved |-> Waited(c).saved, waiting |-> Waited(c).waiting,
                           copied |-> c.copied, from |-> c.from]
           /\ c.running => Waited(c) = c
BY DEF Waited, CancelPaste

\* The frame hands over a copy and has a paste wait a frame less.
LEMMA FrameKeepsPaste ==
    ASSUME PasteOK, ClipboardFrame, cpu' = cpu
    PROVE  PasteOK'
<1> DEFINE looked == IF cpu = "boot" THEN <<watcher, <<>>>> ELSE Poll(watcher, scrap)
           told == IF looked[2] = <<>> THEN clip
                   ELSE [clip EXCEPT !.copied = looked[2], !.from = scrap.from]
<1>1. clip' = Waited(told)
  BY DEF ClipboardFrame
<1>2. /\ told = [pending |-> clip.pending, running |-> clip.running,
                 saved |-> clip.saved, waiting |-> clip.waiting,
                 copied |-> told.copied, from |-> told.from]
      /\ told.pending = clip.pending /\ told.running = clip.running
      /\ told.saved = clip.saved /\ told.waiting = clip.waiting
  BY DEF PasteOK
<1> HIDE DEF told, looked
<1>3. /\ clip' = [pending |-> clip'.pending, running |-> clip'.running,
                  saved |-> clip'.saved, waiting |-> clip'.waiting,
                  copied |-> clip'.copied, from |-> clip'.from]
      /\ clip'.running = clip.running
      /\ clip.running => clip' = told
  BY <1>1, <1>2, WaitingStartsNothing DEF PasteOK
<1> QED BY <1>2, <1>3 DEF PasteOK, ProcessorIsGivenBack

\* A command that runs resets the machine, asks for a paste, or leaves the
\* paste alone.
LEMMA CommandsKeepPaste ==
    ASSUME PasteOK, NEW command, Execute(command)
    PROVE  PasteOK'
<1>1. CASE command.id = "reset"
  BY <1>1 DEF Execute, ResetMachine, CancelPaste, PasteOK, ProcessorIsGivenBack, Program
<1>2. CASE command.id = "paste"
  BY <1>2 DEF Execute, StartPaste, PasteOK, ProcessorIsGivenBack
<1>3. CASE command.id \notin {"reset", "paste"}
  BY <1>3 DEF Execute, PasteOK, ProcessorIsGivenBack
<1> QED BY <1>1, <1>2, <1>3

LEMMA PasteInvariant == Spec => []PasteOK
<1>1. Init => PasteOK
  BY DEF Init, NoClip, PasteOK, ProcessorIsGivenBack, Program
<1>2. ASSUME PasteOK, [Next]_vars PROVE PasteOK'
  <2> USE <1>2
  <2>1. CASE UNCHANGED <<clip, cpu>>
    BY <2>1 DEF PasteOK, ProcessorIsGivenBack
  <2>2. CASE ToHost
    BY <2>2 DEF ToHost, TakeCopiedText, PasteOK, ProcessorIsGivenBack
  <2>3. CASE Plant
    BY <2>3 DEF Plant, Ready, PasteOK, ProcessorIsGivenBack, Program
  <2>4. CASE ProgramStep
    BY <2>4 DEF ProgramStep, PasteOK, ProcessorIsGivenBack, Program
  <2>5. CASE FinishPaste
    <3>1. cpu' = "event" /\ clip' = CancelPaste(clip)
      BY <2>5 DEF FinishPaste, PasteOK
    <3> QED BY <3>1 DEF CancelPaste, PasteOK, ProcessorIsGivenBack, Program
  <2>6. CASE Frame
    BY <2>6, FrameKeepsPaste DEF Frame
  <2>7. CASE AsksForEvent \/ GetsEvent \/ Boot
    BY <2>7 DEF AsksForEvent, GetsEvent, Boot, PasteOK, ProcessorIsGivenBack, Program
  <2>8. CASE SoftwareReset
    BY <2>8 DEF SoftwareReset, ResetMachine, CancelPaste, PasteOK,
                ProcessorIsGivenBack, Program
  <2>9. CASE ExecuteCommands
    <3>1. CASE channel = <<>>
      BY <2>9, <3>1 DEF ExecuteCommands, PasteOK, ProcessorIsGivenBack
    <3>2. CASE channel # <<>>
      BY <2>9, <3>2, CommandsKeepPaste DEF ExecuteCommands
    <3> QED BY <3>1, <3>2
  <2>10. CASE SpinOver \/ CompareAndSwap \/ TimePasses
    BY <2>10, <2>1 DEF SpinOver, CompareAndSwap, TimePasses
  <2>11. CASE Close \/ Sent \/ Paste \/ Click \/ \E id \in {"reset", "pause"} : SendCommand(id)
    BY <2>11, <2>1 DEF Close, Sent, Paste, Click, SendCommand
  <2>12. CASE \/ PutScrap \/ UnloadScrap \/ LoadScrap \/ Transmit
              \/ \E text \in Texts : ZeroScrap(text)
    BY <2>12, <2>1 DEF PutScrap, UnloadScrap, LoadScrap, Transmit, ZeroScrap, AppDoes
  <2>13. CASE \E text \in Texts : HostCopies(text)
    BY <2>13, <2>1 DEF HostCopies
  <2> QED
    BY <2>1, <2>2, <2>3, <2>4, <2>5, <2>6, <2>7, <2>8, <2>9, <2>10, <2>11, <2>12, <2>13
       DEF Next, FrontEnd, Application, RunLoop, vars
<1> QED BY <1>1, <1>2, PTL DEF Spec

\* The processor runs the program of a paste exactly while the paste runs,
\* however pastes, resets and commands follow each other (startPaste and
\* finishPaste, clipboard.go).
THEOREM PasteGivesBack == Spec => []ProcessorIsGivenBack
<1>1. PasteOK => ProcessorIsGivenBack
  BY DEF PasteOK
<1> QED BY <1>1, PasteInvariant, PTL

-----------------------------------------------------------------------------
(* The click. *)

LEMMA HoldInvariant == Spec => []HoldOK
<1>1. Init => HoldOK
  BY DEF Init, NoHold, HoldOK, ClickHolds
<1>2. ASSUME HoldOK, [Next]_vars PROVE HoldOK'
  <2> USE <1>2
  <2>1. CASE UNCHANGED <<hold, now, loop>>
    BY <2>1 DEF HoldOK, ClickHolds
  <2>2. CASE Click
    <3>1. HoldTime \in Nat
      BY MachineAssumption DEF MachineAssumption
    <3>2. /\ hold'.until = now + HoldTime /\ hold'.asked = now + HoldTime
          /\ hold'.loaded = hold.loaded /\ now' = now /\ loop' = loop
          /\ hold' \in [until : Nat, loaded : Nat, asked : Nat]
      <4>1. /\ hold' = [hold EXCEPT !.until = now + HoldTime, !.asked = now + HoldTime]
            /\ now' = now /\ loop' = loop
        BY <2>2 DEF Click
      <4>2. now + HoldTime \in Nat /\ hold \in [until : Nat, loaded : Nat, asked : Nat]
        BY <3>1 DEF HoldOK
      <4> HIDE <2>2, <1>2
      <4> QED BY <4>1, <4>2
    <3> QED BY <3>2 DEF HoldOK, ClickHolds
  <2>3. CASE TimePasses
    BY <2>3 DEF TimePasses, HoldOK, ClickHolds
  <2>4. CASE CompareAndSwap
    <3>1. /\ hold'.until = (IF hold.until = hold.loaded THEN 0 ELSE hold.until)
          /\ hold'.asked = hold.asked /\ now' = now /\ loop' = "spin"
          /\ hold' \in [until : Nat, loaded : Nat, asked : Nat]
      BY <2>4 DEF CompareAndSwap, HoldSwapped, HoldOK
    <3>2. loop = "swap" /\ hold.loaded <= now
      BY <2>4 DEF CompareAndSwap, HoldOK
    <3> QED BY <3>1, <3>2 DEF HoldOK, ClickHolds
  <2>5. CASE SpinOver
    BY <2>5 DEF SpinOver, HoldOK, ClickHolds
  <2>6. CASE ExecuteCommands
    <3>1. CASE channel = <<>>
      BY <2>6, <3>1 DEF ExecuteCommands, PacedCycleDuration, HoldOK, ClickHolds
    <3>2. CASE channel # <<>>
      BY <2>6, <3>2 DEF ExecuteCommands, Execute, HoldOK, ClickHolds
    <3> QED BY <3>1, <3>2
  <2>7. CASE \/ Close \/ Sent \/ ToHost \/ Paste
             \/ \E id \in {"reset", "pause"} : SendCommand(id)
    BY <2>7, <2>1 DEF Close, Sent, ToHost, Paste, SendCommand
  <2>8. CASE Application
    BY <2>8, <2>1 DEF Application, AsksForEvent, GetsEvent, PutScrap, UnloadScrap,
                      LoadScrap, ZeroScrap, AppDoes, Transmit, Boot, SoftwareReset
  <2>9. CASE \/ Plant \/ ProgramStep \/ FinishPaste \/ Frame
             \/ \E text \in Texts : HostCopies(text)
    BY <2>9, <2>1 DEF Plant, ProgramStep, FinishPaste, Frame, HostCopies
  <2> QED
    BY <2>1, <2>2, <2>3, <2>4, <2>5, <2>6, <2>7, <2>8, <2>9 DEF Next, FrontEnd, RunLoop, vars
<1> QED BY <1>1, <1>2, PTL DEF Spec

\* A click holds the real speed for as long as it asked, at whatever moment of
\* the run loop it comes (pacedCycleDuration, mac.go:654-680).
THEOREM ClicksHold == Spec => []ClickHolds
<1>1. HoldOK => ClickHolds
  BY DEF HoldOK
<1> QED BY <1>1, HoldInvariant, PTL

-----------------------------------------------------------------------------
(* What crosses between the machine and its host. *)

\* A paste carries a text a program of the host copied; no other command does.
PasteCommand == [id : {"paste"}, text : Texts, from : {"program"}]
Command == [id : {"reset", "pause", "kill"}] \union PasteCommand
Clip == [pending : Seq(PasteCommand), running : BOOLEAN, saved : Seq({"event"}),
         waiting : Nat, copied : Seq(Texts), from : {"app", "host", "file"}]
Watcher == [seen : Nat \X Nat \X BOOLEAN, settle : Nat, started : BOOLEAN,
            last : Seq(Texts)]
Scrap == [count : Nat, entries : Seq(Texts), where : {"none", "memory", "disk"},
          from : {"app", "host", "file"}, half : Seq(Texts)]

TypeOK ==
    /\ channel \in Seq(Command)
    /\ front \in [sending : Seq(Command), crossed : Seq(Texts),
                  broken : BOOLEAN, closing : BOOLEAN]
    /\ host \in [text : Seq(Texts), from : {"program", "machine"}]
    /\ clip \in Clip
    /\ watcher \in Watcher
    /\ scrap \in Scrap
    /\ cpu \in {"boot", "app", "event"} \union Program

\* What the machine left on the clipboard of the host is what the front end
\* remembers it carried, or it gave up the clipboard.
Remembered ==
    host.from = "machine" => front.broken \/ host.text = front.crossed

\* A text of a paste that the scrap still holds is the one the watcher passes
\* over, once the program of the paste is over.
PassedOver ==
    /\ cpu \in {"put", "refused"} => scrap.entries = <<>>
    /\ cpu = "done" => scrap.entries = <<ToMac(clip.pending[1].text)>>
    /\ scrap.from = "host" /\ scrap.entries # <<>> /\ cpu # "done"
           => watcher.started /\ watcher.last = <<scrap.entries[1]>>

CopiesAreOurs == clip.copied # <<>> => clip.from # "host"

Apart == TypeOK /\ Remembered /\ PassedOver /\ CopiesAreOurs

LEMMA MacText == \A text \in Texts : ToMac(text) \in Texts
BY MachineAssumption DEF MachineAssumption, ToMac

LEMMA TextOnType ==
    ASSUME NEW s \in Scrap
    PROVE  /\ TextOn(s) \in Seq(Texts)
           /\ TextOn(s) # <<>> => s.entries # <<>> /\ TextOn(s) = <<s.entries[1]>>
<1>1. s.entries \in Seq(Texts)
  BY DEF Scrap
<1>2. s.entries # <<>> => s.entries[1] \in Texts
  BY <1>1
<1> QED BY <1>2 DEF TextOn

\* A look at the scrap finds a text only when the scrap has held still, and
\* remembers the one it finds.
LEMMA PollFinds ==
    ASSUME NEW w \in Watcher, NEW s \in Scrap
    PROVE  /\ Poll(w, s)[1] \in Watcher /\ Poll(w, s)[2] \in Seq(Texts)
           /\ w.started => Poll(w, s)[1].started
           /\ w.started /\ Poll(w, s)[2] = <<>> => Poll(w, s)[1].last = w.last
           /\ Poll(w, s)[2] # <<>> =>
                  /\ w.settle = 1 /\ w.started /\ Poll(w, s)[2] # w.last
                  /\ Poll(w, s)[2] = TextOn(s)
<1> USE TextOnType
<1>0. SettleFrames \in Nat
  BY MachineAssumption DEF MachineAssumption
<1>1. Signature(s) \in Nat \X Nat \X BOOLEAN
  <2>1. s.count \in Nat /\ Len(s.entries) \in Nat /\ (s.where = "memory") \in BOOLEAN
    BY DEF Scrap
  <2> QED BY <2>1 DEF Signature
<1>a. TextOn(s) \in Seq(Texts) /\ <<>> \in Seq(Texts)
  BY TextOnType
<1> HIDE DEF Signature, TextOn
<1>2. CASE Signature(s) # w.seen
  <2> DEFINE v == [w EXCEPT !.seen = Signature(s), !.settle = SettleFrames]
  <2>1. Poll(w, s) = <<v, <<>>>>
    BY <1>2 DEF Poll
  <2>2. v \in Watcher /\ v.started = w.started /\ v.last = w.last
    BY <1>0, <1>1 DEF Watcher
  <2> HIDE DEF v
  <2> QED BY <2>1, <2>2, <1>a
<1>3. CASE Signature(s) = w.seen /\ w.settle = 0
  <2>1. Poll(w, s) = <<w, <<>>>>
    BY <1>3 DEF Poll
  <2> QED BY <2>1, <1>a
<1>4. CASE Signature(s) = w.seen /\ w.settle > 1
  <2> DEFINE v == [w EXCEPT !.settle = @ - 1]
  <2>1. Poll(w, s) = <<v, <<>>>>
    BY <1>4 DEF Poll, Watcher
  <2>2. v \in Watcher /\ v.started = w.started /\ v.last = w.last
    <3>1. w.settle - 1 \in Nat
      BY <1>4 DEF Watcher
    <3> QED BY <3>1 DEF Watcher
  <2> HIDE DEF v
  <2> QED BY <2>1, <2>2, <1>a
<1>5. CASE Signature(s) = w.seen /\ w.settle = 1
  <2>1. CASE ~w.started
    <3> DEFINE v == [[w EXCEPT !.settle = 0] EXCEPT !.started = TRUE, !.last = TextOn(s)]
    <3>1. Poll(w, s) = <<v, <<>>>>
      BY <1>5, <2>1 DEF Poll, Watcher
    <3>2. v \in Watcher
      BY <1>a DEF Watcher
    <3> HIDE DEF v
    <3> QED BY <3>1, <3>2, <2>1, <1>a
  <2>2. CASE w.started /\ TextOn(s) \in {<<>>, w.last}
    <3> DEFINE v == [w EXCEPT !.settle = 0]
    <3>1. Poll(w, s) = <<v, <<>>>>
      BY <1>5, <2>2 DEF Poll, Watcher
    <3>2. v \in Watcher /\ v.started = w.started /\ v.last = w.last
      BY DEF Watcher
    <3> HIDE DEF v
    <3> QED BY <3>1, <3>2, <1>a
  <2>3. CASE w.started /\ TextOn(s) \notin {<<>>, w.last}
    <3> DEFINE v == [[w EXCEPT !.settle = 0] EXCEPT !.last = TextOn(s)]
    <3>1. Poll(w, s) = <<v, TextOn(s)>>
      BY <1>5, <2>3 DEF Poll, Watcher
    <3>2. v \in Watcher /\ v.started = w.started
      BY <1>a DEF Watcher
    <3> HIDE DEF v
    <3>3. TextOn(s) # <<>> /\ TextOn(s) # w.last /\ w.started /\ w.settle = 1
      BY <2>3, <1>5
    <3>4. Poll(w, s)[1] = v /\ Poll(w, s)[2] = TextOn(s)
      BY <3>1
    <3> QED BY <3>2, <3>3, <3>4, <1>a
  <2> QED BY <2>1, <2>2, <2>3 DEF Watcher
<1>6. w.settle \in Nat
  BY DEF Watcher
<1> QED BY <1>2, <1>3, <1>4, <1>5, <1>6

\* A frame leaves the paste or gives it up, and hands over what is found.
LEMMA FrameCarries ==
    ASSUME TypeOK, ClipboardFrame
    PROVE  /\ clip' \in Clip /\ watcher' \in Watcher
           /\ clip.running => clip'.pending = clip.pending
           /\ watcher.started => watcher'.started
           /\ \/ /\ clip'.copied = clip.copied /\ clip'.from = clip.from
                 /\ watcher.started => watcher'.last = watcher.last
              \/ /\ clip'.copied = TextOn(scrap) /\ clip'.from = scrap.from
                 /\ watcher.settle = 1 /\ watcher.started /\ TextOn(scrap) # <<>>
                 /\ TextOn(scrap) # watcher.last
<1> DEFINE looked == IF cpu = "boot" THEN <<watcher, <<>>>> ELSE Poll(watcher, scrap)
           told == IF looked[2] = <<>> THEN clip
                   ELSE [clip EXCEPT !.copied = looked[2], !.from = scrap.from]
<1>1. clip' = Waited(told) /\ watcher' = looked[1]
  BY DEF ClipboardFrame
<1>2. /\ looked[1] \in Watcher /\ looked[2] \in Seq(Texts)
      /\ watcher.started => looked[1].started
      /\ watcher.started /\ looked[2] = <<>> => looked[1].last = watcher.last
      /\ looked[2] # <<>> =>
             /\ watcher.settle = 1 /\ watcher.started /\ looked[2] # watcher.last
             /\ looked[2] = TextOn(scrap)
  <2>1. CASE cpu = "boot"
    <3>1. looked = <<watcher, <<>>>> /\ <<>> \in Seq(Texts)
      BY <2>1
    <3> HIDE DEF looked
    <3> QED BY <3>1 DEF TypeOK
  <2>2. CASE cpu # "boot"
    <3>1. looked = Poll(watcher, scrap)
      BY <2>2
    <3> HIDE DEF looked
    <3> QED BY <3>1, PollFinds DEF TypeOK
  <2> QED BY <2>1, <2>2
<1> HIDE DEF looked
<1>3. /\ told \in Clip /\ told.running = clip.running /\ told.pending = clip.pending
      /\ told.copied = IF looked[2] = <<>> THEN clip.copied ELSE looked[2]
      /\ told.from = IF looked[2] = <<>> THEN clip.from ELSE scrap.from
  BY <1>2 DEF TypeOK, Clip, Scrap
<1> HIDE DEF told
<1>4. /\ Waited(told) \in Clip /\ Waited(told).copied = told.copied
      /\ Waited(told).from = told.from
      /\ told.running => Waited(told).pending = told.pending
  <2>0. /\ told.waiting \in Nat /\ told.waiting > 1 => told.waiting - 1 \in Nat
        /\ <<>> \in Seq(PasteCommand) /\ <<>> \in Seq({"event"})
    BY <1>3 DEF Clip
  <2>1. \/ Waited(told) = told
        \/ told.waiting > 1 /\ ~told.running /\ Waited(told) = [told EXCEPT !.waiting = @ - 1]
        \/ ~told.running /\ Waited(told) = CancelPaste([told EXCEPT !.waiting = 0])
    <3>1. told.running \in BOOLEAN
      BY <1>3 DEF Clip
    <3> QED BY <3>1 DEF Waited
  <2>2. CASE Waited(told) = told
    BY <1>3, <2>2
  <2>3. CASE told.waiting > 1 /\ ~told.running /\ Waited(told) = [told EXCEPT !.waiting = @ - 1]
    <3> DEFINE c == [told EXCEPT !.waiting = @ - 1]
    <3>1. c \in Clip /\ c.copied = told.copied /\ c.from = told.from
      BY <1>3, <2>0, <2>3 DEF Clip
    <3>2. Waited(told) = c /\ ~told.running
      BY <2>3
    <3> HIDE DEF c
    <3> QED BY <3>1, <3>2
  <2>4. CASE ~told.running /\ Waited(told) = CancelPaste([told EXCEPT !.waiting = 0])
    <3> DEFINE c == CancelPaste([told EXCEPT !.waiting = 0])
    <3>1. c \in Clip /\ c.copied = told.copied /\ c.from = told.from
      BY <1>3, <2>0 DEF Clip, CancelPaste
    <3>2. Waited(told) = c /\ ~told.running
      BY <2>4
    <3> HIDE DEF c
    <3> QED BY <3>1, <3>2
  <2> QED BY <2>1, <2>2, <2>3, <2>4
<1> QED BY <1>1, <1>2, <1>3, <1>4

\* What the front end sends is a command, and a paste of its is of a text that
\* a program of the host copied.
LEMMA FrontEndSends ==
    ASSUME TypeOK, Remembered, NEW g \in FromHost(front)
    PROVE  /\ g \in [sending : Seq(Command), crossed : Seq(Texts),
                     broken : BOOLEAN, closing : BOOLEAN]
           /\ front.broken => g.broken
           /\ g.crossed \in {front.crossed, host.text}
<1>1. CASE g = front
  BY <1>1 DEF TypeOK
<1>2. CASE g = [front EXCEPT !.broken = TRUE]
  BY <1>2 DEF TypeOK
<1>3. CASE HasSomethingNew(front)
           /\ g = [PasteText(front, host.text[1]) EXCEPT !.crossed = host.text]
  <2>1. host.text \in Seq(Texts) /\ host.text # <<>> /\ host.from = "program"
    BY <1>3 DEF HasSomethingNew, TypeOK, Remembered
  <2>2. host.text[1] \in Texts
    BY <2>1
  <2> DEFINE asked == [id |-> "paste", text |-> host.text[1], from |-> host.from]
  <2>3. asked \in Command
    BY <2>1, <2>2 DEF Command, PasteCommand
  <2>4. <<asked>> \in Seq(Command)
    BY <2>3
  <2>5. g = [[front EXCEPT !.sending = <<asked>>] EXCEPT !.crossed = host.text]
    BY <1>3 DEF PasteText
  <2> HIDE DEF asked
  <2> QED BY <2>1, <2>4, <2>5 DEF TypeOK
<1> QED BY <1>1, <1>2, <1>3 DEF FromHost

LEMMA FirstWatcher == NewWatcher \in Watcher
<1>1. SettleFrames \in Nat /\ <<>> \in Seq(Texts)
  BY MachineAssumption DEF MachineAssumption
<1>2. <<0, 0, FALSE>> \in Nat \X Nat \X BOOLEAN
  <2>1. 0 \in Nat /\ FALSE \in BOOLEAN
    OBVIOUS
  <2> QED BY <2>1, Zenon
<1> QED BY <1>1, <1>2 DEF NewWatcher, Watcher

LEMMA ResetKeepsTypes ==
    ASSUME TypeOK, ResetMachine
    PROVE  clip' \in Clip /\ watcher' \in Watcher /\ scrap' \in Scrap /\ cpu' = "boot"
<1>1. NewWatcher \in Watcher
  BY FirstWatcher
<1>2. NoScrap \in Scrap
  <2>1. <<>> \in Seq(Texts)
    OBVIOUS
  <2> QED BY <2>1 DEF NoScrap, Scrap
<1>3. CancelPaste(clip) \in Clip
  <2>1. <<>> \in Seq(PasteCommand) /\ <<>> \in Seq({"event"})
    OBVIOUS
  <2> QED BY <2>1 DEF CancelPaste, Clip, TypeOK
<1> QED BY <1>1, <1>2, <1>3 DEF ResetMachine

\* The commands keep the shapes of the state.
LEMMA CommandsKeepTypes ==
    ASSUME TypeOK, NEW command \in Command, Execute(command)
    PROVE  clip' \in Clip /\ watcher' \in Watcher /\ scrap' \in Scrap
           /\ cpu' \in {"boot", "app", "event"} \union Program
<1>1. CASE command.id = "reset"
  BY <1>1, ResetKeepsTypes DEF Execute
<1>2. CASE command.id = "paste"
  <2>1. command \in PasteCommand
    BY <1>2 DEF Command
  <2>2. <<command>> \in Seq(PasteCommand) /\ PasteFrames \in Nat
    BY <2>1, MachineAssumption DEF MachineAssumption
  <2>3. StartPaste(clip, command) \in Clip
    BY <2>2 DEF StartPaste, TypeOK, Clip
  <2> QED BY <1>2, <2>3 DEF Execute, TypeOK
<1>3. CASE command.id \notin {"reset", "paste"}
  BY <1>3 DEF Execute, TypeOK
<1> QED BY <1>1, <1>2, <1>3

LEMMA EmptyType ==
    ASSUME TypeOK
    PROVE  Empty \in Scrap /\ Empty.entries = <<>>
<1>1. scrap \in Scrap /\ scrap.count + 1 \in Nat /\ <<>> \in Seq(Texts)
  BY DEF TypeOK, Scrap
<1> QED BY <1>1 DEF Empty, Scrap

LEMMA TypesHold ==
    ASSUME TypeOK, Remembered, PasteOK, [Next]_vars
    PROVE  TypeOK'
<1>0. <<>> \in Seq(Texts) /\ <<>> \in Seq(Command)
  OBVIOUS
<1>1. CASE UNCHANGED <<channel, front, host, clip, watcher, scrap, cpu>>
  BY <1>1 DEF TypeOK
<1>2. CASE \E id \in {"reset", "pause"} : SendCommand(id)
  <2>1. PICK id \in {"reset", "pause"} : SendCommand(id)
    BY <1>2
  <2>2. [id |-> id] \in Command
    BY DEF Command
  <2>3. <<[id |-> id]>> \in Seq(Command)
    BY <2>2
  <2> QED BY <2>1, <2>3 DEF SendCommand, Sends, TypeOK
<1>3. CASE Close
  <2>1. [id |-> "kill"] \in Command
    BY DEF Command
  <2>2. <<[id |-> "kill"]>> \in Seq(Command)
    BY <2>1
  <2> QED BY <1>3, <2>2 DEF Close, TypeOK
<1>4. CASE Sent
  <2>1. channel \o front.sending \in Seq(Command)
    BY DEF TypeOK
  <2> QED BY <1>4, <1>0, <2>1 DEF Sent, TypeOK
<1>5. CASE ToHost
  <2>1. clip.copied \in Seq(Texts) /\ <<>> \in Seq(Texts)
    BY DEF TypeOK, Clip
  <2>2. clip' \in Clip
    BY <1>5, <2>1 DEF ToHost, TakeCopiedText, TypeOK, Clip
  <2>3. CASE host' = [text |-> clip.copied, from |-> "machine"]
             /\ front' = [front EXCEPT !.crossed = clip.copied]
    BY <1>5, <2>1, <2>2, <2>3 DEF ToHost, TypeOK
  <2>4. CASE UNCHANGED host /\ front' = [front EXCEPT !.crossed = clip.copied, !.broken = TRUE]
    BY <1>5, <2>1, <2>2, <2>4 DEF ToHost, TypeOK
  <2> QED BY <1>5, <2>3, <2>4 DEF ToHost
<1>6. CASE Paste
  <2>1. front' \in FromHost(front)
    BY <1>6 DEF Paste
  <2>2. front' \in [sending : Seq(Command), crossed : Seq(Texts),
                    broken : BOOLEAN, closing : BOOLEAN]
    BY <2>1, FrontEndSends
  <2> QED BY <1>6, <2>2 DEF Paste, TypeOK
<1>7. CASE \E text \in Texts : HostCopies(text)
  <2>1. PICK text \in Texts : HostCopies(text)
    BY <1>7
  <2>2. <<text>> \in Seq(Texts)
    OBVIOUS
  <2> QED BY <2>1, <2>2 DEF HostCopies, TypeOK
<1>8. CASE Plant
  <2>1. <<"event">> \in Seq({"event"})
    OBVIOUS
  <2>2. clip' = [clip EXCEPT !.running = TRUE, !.saved = <<"event">>] /\ cpu' = "zero"
    BY <1>8 DEF Plant, Ready
  <2>3. clip' \in Clip
    BY <2>1, <2>2 DEF TypeOK, Clip
  <2> QED BY <1>8, <2>2, <2>3 DEF Plant, TypeOK, Program
<1>9. CASE ProgramStep
  <2>1. cpu' \in Program
    BY <1>9 DEF ProgramStep, Program
  <2>2. CASE scrap' = Empty
    <3>1. scrap' \in Scrap
      BY <2>2, EmptyType
    <3> QED BY <1>9, <2>1, <3>1 DEF ProgramStep, TypeOK
  <2>3. CASE cpu = "put" /\ scrap' = [scrap EXCEPT !.from = "host", !.entries =
                                          Append(@, ToMac(clip.pending[1].text))]
    <3>1. clip.pending \in Seq(PasteCommand) /\ clip.pending # <<>>
      BY <2>3 DEF TypeOK, Clip, PasteOK, ProcessorIsGivenBack, Program
    <3>2. clip.pending[1] \in PasteCommand
      BY <3>1
    <3>3. ToMac(clip.pending[1].text) \in Texts
      BY <3>2, MacText DEF PasteCommand
    <3>4. Append(scrap.entries, ToMac(clip.pending[1].text)) \in Seq(Texts)
      BY <3>3 DEF TypeOK, Scrap
    <3>5. scrap' \in Scrap
      BY <2>3, <3>4 DEF TypeOK, Scrap
    <3> QED BY <1>9, <2>1, <3>5 DEF ProgramStep, TypeOK
  <2>4. CASE scrap' = scrap
    BY <1>9, <2>1, <2>4 DEF ProgramStep, TypeOK
  <2> QED BY <1>9, <2>2, <2>3, <2>4 DEF ProgramStep
<1>10. CASE FinishPaste
  <2>1. cpu' = "event"
    BY <1>10 DEF FinishPaste, PasteOK
  <2>2. clip' \in Clip
    <3>1. <<>> \in Seq(PasteCommand) /\ <<>> \in Seq({"event"})
      OBVIOUS
    <3> QED BY <1>10, <3>1 DEF FinishPaste, CancelPaste, TypeOK, Clip
  <2>3. watcher' \in Watcher
    <3>1. clip.pending \in Seq(PasteCommand) /\ clip.pending # <<>>
      BY <1>10 DEF FinishPaste, TypeOK, Clip, PasteOK
    <3>2. clip.pending[1] \in PasteCommand
      BY <3>1
    <3>3. <<ToMac(clip.pending[1].text)>> \in Seq(Texts)
      BY <3>2, MacText DEF PasteCommand
    <3> QED BY <1>10, <3>3 DEF FinishPaste, Suppress, SuppressHosts, TypeOK, Watcher
  <2> QED BY <1>10, <2>1, <2>2, <2>3 DEF FinishPaste, TypeOK
<1>11. CASE Frame
  BY <1>11, FrameCarries DEF Frame, TypeOK
<1>12. CASE AsksForEvent \/ GetsEvent
  BY <1>12 DEF AsksForEvent, GetsEvent, TypeOK
<1>13. CASE \/ PutScrap \/ UnloadScrap \/ LoadScrap
            \/ \E text \in Texts : ToMac(text) = text /\ ZeroScrap(text)
  <2>1. scrap' \in Scrap
    <3>1. CASE PutScrap
      <4>1. scrap.entries \o scrap.half \in Seq(Texts)
        BY DEF TypeOK, Scrap
      <4> QED BY <3>1, <4>1, <1>0 DEF PutScrap, AppDoes, TypeOK, Scrap
    <3>2. CASE UnloadScrap \/ LoadScrap
      BY <3>2 DEF UnloadScrap, LoadScrap, AppDoes, TypeOK, Scrap
    <3>3. CASE \E text \in Texts : ToMac(text) = text /\ ZeroScrap(text)
      <4>1. PICK text \in Texts : ZeroScrap(text)
        BY <3>3
      <4>2. <<text>> \in Seq(Texts)
        OBVIOUS
      <4>3. scrap' = [Empty EXCEPT !.half = <<text>>] /\ Empty \in Scrap
        BY <4>1, EmptyType DEF ZeroScrap, AppDoes
      <4> QED BY <4>2, <4>3 DEF Scrap
    <3> QED BY <1>13, <3>1, <3>2, <3>3
  <2> QED
    BY <1>13, <2>1 DEF PutScrap, UnloadScrap, LoadScrap, ZeroScrap, AppDoes, TypeOK
<1>14. CASE Boot
  <2>1. scrap' \in Scrap
    <3>1. NoScrap \in Scrap
      BY <1>0 DEF NoScrap, Scrap
    <3>2. CASE scrap' = [NoScrap EXCEPT !.where = "memory"]
      BY <3>1, <3>2 DEF Scrap
    <3>3. CASE \E text \in Texts :
                   scrap' = [NoScrap EXCEPT !.where = "disk", !.entries = <<ToMac(text)>>]
      <4>1. PICK text \in Texts :
                scrap' = [NoScrap EXCEPT !.where = "disk", !.entries = <<ToMac(text)>>]
        BY <3>3
      <4>2. <<ToMac(text)>> \in Seq(Texts)
        BY MacText
      <4> QED BY <3>1, <4>1, <4>2 DEF Scrap
    <3> QED BY <1>14, <3>2, <3>3 DEF Boot
  <2> QED BY <1>14, <2>1 DEF Boot, TypeOK
<1>15. CASE SoftwareReset
  <2>1. clip' \in Clip /\ watcher' \in Watcher /\ scrap' \in Scrap /\ cpu' = "boot"
    BY <1>15, ResetKeepsTypes DEF SoftwareReset
  <2> QED BY <1>15, <2>1 DEF SoftwareReset, TypeOK
<1>16. CASE ExecuteCommands
  <2>1. CASE channel = <<>>
    BY <1>16, <2>1 DEF ExecuteCommands, TypeOK
  <2>2. CASE channel # <<>>
    <3>1. Head(channel) \in Command /\ Tail(channel) \in Seq(Command)
      BY <2>2 DEF TypeOK
    <3>2. Execute(Head(channel)) /\ channel' = Tail(channel) /\ UNCHANGED <<front, host>>
      BY <1>16, <2>2 DEF ExecuteCommands
    <3>3. clip' \in Clip /\ watcher' \in Watcher /\ scrap' \in Scrap
          /\ cpu' \in {"boot", "app", "event"} \union Program
      BY <3>1, <3>2, CommandsKeepTypes
    <3> QED BY <3>1, <3>2, <3>3 DEF TypeOK
  <2> QED BY <2>1, <2>2
<1>17. CASE SpinOver \/ CompareAndSwap \/ TimePasses \/ Click \/ Transmit
  BY <1>17, <1>1 DEF SpinOver, CompareAndSwap, TimePasses, Click, Transmit
<1> QED
  BY <1>1, <1>2, <1>3, <1>4, <1>5, <1>6, <1>7, <1>8, <1>9, <1>10, <1>11, <1>12, <1>13,
     <1>14, <1>15, <1>16, <1>17 DEF Next, FrontEnd, Application, RunLoop, vars

LEMMA RememberedHolds ==
    ASSUME TypeOK, Remembered, [Next]_vars
    PROVE  Remembered'
<1>1. CASE UNCHANGED <<front, host>>
  BY <1>1 DEF Remembered
<1>2. CASE (\E id \in {"reset", "pause"} : SendCommand(id)) \/ Close \/ Sent
  BY <1>2 DEF SendCommand, Sends, Close, Sent, TypeOK, Remembered
<1>3. CASE ToHost
  <2>1. CASE host' = [text |-> clip.copied, from |-> "machine"]
             /\ front' = [front EXCEPT !.crossed = clip.copied]
    BY <2>1 DEF TypeOK, Remembered
  <2>2. CASE front' = [front EXCEPT !.crossed = clip.copied, !.broken = TRUE]
    BY <2>2 DEF TypeOK, Remembered
  <2> QED BY <1>3, <2>1, <2>2 DEF ToHost
<1>4. CASE Paste
  <2>1. front' \in FromHost(front) /\ host' = host
    BY <1>4 DEF Paste
  <2>2. (front.broken => front'.broken) /\ front'.crossed \in {front.crossed, host.text}
    BY <2>1, FrontEndSends
  <2> QED BY <2>1, <2>2 DEF Remembered
<1>5. CASE \E text \in Texts : HostCopies(text)
  BY <1>5 DEF HostCopies, Remembered
<1>6. CASE Application \/ RunLoop \/ Plant \/ ProgramStep \/ FinishPaste
           \/ Frame \/ TimePasses \/ Click
  BY <1>6, <1>1 DEF Application, AsksForEvent, GetsEvent, PutScrap, UnloadScrap,
     LoadScrap, ZeroScrap, AppDoes, Transmit, Boot, SoftwareReset, RunLoop, SpinOver,
     ExecuteCommands, CompareAndSwap, Plant, ProgramStep, FinishPaste, Frame,
     TimePasses, Click
<1> QED BY <1>1, <1>2, <1>3, <1>4, <1>5, <1>6 DEF Next, FrontEnd, vars

\* Once a paste is planted its text stays what it is until its program is over.
LEMMA PassedOverHolds ==
    ASSUME TypeOK, PasteOK, PassedOver, [Next]_vars
    PROVE  PassedOver'
<1>1. CASE UNCHANGED <<clip, watcher, scrap, cpu>>
  BY <1>1 DEF PassedOver
<1>2. CASE ToHost
  BY <1>2 DEF ToHost, TakeCopiedText, TypeOK, Clip, PassedOver
<1>3. CASE Plant
  BY <1>3 DEF Plant, Ready, PassedOver
<1>4. CASE ProgramStep
  <2>1. CASE cpu = "zero" /\ scrap' = Empty /\ cpu' = "put"
    BY <2>1, EmptyType DEF PassedOver
  <2>2. CASE /\ cpu = "put" /\ cpu' = "done"
             /\ scrap' = [scrap EXCEPT !.from = "host", !.entries =
                              Append(@, ToMac(clip.pending[1].text))]
    <3>1. scrap'.entries = Append(<<>>, ToMac(clip.pending[1].text))
      BY <2>2 DEF PassedOver, TypeOK, Scrap
    <3>2. clip' = clip
      BY <1>4 DEF ProgramStep
    <3> QED BY <2>2, <3>1, <3>2 DEF PassedOver
  <2>3. CASE cpu = "put" /\ cpu' = "refused" /\ scrap' = scrap
    BY <2>3 DEF PassedOver
  <2> QED BY <1>4, <2>1, <2>2, <2>3 DEF ProgramStep
<1>5. CASE FinishPaste
  <2>1. cpu' = "event" /\ scrap' = scrap
    BY <1>5 DEF FinishPaste, PasteOK
  <2>2. CASE cpu = "done"
    <3>1. watcher' = [watcher EXCEPT !.started = TRUE,
                                     !.last = <<ToMac(clip.pending[1].text)>>]
      BY <1>5, <2>2 DEF FinishPaste, Suppress, SuppressHosts
    <3> QED BY <2>1, <2>2, <3>1 DEF PassedOver, TypeOK, Watcher
  <2>3. CASE cpu # "done"
    BY <1>5, <2>1, <2>3 DEF FinishPaste, PassedOver
  <2> QED BY <2>2, <2>3
<1>6. CASE Frame
  <2>1. /\ UNCHANGED <<scrap, cpu>>
        /\ clip.running => clip'.pending = clip.pending
        /\ watcher.started => watcher'.started
        /\ \/ watcher.started => watcher'.last = watcher.last
           \/ watcher.settle = 1 /\ TextOn(scrap) # <<>> /\ clip'.copied = TextOn(scrap)
    BY <1>6, FrameCarries DEF Frame
  <2>2. scrap.from = "host" /\ scrap.entries # <<>> /\ cpu # "done"
        => watcher'.last = <<scrap.entries[1]>>
    <3> SUFFICES ASSUME scrap.from = "host", scrap.entries # <<>>, cpu # "done"
                 PROVE  watcher'.last = <<scrap.entries[1]>>
      OBVIOUS
    <3>1. watcher.started /\ watcher.last = <<scrap.entries[1]>>
      BY DEF PassedOver
    <3>2. TextOn(scrap) \in {<<>>, watcher.last}
      BY <3>1, TextOnType DEF TypeOK
    <3>3. watcher'.last = watcher.last
      BY <1>6, <3>1, <3>2, FrameCarries DEF Frame
    <3> QED BY <3>1, <3>3
  <2>3. cpu = "done" => clip.running
    BY DEF PasteOK, ProcessorIsGivenBack, Program
  <2> QED BY <2>1, <2>2, <2>3 DEF PassedOver
<1>7. CASE AsksForEvent \/ GetsEvent
  BY <1>7 DEF AsksForEvent, GetsEvent, PassedOver
<1>8. CASE PutScrap
  <2>1. /\ cpu = "app" /\ cpu' = cpu /\ watcher' = watcher /\ clip' = clip
        /\ scrap' = [scrap EXCEPT !.half = <<>>, !.entries = @ \o scrap.half,
                                  !.from = IF @ = "host" /\ scrap.entries # <<>>
                                           THEN "host" ELSE "app"]
    BY <1>8 DEF PutScrap, AppDoes
  <2>2. /\ scrap'.from = IF scrap.from = "host" /\ scrap.entries # <<>> THEN "host" ELSE "app"
        /\ scrap'.entries = scrap.entries \o scrap.half
    BY <2>1 DEF TypeOK, Scrap
  <2>3. scrap.entries # <<>> => (scrap.entries \o scrap.half)[1] = scrap.entries[1]
    BY DEF TypeOK, Scrap
  <2>4. scrap'.from = "host" =>
            watcher'.started /\ watcher'.last = <<scrap'.entries[1]>>
    <3> SUFFICES ASSUME scrap'.from = "host"
                 PROVE  watcher'.started /\ watcher'.last = <<scrap'.entries[1]>>
      OBVIOUS
    <3>1. scrap.from = "host" /\ scrap.entries # <<>>
      BY <2>2
    <3>2. scrap'.entries[1] = scrap.entries[1]
      BY <2>2, <2>3, <3>1
    <3> QED BY <2>1, <3>1, <3>2 DEF PassedOver
  <2> QED BY <2>1, <2>4 DEF PassedOver
<1>9. CASE UnloadScrap \/ LoadScrap
  BY <1>9 DEF UnloadScrap, LoadScrap, AppDoes, TypeOK, Scrap, PassedOver
<1>10. CASE \E text \in Texts : ToMac(text) = text /\ ZeroScrap(text)
  <2>1. PICK text \in Texts : ZeroScrap(text)
    BY <1>10
  <2>2. scrap' = [Empty EXCEPT !.half = <<text>>] /\ cpu = "app" /\ cpu' = cpu
    BY <2>1 DEF ZeroScrap, AppDoes
  <2>3. scrap'.entries = <<>>
    BY <2>2, EmptyType DEF Scrap
  <2> QED BY <2>2, <2>3 DEF PassedOver
<1>11. CASE Boot
  <2>1. cpu' = "app" /\ scrap'.from = "file"
    BY <1>11 DEF Boot, NoScrap
  <2> QED BY <2>1 DEF PassedOver
<1>12. CASE SoftwareReset
  BY <1>12 DEF SoftwareReset, ResetMachine, NoScrap, PassedOver
<1>13. CASE ExecuteCommands
  <2>1. CASE channel = <<>>
    BY <1>13, <2>1, <1>1 DEF ExecuteCommands
  <2>2. CASE channel # <<>>
    <3>1. Execute(Head(channel))
      BY <1>13, <2>2 DEF ExecuteCommands
    <3>2. CASE Head(channel).id = "reset"
      BY <3>1, <3>2 DEF Execute, ResetMachine, NoScrap, PassedOver
    <3>3. CASE Head(channel).id # "reset"
      <4>1. UNCHANGED <<cpu, scrap, watcher>>
        BY <3>1, <3>3 DEF Execute
      <4>2. clip.running => clip' = clip
        BY <3>1, <3>3 DEF Execute, StartPaste
      <4>3. cpu = "done" => clip.running
        BY DEF PasteOK, ProcessorIsGivenBack, Program
      <4> QED BY <4>1, <4>2, <4>3 DEF PassedOver
    <3> QED BY <3>2, <3>3
  <2> QED BY <2>1, <2>2
<1>14. CASE \/ SpinOver \/ CompareAndSwap \/ TimePasses \/ Click \/ Transmit
            \/ (\E id \in {"reset", "pause"} : SendCommand(id)) \/ Close \/ Sent \/ Paste
            \/ \E text \in Texts : HostCopies(text)
  BY <1>14, <1>1 DEF SpinOver, CompareAndSwap, TimePasses, Click, Transmit, SendCommand,
     Close, Sent, Paste, HostCopies
<1> QED
  BY <1>1, <1>2, <1>3, <1>4, <1>5, <1>6, <1>7, <1>8, <1>9, <1>10, <1>11, <1>12, <1>13,
     <1>14 DEF Next, FrontEnd, Application, RunLoop, vars

LEMMA CopiesHold ==
    ASSUME TypeOK, PasteOK, PassedOver, CopiesAreOurs, [Next]_vars
    PROVE  CopiesAreOurs'
<1>1. CASE UNCHANGED clip
  BY <1>1 DEF CopiesAreOurs
<1>2. CASE ToHost
  BY <1>2 DEF ToHost, TakeCopiedText, TypeOK, Clip, CopiesAreOurs
<1>3. CASE Plant
  BY <1>3 DEF Plant, TypeOK, Clip, CopiesAreOurs
<1>4. CASE FinishPaste \/ SoftwareReset
  BY <1>4 DEF FinishPaste, SoftwareReset, ResetMachine, CancelPaste, TypeOK, Clip,
              CopiesAreOurs
<1>5. CASE Frame
  <2>1. CASE clip'.copied = clip.copied /\ clip'.from = clip.from
    BY <2>1 DEF CopiesAreOurs
  <2>2. CASE /\ clip'.copied = TextOn(scrap) /\ clip'.from = scrap.from
             /\ watcher.settle = 1 /\ TextOn(scrap) # <<>>
             /\ TextOn(scrap) # watcher.last
    <3>1. cpu \notin Program
      BY <1>5, <2>2 DEF Frame, TypeOK, Watcher
    <3>2. TextOn(scrap) = <<scrap.entries[1]>> /\ scrap.entries # <<>>
      BY <2>2, TextOnType DEF TypeOK
    <3> QED BY <2>2, <3>1, <3>2 DEF PassedOver, Program, CopiesAreOurs
  <2> QED BY <1>5, <2>1, <2>2, FrameCarries DEF Frame
<1>6. CASE ExecuteCommands
  <2>1. CASE channel = <<>>
    BY <1>6, <2>1, <1>1 DEF ExecuteCommands
  <2>2. CASE channel # <<>>
    <3>1. Execute(Head(channel))
      BY <1>6, <2>2 DEF ExecuteCommands
    <3> QED BY <3>1 DEF Execute, ResetMachine, CancelPaste, StartPaste, TypeOK, Clip,
                        CopiesAreOurs
  <2> QED BY <2>1, <2>2
<1>7. CASE \/ SpinOver \/ CompareAndSwap \/ TimePasses \/ Click \/ Transmit
           \/ (\E id \in {"reset", "pause"} : SendCommand(id)) \/ Close \/ Sent \/ Paste
           \/ (\E text \in Texts : HostCopies(text)) \/ ProgramStep
           \/ AsksForEvent \/ GetsEvent \/ PutScrap \/ UnloadScrap \/ LoadScrap
           \/ (\E text \in Texts : ZeroScrap(text)) \/ Boot
  BY <1>7, <1>1 DEF SpinOver, CompareAndSwap, TimePasses, Click, Transmit, SendCommand,
     Close, Sent, Paste, HostCopies, ProgramStep, AsksForEvent, GetsEvent, PutScrap,
     UnloadScrap, LoadScrap, ZeroScrap, AppDoes, Boot
<1> QED
  BY <1>1, <1>2, <1>3, <1>4, <1>5, <1>6, <1>7 DEF Next, FrontEnd, Application, RunLoop, vars

LEMMA ApartInvariant == Spec => []Apart
<1>1. Init => Apart
  <2> SUFFICES ASSUME Init PROVE Apart
    OBVIOUS
  <2>0. /\ <<>> \in Seq(Texts) /\ <<>> \in Seq(Command) /\ <<>> \in Seq(PasteCommand)
        /\ <<>> \in Seq({"event"})
    OBVIOUS
  <2>1. clip \in Clip
    BY <2>0 DEF Init, NoClip, Clip
  <2>2. watcher \in Watcher
    BY FirstWatcher DEF Init
  <2>3. scrap \in Scrap
    BY <2>0 DEF Init, NoScrap, Scrap
  <2>4. host.text \in Seq(Texts) /\ host.from = "program"
        /\ host \in [text : Seq(Texts), from : {"program", "machine"}]
    <3>1. \A text \in Texts : <<text>> \in Seq(Texts)
      OBVIOUS
    <3> QED BY <3>1 DEF Init
  <2>5. TypeOK
    BY <2>0, <2>1, <2>2, <2>3, <2>4 DEF Init, NothingCrossed, TypeOK
  <2> QED BY <2>4, <2>5 DEF Init, NoScrap, NoClip, Apart, Remembered, PassedOver, CopiesAreOurs
<1>2. Apart /\ PasteOK /\ [Next]_vars => Apart'
  BY TypesHold, RememberedHolds, PassedOverHolds, CopiesHold DEF Apart
<1> QED BY <1>1, <1>2, PasteInvariant, PTL DEF Spec

\* The commands, the clipboards, the scrap and its watcher have the shapes the
\* run loop and the front end count on (macRun.go, scrap/watcher.go).
THEOREM TypeCorrect == Spec => []TypeOK
<1>1. Apart => TypeOK
  BY DEF Apart
<1> QED BY <1>1, ApartInvariant, PTL

\* Nothing comes back: no copy told to the host is a text the host put there,
\* and no paste is of a text the machine put on the clipboard of the host
\* (suppress, scrap/watcher.go; hasSomethingNew, ebitenClipboard.go).
THEOREM NothingComesBackEver == Spec => []NothingComesBack
<1>1. Apart => NothingComesBack
  <2> SUFFICES ASSUME Apart PROVE NothingComesBack
    OBVIOUS
  <2>1. \A n \in 1..Len(channel) : channel[n] \in Command
    BY DEF Apart, TypeOK
  <2>2. \A n \in 1..Len(channel) : channel[n].id = "paste" => channel[n].from = "program"
    BY <2>1 DEF Command, PasteCommand
  <2> QED BY <2>2 DEF Apart, CopiesAreOurs, NothingComesBack
<1> QED BY <1>1, ApartInvariant, PTL

=============================================================================
