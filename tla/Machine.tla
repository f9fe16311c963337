------------------------------ MODULE Machine ------------------------------
(***************************************************************************)
(* The machine between its two goroutines: the run loop (src/macRun.go),   *)
(* which runs the processor, takes the commands of the front end from a    *)
(* channel and paces itself, and the front end, which sends the commands,  *)
(* clicks and carries the clipboard of the host (src/command.go,           *)
(* src/clipboard.go, src/scrap, src/frontend/macebiten).  The applications *)
(* of the Macintosh, its Scrap Manager and the host are external.          *)
(*                                                                         *)
(* A paste has the processor run a short program, planted where an         *)
(* application asks for an event, that puts the text on the scrap; a copy  *)
(* is noticed by looking at the scrap once a frame.                        *)
(***************************************************************************)
EXTENDS Integers, Sequences

CONSTANTS Texts,         \* the texts copied
          Mac,           \* what becomes of each in the Macintosh and back
          ChannelSize,   \* commands that can wait
          SettleFrames,  \* frames the scrap holds still before it is read
          PasteFrames,   \* frames a paste waits for its moment
          HoldTime,      \* how long a click holds the real speed
          MaxActs,       \* bound: what the user and the host do
          MaxCopies,     \* bound: copies and loads of the scrap
          MaxNow         \* bound: the time of the host

ASSUME MachineAssumption ==
    /\ {ChannelSize, PasteFrames, HoldTime} \subseteq Nat \ {0}
    /\ SettleFrames \in Nat \ {0, 1}
    /\ Mac \in [Texts -> Texts]
    /\ \A text \in Texts : Mac[Mac[text]] = Mac[text]

VARIABLES loop,     \* what the run loop is at
          paused,
          channel,  \* the commands waiting
          hold,     \* of a click: until when, and what the loop read of it
          front,    \* the front end: the command it is sending, its clipboard
          host,     \* the clipboard of the host
          clip,     \* the paste under way and the copy not yet taken
          watcher,  \* of the scrap
          scrap,    \* of the Scrap Manager
          cpu,      \* what the processor runs
          printer,  \* whether its file is open, and whether it failed
          now,      \* the time of the host
          counts    \* what is bounded

vars == <<loop, paused, channel, hold, front, host, clip, watcher, scrap,
          cpu, printer, now, counts>>

-----------------------------------------------------------------------------
(* The scrap and who looks at it. *)

\* The text of the scrap, if it can be read where it is.
TextOn(s) == IF s.where = "memory" /\ s.entries # <<>>
             THEN <<s.entries[1]>> ELSE <<>>
Started(s) == s.where # "none"

\* Mutant of Signature: only the count is watched.
CountOnly(s) == <<s.count, 0, FALSE>>
Signature(s) == <<s.count, Len(s.entries), s.where = "memory">>

NewWatcher == [seen |-> <<0, 0, FALSE>>, settle |-> SettleFrames,
               started |-> FALSE, last |-> <<>>]

\* A look at the scrap: the watcher after it and the text found, if any.
Poll(w, s) ==
    CASE Signature(s) # w.seen ->
             <<[w EXCEPT !.seen = Signature(s), !.settle = SettleFrames], <<>>>>
      [] Signature(s) = w.seen /\ w.settle = 0 -> <<w, <<>>>>
      [] Signature(s) = w.seen /\ w.settle > 1 ->
             <<[w EXCEPT !.settle = @ - 1], <<>>>>
      [] OTHER ->
             LET still == [w EXCEPT !.settle = 0]
             IN  CASE ~w.started ->
                        <<[still EXCEPT !.started = TRUE, !.last = TextOn(s)],
                          <<>>>>
                   [] w.started /\ TextOn(s) \in {<<>>, w.last} ->
                        <<still, <<>>>>
                   [] OTHER -> <<[still EXCEPT !.last = TextOn(s)], TextOn(s)>>

\* Mutant of Suppress: the text as the host gave it.
SuppressHosts(w, text) == [w EXCEPT !.started = TRUE, !.last = <<text>>]
\* What becomes of a text in the characters of the Macintosh, read back.
ToMac(text) == Mac[text]
\* This text was put there from the host, as the machine holds it.
Suppress(w, text) == SuppressHosts(w, ToMac(text))

-----------------------------------------------------------------------------
(* The front end.  It sends one thing at a time: with the channel full it  *)
(* waits.                                                                  *)

NothingCrossed ==
    [sending |-> <<>>, crossed |-> <<>>, broken |-> FALSE, closing |-> FALSE]
Free == front.sending = <<>> /\ ~front.closing
Act == counts.acts < MaxActs /\ counts' = [counts EXCEPT !.acts = @ + 1]

Copied ==
    /\ counts.copies < MaxCopies
    /\ counts' = [counts EXCEPT !.copies = @ + 1]

Sends(command) == front' = [front EXCEPT !.sending = <<command>>]
SendCommand(id) ==
    /\ Free /\ Act
    /\ Sends([id |-> id])
    /\ UNCHANGED <<loop, paused, channel, hold, host, clip, watcher,
                   scrap, cpu, printer, now>>

\* Closing the window has the machine stop, and is waited for.
Close ==
    /\ Free /\ Act
    /\ front' = [front EXCEPT !.sending = <<[id |-> "kill"]>>, !.closing = TRUE]
    /\ UNCHANGED <<loop, paused, channel, hold, host, clip, watcher, scrap, cpu,
                   printer, now>>

Sent ==
    /\ front.sending # <<>>
    /\ Len(channel) < ChannelSize
    /\ channel' = channel \o front.sending
    /\ front' = [front EXCEPT !.sending = <<>>]
    /\ UNCHANGED <<loop, paused, hold, host, clip, watcher, scrap, cpu,
                   printer, now, counts>>

\* The text copied on the machine since it was last asked.
TakeCopiedText ==
    /\ clip.copied # <<>>
    /\ clip' = [clip EXCEPT !.copied = <<>>]

\* A copy made on the machine is carried to the host.
ToHost ==
    /\ Free /\ TakeCopiedText
    /\ \/ /\ host' = [text |-> clip.copied, from |-> "machine"]
          /\ front' = [front EXCEPT !.crossed = clip.copied]
       \/ /\ front' = [front EXCEPT !.crossed = clip.copied, !.broken = TRUE]
          /\ UNCHANGED host
    /\ UNCHANGED <<loop, paused, channel, hold, watcher, scrap, cpu,
                   printer, now, counts>>

HasSomethingNew(f) == ~f.broken /\ host.text \notin {<<>>, f.crossed}

\* The text goes as a command, which waits with the others.
PasteText(f, text) ==
    [f EXCEPT !.sending = <<[id |-> "paste", text |-> text, from |-> host.from]>>]

\* The clipboard of the host goes to the machine, if it is another; one that
\* cannot be read is not asked for again.
FromHost(f) ==
    {IF HasSomethingNew(f)
     THEN [PasteText(f, host.text[1]) EXCEPT !.crossed = host.text]
     ELSE f,
     [f EXCEPT !.broken = TRUE]}

\* On the paste key, or when the window is given the focus.
Paste ==
    /\ Free /\ Act
    /\ front' \in FromHost(front)
    /\ UNCHANGED <<loop, paused, channel, hold, host, clip, watcher, scrap, cpu,
                   printer, now>>

HostCopies(text) ==
    /\ Copied
    /\ host' = [text |-> <<text>>, from |-> "program"]
    /\ UNCHANGED <<loop, paused, channel, hold, front, clip, watcher,
                   scrap, cpu, printer, now>>

\* How long a click is to hold the real speed: until when, and what the run
\* loop has read of that.
NoHold == [until |-> 0, loaded |-> 0, asked |-> 0]
\* A change of the button keeps the machine on its own clock for a while.
Click ==
    /\ Free /\ Act
    /\ hold' = [hold EXCEPT !.until = now + HoldTime, !.asked = now + HoldTime]
    /\ UNCHANGED <<loop, paused, channel, front, host, clip, watcher,
                   scrap, cpu, printer, now>>

-----------------------------------------------------------------------------
(* The paste and the copy, once a frame and before each instruction.       *)

NoClip == [pending |-> <<>>, running |-> FALSE, saved |-> <<>>, waiting |-> 0,
           copied |-> <<>>, from |-> "app"]
CancelPaste(c) ==
    [c EXCEPT !.pending = <<>>, !.running = FALSE, !.saved = <<>>]

\* Mutant of StartPaste: the new paste takes the place of the one running.
StartPasteAnyway(c, command) ==
    [c EXCEPT !.pending = <<command>>, !.running = FALSE,
              !.waiting = PasteFrames]
\* A paste replaces one that waits, and is refused while one runs; that a text
\* is empty or too long to be put there is left open.
StartPaste(c, command) ==
    IF c.running THEN c
    ELSE [c EXCEPT !.pending = <<command>>, !.waiting = PasteFrames]

\* A frame less for a paste that waits.
Waited(c) ==
    CASE c.pending = <<>> \/ c.running -> c
      [] c.pending # <<>> /\ ~c.running /\ c.waiting > 1 ->
             [c EXCEPT !.waiting = @ - 1]
      [] OTHER -> CancelPaste([c EXCEPT !.waiting = 0])

\* While the overlay is on, which it is until the start is over, there is no
\* scrap to look at.
ClipboardFrame ==
    LET looked == IF cpu = "boot" THEN <<watcher, <<>>>>
                  ELSE Poll(watcher, scrap)
    IN  /\ watcher' = looked[1]
        /\ clip' = Waited(IF looked[2] = <<>> THEN clip
                          ELSE [clip EXCEPT !.copied = looked[2],
                                            !.from = scrap.from])

\* The processor runs between two looks at the channel.
Running == loop = "spin" /\ ~paused
Program == {"zero", "put", "done", "refused"}

\* A paste starts where an application asks for an event, with a scrap to put
\* it on.  That there is room for it on the stack is left open.
Ready == cpu = "event" /\ Started(scrap)
Plant ==
    /\ Running /\ clip.pending # <<>> /\ ~clip.running /\ Ready
    /\ clip' = [clip EXCEPT !.running = TRUE, !.saved = <<cpu>>]
    /\ cpu' = "zero"
    /\ UNCHANGED <<loop, paused, channel, hold, front, host, watcher,
                   scrap, printer, now, counts>>

\* The program runs: the scrap is emptied, and the text is put on it, for
\* which there may be no memory.
Empty == [scrap EXCEPT !.count = @ + 1, !.entries = <<>>, !.where = "memory"]
ProgramStep ==
    /\ Running /\ cpu \in {"zero", "put"}
    /\ \/ /\ cpu = "zero"
          /\ scrap' = Empty
          /\ cpu' = "put"
       \/ /\ cpu = "put"
          /\ scrap' = [scrap EXCEPT !.from = "host", !.entries =
                          Append(@, ToMac(clip.pending[1].text))]
          /\ cpu' = "done"
       \/ /\ cpu = "put"
          /\ cpu' = "refused"
          /\ UNCHANGED scrap
    /\ UNCHANGED <<loop, paused, channel, hold, front, host, clip,
                   watcher, printer, now, counts>>

\* The program is over, and the processor goes back to where it was.
FinishPaste ==
    /\ Running /\ clip.running /\ cpu \in {"done", "refused"}
    /\ cpu' = clip.saved[1]
    /\ watcher' = IF cpu = "done" THEN Suppress(watcher, clip.pending[1].text)
                  ELSE watcher
    /\ clip' = CancelPaste(clip)
    /\ UNCHANGED <<loop, paused, channel, hold, front, host, scrap,
                   printer, now, counts>>

\* A frame of the machine.  The program of a paste, two calls long, is over
\* before the scrap has held still for as long as it is watched: the frame at
\* which the watcher would read it does not come in the middle.
Frame ==
    /\ Running
    /\ cpu \in Program => watcher.settle # 1
    /\ ClipboardFrame
    /\ UNCHANGED <<loop, paused, channel, hold, front, host, scrap, cpu,
                   printer, now, counts>>

-----------------------------------------------------------------------------
(* The applications and the Scrap Manager. *)

AsksForEvent ==
    /\ Running /\ cpu = "app"
    /\ cpu' = "event"
    /\ UNCHANGED <<loop, paused, channel, hold, front, host, clip,
                   watcher, scrap, printer, now, counts>>
GetsEvent ==
    /\ Running /\ cpu = "event"
    /\ cpu' = "app"
    /\ UNCHANGED <<loop, paused, channel, hold, front, host, clip,
                   watcher, scrap, printer, now, counts>>

AppDoes(after) ==
    /\ Running /\ cpu = "app"
    /\ scrap' = after
    /\ UNCHANGED <<loop, paused, channel, hold, front, host, clip,
                   watcher, cpu, printer, now>>

\* A copy is two calls, and another application may run between them.
ZeroScrap(text) ==
    /\ scrap.half = <<>> /\ Copied
    /\ AppDoes([Empty EXCEPT !.half = <<text>>])
PutScrap ==
    /\ scrap.half # <<>>
    /\ UNCHANGED counts
    /\ AppDoes([scrap EXCEPT !.half = <<>>,
                             !.entries = @ \o scrap.half,
                             !.from = IF @ = "host" /\ scrap.entries # <<>>
                                      THEN "host" ELSE "app"])
UnloadScrap ==
    /\ scrap.where = "memory" /\ scrap.half = <<>> /\ Act
    /\ AppDoes([scrap EXCEPT !.where = "disk"])
LoadScrap ==
    /\ scrap.where = "disk" /\ Copied
    /\ AppDoes([scrap EXCEPT !.where = "memory"])

\* Nothing is opened until something is printed.
NothingPrinted == [open |-> FALSE, failed |-> FALSE]
\* A byte for the printer: the file is opened by the first one, and a printer
\* that fails takes no more.
Transmit ==
    /\ Running /\ cpu = "app" /\ ~printer.failed /\ Act
    /\ printer' \in {[open |-> TRUE, failed |-> TRUE]} \union
                    IF printer.open THEN {printer}
                    ELSE {[NothingPrinted EXCEPT !.open = TRUE],
                          [NothingPrinted EXCEPT !.failed = TRUE]}
    /\ UNCHANGED <<loop, paused, channel, hold, front, host, clip,
                   watcher, scrap, cpu, now>>

\* The System comes up, with the scrap the Clipboard file holds, or none.
NoScrap == [count |-> 0, entries |-> <<>>, where |-> "none", from |-> "file",
            half |-> <<>>]
Boot ==
    /\ Running /\ cpu = "boot"
    /\ cpu' = "app"
    /\ scrap' \in {[NoScrap EXCEPT !.where = "memory"]} \union
                  {[NoScrap EXCEPT !.where = "disk", !.entries = <<ToMac(text)>>] :
                      text \in Texts}
    /\ UNCHANGED <<loop, paused, channel, hold, front, host, clip,
                   watcher, printer, now, counts>>

-----------------------------------------------------------------------------
(* The run loop. *)

\* The chips and the processor start again, and what waited for them is lost.
ResetMachine ==
    /\ cpu' = "boot"
    /\ scrap' = NoScrap
    /\ watcher' = NewWatcher
    /\ clip' = CancelPaste(clip)

\* The RESET instruction starts the machine over too.
SoftwareReset ==
    /\ Running /\ cpu = "app" /\ Act
    /\ ResetMachine
    /\ UNCHANGED <<loop, paused, channel, hold, front, host, printer, now>>

SpinOver ==
    /\ loop = "spin"
    /\ loop' = "commands"
    /\ UNCHANGED <<paused, channel, hold, front, host, clip, watcher,
                   scrap, cpu, printer, now, counts>>

Execute(command) ==
    /\ loop' = IF command.id = "kill" THEN "ended" ELSE "commands"
    /\ paused' = IF command.id = "pause" THEN ~paused ELSE paused
    /\ printer' = IF command.id = "kill"
                  THEN [printer EXCEPT !.open = FALSE] ELSE printer
    /\ IF command.id = "reset" THEN ResetMachine
       ELSE /\ clip' \in {clip} \union
                  IF command.id = "paste" THEN {StartPaste(clip, command)} ELSE {}
            /\ UNCHANGED <<cpu, scrap, watcher>>

\* The pace of the next spin: a hold that has run out is dropped after it has
\* been compared.
PacedCycleDuration ==
    LET expired == hold.until # 0 /\ now >= hold.until
    IN  /\ loop' = IF expired THEN "swap" ELSE "spin"
        /\ hold' = [hold EXCEPT !.loaded = IF expired THEN hold.until ELSE 0]

\* Mutant of ExecuteCommands: a machine that is stopped takes no command.
ExecuteWhileRunning ==
    /\ loop = "commands"
    /\ IF channel = <<>> \/ paused
       THEN /\ PacedCycleDuration
            /\ UNCHANGED <<paused, channel, clip, watcher, scrap, cpu, printer>>
       ELSE /\ channel' = Tail(channel)
            /\ Execute(Head(channel))
            /\ UNCHANGED hold
    /\ UNCHANGED <<front, host, now, counts>>

\* The commands that wait, all of them, and on.
ExecuteCommands ==
    /\ loop = "commands"
    /\ IF channel = <<>>
       THEN /\ PacedCycleDuration
            /\ UNCHANGED <<paused, channel, clip, watcher, scrap, cpu, printer>>
       ELSE /\ channel' = Tail(channel)
            /\ Execute(Head(channel))
            /\ UNCHANGED hold
    /\ UNCHANGED <<front, host, now, counts>>

\* Mutant of HoldSwapped: the hold is dropped whatever it has become.
HoldDropped == [hold EXCEPT !.until = 0, !.loaded = 0]
HoldSwapped == [hold EXCEPT !.until = IF @ = hold.loaded THEN 0 ELSE @,
                            !.loaded = 0]
CompareAndSwap ==
    /\ loop = "swap"
    /\ loop' = "spin"
    /\ hold' = HoldSwapped
    /\ UNCHANGED <<paused, channel, front, host, clip, watcher, scrap,
                   cpu, printer, now, counts>>

TimePasses ==
    /\ now < MaxNow /\ hold.until # 0
    /\ now' = now + 1
    /\ UNCHANGED <<loop, paused, channel, hold, front, host, clip,
                   watcher, scrap, cpu, printer, counts>>

-----------------------------------------------------------------------------
Init ==
    /\ loop = "spin" /\ paused = FALSE /\ channel = <<>>
    /\ hold = NoHold
    /\ front = NothingCrossed
    /\ host \in [text : {<<text>> : text \in Texts}, from : {"program"}]
    /\ clip = NoClip /\ watcher = NewWatcher /\ scrap = NoScrap
    /\ cpu = "boot"
    /\ printer = NothingPrinted
    /\ now = 0
    /\ counts = [acts |-> 0, copies |-> 0]

FrontEnd ==
    \/ \E id \in {"reset", "pause"} : SendCommand(id)
    \/ Close \/ Sent \/ ToHost \/ Paste \/ Click
Application ==
    \/ AsksForEvent \/ GetsEvent \/ PutScrap \/ UnloadScrap \/ LoadScrap
    \/ \E text \in Texts : ToMac(text) = text /\ ZeroScrap(text)
    \/ Transmit \/ Boot \/ SoftwareReset
RunLoop ==
    \/ SpinOver \/ ExecuteCommands \/ CompareAndSwap
Next ==
    \/ FrontEnd \/ Application \/ RunLoop \/ Plant \/ ProgramStep \/ FinishPaste
    \/ Frame \/ TimePasses
    \/ \E text \in Texts : HostCopies(text)

\* The run loop goes round; spin after spin the processor gets on, and frames
\* pass; and a command the front end is sending gets in once there is room.
Fairness ==
    /\ WF_vars(RunLoop)
    /\ SF_vars(Frame) /\ SF_vars(ProgramStep \/ FinishPaste)
    /\ WF_vars(Sent)

Spec == Init /\ [][Next]_vars
FairSpec == Spec /\ Fairness

-----------------------------------------------------------------------------
(* Properties. *)

\* Nothing comes back: what is told to the host is never what a paste put on
\* the scrap, and what the front end pastes is never what a copy on the
\* machine left on the clipboard of the host.
NothingComesBack ==
    /\ clip.copied # <<>> => clip.from # "host"
    /\ \A n \in 1..Len(channel) :
           channel[n].id = "paste" => channel[n].from = "program"

\* The processor is given back: it runs the program of a paste only while the
\* paste runs, whatever happens to pastes and whenever the next one is asked
\* for, and so it never goes on in what is left of the program.
ProcessorIsGivenBack == clip.running <=> cpu \in Program

\* A click keeps the machine on its own clock until its time is over, with the
\* run loop dropping the hold of an earlier one at the same moment.
ClickHolds == now < hold.asked => hold.until = hold.asked

\* A paste that is asked for goes through or is given up, and a copy that is
\* left on the scrap becomes known, as long as the machine is not stopped.
Stopped == paused \/ loop = "ended"
TextCrosses ==
    /\ clip.pending # <<>> ~> clip.pending = <<>> \/ Stopped
    /\ \A text \in Texts :
        scrap.from = "app" /\ scrap.half = <<>> /\ TextOn(scrap) = <<text>>
            ~> \/ watcher.last = <<text>> \/ TextOn(scrap) # <<text>>
               \/ Stopped

\* Closing the window stops the machine, stopped or not, with the channel full
\* or not, and what was being printed comes out.
ClosesWhenTold == front.closing ~> loop = "ended" /\ ~printer.open
=============================================================================
