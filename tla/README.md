# A TLA+ model of izmac

izmac is a Macintosh Plus in Go: the machine and its devices, an AppleTalk
network of LocalTalk frames between machines, and a file server that serves a
directory of the host over AFP. This directory models the parts of it whose
correctness is a matter of order (retries, timeouts, handshakes, sessions,
resets, names that move, hosts that fail), checks them with TLC and proves the
main facts with TLAPS. Every definition is a translation of the source;
`PROJECT.json` gives the lines of each.

## 1. The system

The machine runs on one goroutine (`macRun.go`), instruction by instruction,
ticking its devices as the cycles pass. The front end talks to it through a
channel of commands (`command.go`), and in two places by itself: the mouse and
the hold of a click. Each AppleTalk node (`appletalk/node.go`) has a goroutine
of its own with a queue of frames, and the LocalTalk cable
(`localtalk/network.go`) and its extension over UDP (`localtalk/udp.go`) join
nodes and machines. The host is an actor too: its files fail, and what is in a
shared folder is put in and taken out by others.

| Component | State | Operations | Talks to | What is hard | What makes it correct |
|---|---|---|---|---|---|
| ATP, `appletalk/atp.go` | pending requests, kept responses, next transaction id | call, request, response, release, tick | a node's frames and timers; ASP above | loss, lateness, retries against expiry | a request runs once while its response is kept; a call ends once, with a whole answer of one run |
| ASP and AFP sessions, `appletalk/asp.go`, `afp/server.go` | the listener's sessions and AFP's, kept apart | OpenSess, Command, Write with its WriteContinue, CloseSess, tickle, expiry | ATP below, AFP above | a session ends while its write waits; a workstation is switched off | both maps agree, a write stays in its session, sessions left are closed |
| LocalTalk over UDP, `localtalk/udp.go` | queue, `queued`, `heard`, `lost` | Receive, the sender, the listener, Deliver, Close | the cable, another process | three goroutines, a deadline, late datagrams | what Deliver tells |
| LocalTalk port, `appletalk.go`, `component/scc8530*.go` | the frame offered, the frames that wait; the channel's registers, FIFO, queue and latches | offer, take, answer, send, poll; a byte leaves, a byte arrives | cable, the ROM's driver | a handshake done for stations that know nothing of it, a receiver that is off, a reset between two bytes | frames whole, once, in order; answers next on the wire; offers end |
| AFP volume, `afp/` | catalog numbers, open forks with deny modes, resource forks in memory, desktop database, AppleDouble files | some thirty calls | the host's files, the sessions | files that move under the numbers, names the machine cannot tell apart, sessions that vanish | a number leads to its file, deny modes hold, one fork is one fork, metadata goes with its file |
| SCSI, `scsi/bus.go`, `scsi/disk.go` | lines, data bus, the selected target; each target's phase, command, data, sense | register writes, pseudo DMA, reset | the SCSI Manager of the ROM; the disk image | handshakes byte by byte, failures half way | the disk holds what was commanded, nothing hangs |
| IWM and drives, `iwm.go`, `iwmDrive.go`, `storage/floppyDisk.go`, `storage/gcr.go` | the lines; mechanics, the track under the head, the image in memory, the file | touch a switch, step, read, write, motor, insert, eject, close | the ROM's driver, the front end, the host's files | three copies of a sector, a host that fails, an image put in twice | the file is what the Macintosh saved, once the motor stops or the diskette is out |
| Keyboard, `keyboard.go`, `via.go`, `component/mos6522.go` | the queue of transitions, the answer waiting, the shift register | putKey, command, tick, giveBack, reset | the front end; the ROM's driver | an answer that meets the next command | no key lost, doubled or out of order |
| Real time clock, `component/rtc.go` | the serial line, parameter RAM, seconds, its file | SetLines, TickSecond, load, save | port B of the VIA, the ROM, the host's files | a routine cut short between two bits, a save that fails | what is kept is what was meant, the time read is right |
| Mouse, `mouse.go` | movement still to pay out, quadrature, the edge not looked at | move, tick, read | port B, the SCC's carrier detect, the front end | a step before the last was read; a race with the front end | the pointer goes where the mouse went |
| Run loop and commands, `macRun.go`, `command.go` | paused, the channel, the hold of a click | send, pause, reset, kill, pace | front ends | shutting down with the channel full, a hold renewed as it runs out | every command handled, closing returns |
| Clipboard, `clipboard.go`, `scrap/` | the paste in progress, what the watcher has seen | inject, watch, reset | Toolbox calls, the host's clipboard | a reset in the middle, an echo of a paste | a paste does not come back to the host, the processor is given back |
| AppleTalk node, `appletalk/node.go`, `nbp.go` | address, sockets, names, queue | acquire an address, Receive, Settle, register a name | cable, ATP, NBP | two nodes probing at once, the order of Settle | distinct addresses, frames before timers |
| Memory map, sound, HFS, unwrap, printer modes, front ends and the rest | see `PROJECT.json` | | | | |

`PROJECT.json` lists every component, with why those that are not modelled are
not, and the hazards each is exposed to, at their lines.

## 2. The modules

| Module | Models | Checked with |
|---|---|---|
| `Transaction` | what ATP promises of an exactly once request, with no packet, timer or retry in sight | `ATP!ImplementsTransaction` |
| `ATP`, `ATP_proofs` | `appletalk/atp.go` on both ends, over the queues of `node.go` | `ATPOnce.cfg` |
| `ASP`, `ASP_proofs` | `appletalk/asp.go` and the sessions of `afp/server.go`, over the exactly once requests of ATP | `ASP.cfg` |
| `UDP` | `localtalk/udp.go` | `UDPDeliver.cfg` |
| `SCC` | a channel of the 8530 as operators on a record: `component/scc8530.go`, `scc8530Sdlc.go` | `Port`, `PortB` |
| `Port`, `MC_Port` | `appletalk.go` over `SCC`, with the `.MPP` driver and the network | `Port.cfg` |
| `LocalTalk_proofs` | the proofs of `UDP` and of `Port` | |
| `AFPFolder` | the folder of the host as the server sees it: `afp/catalog.go`, `names.go`, `metadata.go` | `AFPVolume` |
| `AFPVolume`, `MC_AFP`, `AFP_proofs` | the calls of `afp/` over `AFPFolder`, the sessions and the host behind them | `AFPNames.cfg`, `AFPForks.cfg` |
| `SCSI`, `MC_SCSI`, `SCSI_proofs` | `scsi/bus.go` and `scsi/disk.go`, composed: the targets are part of its state | `SCSI.cfg` |
| `Drive` | one drive and its diskette as operators on a record: `iwmDrive.go`, `storage/floppyDisk.go` | `Diskettes`, `IWM` |
| `Diskettes` | the drives, the files behind the diskettes and the front end that puts them in and out, for a machine that may do anything to a drive | `Diskettes.cfg` |
| `IWM`, `IWM_proofs` | the lines of the controller, `iwm.go`, over the drives of `Diskettes`, which it is proved to implement; the proofs are of both | `IWM.cfg` |
| `Keyboard` | `keyboard.go`, its answer waiting in `via.go`, and the shift register of `component/mos6522.go` | `Keyboard.cfg` |
| `RTC` | the clock chip as operators on a record: `component/rtc.go` | `PortB` |
| `PortB`, `MC_PortB` | port B of the VIA, which `RTC` and `mouse.go` share, with the ROM's routines and the carrier detect of `SCC` | `Clock.cfg` |
| `VIA_proofs` | the proofs of `Keyboard` and of `PortB` | |
| `Machine`, `MC_Machine`, `Machine_proofs` | the run loop, the commands, the clipboard both ways, the hold of a click, the printer's file, and the front end's goroutine | `Machine.cfg` |

`SCC`, `RTC`, `Drive` and `AFPFolder` have no behaviour of their own: they are
operators that give the state a call leaves, and the module that composes them
has the actions. `Port` extends `SCC`; `PortB` has instances of `RTC` and `SCC`;
`Diskettes` extends `Drive`, and `IWM` extends `Diskettes`.

### ATP

A requester's `pending[k]` is the `pendingRequest` of transaction `k` (the
bitmap still wanted, the packets got, the retries left), the responder's
`kept[k]` the `keptResponse`, with no packets while the answer is being worked
out. `working` holds the requests handed to the layer above, which answers when
it likes, with what size it likes, or never. `Call`, `ReceiveResponse`,
`ReceiveRequest`, `ReceiveRelease`, `Respond` and `Tick` are the functions of
the file; `Lose` is a frame the network drops. A packet is known by the run it
comes from and its place, so that an answer put together from two runs can be
told from a whole one. Deadlines are counted down. Frames to the responder keep
their order, as `Node.frames` does; response packets come in any order, as the
code makes nothing of it, and two identical ones on the way are one.

Left out: a negative count of retries, which no caller modelled uses, requests
to several sockets of a node, the layout of a packet.

### ASP

`sessions` and `afp` are the two maps of sessions, written in different
functions of different packages. `kept` is ATP's responses, with the life ATP
gives them; one map stands for the listening socket and the session socket, as
a node's transaction ids are shared by its sockets. `continues` is the writes
waiting for their data. The workstation is external: it does what the client
of `appletalk/asp_test.go` does, and it may be switched off at any moment. Left
out: SPGetStatus, the tickles the server sends, and the refusal of another
version of the protocol (`asp.go:166-168`), which change no state here.

### UDP

The program (which sends frames and calls Deliver), the sender, the other end's
listener and the network run on their own. `CallDeliver`, `Look`, `DeliverTrue`,
`LookAgain` and `DeliverFalse` are the steps of `UDP.Deliver` between its locks;
`Hand` and `Count` are the two halves of `listen`, which hands a frame on before
it counts it. The two halves of `Receive`, which queues a frame and then counts
it (`udp.go:166-170`), are one action: only `Deliver` reads `queued`, and the
program that calls it is the one that sends.

### SCC and the port

`chip` is a channel: its registers as sets of the bits that matter, the
asynchronous transmitter, and the state of `sdlc` field by field. Time is left
out: `ByteLeaves` is the transmitter being done with a byte, `Starts` a frame
going on the wire, `Receives` its next byte, `QuietPasses` the gap after it.
`port` and `incoming` are `localTalkPort`'s: the frame on offer with its lines
and its times, and the channel the network delivers to from goroutines of its
own. `Poll` is one scan line. The driver is external: it turns itself on and
off, sends with the receiver off and after a lapRTS, answers what it is asked,
reads a frame to its end, and may find a byte overrun; a reset takes it away
between any two of its steps. It is assumed to keep up with the line once it
has begun a frame, to be done with a frame before the quiet after it ends, and
to find a CTS that is due before its 200 us are over.

Left out: the asynchronous receiver (nothing sends to it), the joining of a
network, and the break/abort interrupt, which the driver does not enable.

### AFP

`host` is the folder: what lies at each path, folder or file, locked or not,
with the bytes of its data fork. `side` is the AppleDouble files beside it.
`ids` is the catalog's two maps and its next number. `forks`, `resources` and
`copies` are the `openFork`s and `resourceFork`s, which the code shares by
pointer: `copies` has them by a number that stands for the pointer.
`comments`, `applications` and `scanned` are the desktop's. A call is an action,
as the server handles one at a time, and a refused one still numbers what its
path leads to. Names are values with the name the machine can have of each
(`Fold` tells which it cannot tell apart, `Inexact` which it gets mangled with a
number). The host puts files in, takes them out, and answers a write with
success, refusal, or half the file. `truth` and `strange` are history: what the
machine made of each thing, and where the host took something away, about which
nothing is promised.

Left out: icons and bundles, dates, byte ranges (no call keeps them), the
packing of parameters, `host_darwin.go`, hard create of an open file's metadata
beyond what is emptied.

### SCSI

Each target is a record of the fields of `Disk`; `medium` is the blocks behind
it. `Drive`, `AckPut` and `AckGet` are one function of the code,
`writeInitiatorCommand`, by what the byte on the bus is for; `PokeData`,
`DackWrite`, `DackRead` and `Reset` are the others. A command that reaches the
disk may fail on any block, as a host file may: `Moved` is how many blocks went
before. The initiator is external, and is the driver as the comments of
`bus.go` tell it: it looks at the lines, answers the phase it sees, and drains
what it did not want. Descriptor blocks are whole and real, the data and what a
disk says of itself are cut to a few bytes. Left out: arbitration, which is
always won, the mode pages' contents, the registers that are only read.

### Keyboard

`queue`, `taken`, `prefixed`, `response` and `stage` are the keyboard's,
`waiting` is `via.keyboardAnswer` while `keyboardAnswerWaiting`, and `sr`,
`flag` and `armed` are the shift register, its interrupt flag and
`shiftInArmed`. The wire's delays only order events, so `Tick` is `via.tick`
when one is over. The driver of the ROM is external: it asks the model until it
is told, then inquires, asks at once for the byte after a prefix, turns the
register around when its command has gone out, and reads the answer. It may be
late at any of it, and may give a command up with the answer waiting, as
`keyboard_test.go` has it do; having turned the register around, it takes the
answer. A prefix after a prefix it takes for one. The machine may be reset at
any step.

### Diskettes

What the machine writes is in three places: the bytes of the track under the
head (`under`, the code's `trackData` while `trackLoaded`), the image in memory
(`disk`) and the file (`files`). `FlushTrack`, `Flush`, `LoadTrack`, `ReadByte`,
`WriteByte`, `Ejected`, `SetMotor` and `Stepped` are the methods of `drive`, each
giving the drive it leaves. The bytes of a sector are a few cells, and the sector
decodes when all are of the same data: what the checksum of `gcr.go` comes to,
for two halves of two writes do not meet it. `Access` is one read or write of a
soft switch: a command latched by the strobe, then a byte moved, or neither. In
`Diskettes` the machine makes any of them that the lines allow (`Addressed`);
`IWM` has the lines and works out which. A host may write a file, refuse it, or
stop half way, which leaves no image at all (`Spoilt`); an image it has locked
opens read only, and one out of an archive has no file behind it. `shared`
remembers the images put in while a drive held them, or had them unsaved.
Commands of the front end are run between two instructions, so an action is a
whole call. Left out: the status lines, the tachometer and the mode register,
which only answer; the sizes of the five bands, one number of sectors here; the
copy of the drive's contents published for menus; and the diskettes held back at
the start, which go in as any other but were opened earlier.

### The clock and the mouse

`RTC` is the chip bit by bit: `SetLines` takes the three lines, and what a
whole byte does follows from the command before it. In `PortB` the routines of
the ROM are scripts of writes and reads of the port (`Scripts`), as
`rtc_wiring_test.go` has them, stepped one at a time (`RoutineWrites`,
`RoutineReads`) with seconds and scan lines passing in between; a reset or a new
start of the program may cut them anywhere. They run with the interrupts
masked. `meant` is what the routines asked for as a memory of 256 bytes, and
`kept` what the file was last given: the abstract clock the chip is held
against. The time is read a byte of the counter at a step, through both of its
groups, and again if they differ; what was read is examined whatever it is, zero
too. `SavePram` is a write of the file: done, failed, or cut, which leaves a
file of a wrong length and the defaults at the next start, or one of 20 bytes,
which is read as the classic bytes alone (`rtc.go:590-603`, `CutImage`).

`mouse` is one axis: the movement to pay out, the phase, and `edge`, set until
the port is read. `MoveReads` and `MoveWrites` are the front end's `move`, which
nothing keeps apart from the run loop. The handler keeps which edge interrupted
and reads the port later. Left out: the other axis, which is the same;
`mousePointer.go`, which places the pointer in low memory; and the option that
answers with the host's time (`WallClock`), under which the chip keeps no
counter to go wrong: `RTC` has it, and `PortBAssumption` sets it aside.

### Machine

`loop` is where `Run` is (spinning, taking commands, about to swap a hold out,
ended), `channel` the commands, `hold` the click's deadline with what the loop
has loaded of it. `clip` is `clipboard`, `watcher` the scrap's `Watcher`,
`scrap` what the Scrap Manager has, and `cpu` what the processor runs: the
start, an application, one asking for an event, or the steps of the program a
paste plants. The front end sends one command at a time and waits while the
channel is full; it carries copies to the host and the host's clipboard to the
machine. Applications copy, and the scrap goes to the disk and back. A text is a
value, and what is left of it in the Macintosh's characters a map, given as a
constant that is the identity on what it gives.

A command of a paste may leave things as they are: that its text is empty or too
long (`clipboard.go:146-150`) is not said of a text here. A clipboard of the host
that cannot be read sets `broken` (`FromHost`). The program of a paste is two
calls long and over before the scrap has held still for as long as the watcher
waits: the frame at which it would read the scrap is not taken in the middle of
it (`settle # 1` in `Frame`), all others are.

Left out: the speeds, the placing of the pointer, the watch of a machine
switched off, the diskette commands (in `Diskettes`), pictures on the scrap,
the failures of `cpu.Save`. That there is stack for the program of a paste is a
free choice.

## 3. The runs

| Run | Bounds | States | Shows |
|---|---|---|---|
| `atp` | two requesters, one call each, two retries, answers of one or two packets | 34,046 | with frames handled before the next tick (`Prompt`) and a release time as long as the retries: a request runs once while its response is kept, the response outlives the retries, `done` is called once, and the calls implement `Transaction`; every kept response goes |
| `asp` | one workstation, three ids, two sessions, four requests each asked again once, responses kept half as long as a WriteContinue is retried | 516,282 | the two maps agree, no write is worked out again while it is kept nor in another session; sessions left are closed and WriteContinues end |
| `udp_deliver` | four frames, a queue of two | 122,968 | what Deliver tells is right, but for as many frames as came after they were given up |
| `port` | two frames from the network, each of several kinds, one frame to send; two offers of one line each; AppleTalk on twice, one reset; the FIFO of three | 179,938 | a frame is taken once and in order, the answer is next on the wire, what the driver writes gets out whole, an offer ends |
| `afp_names` | a folder with a folder and a file in it, two names the machine cannot tell apart, two numbers to hand out, one thing at a time put in and one place taken from; the host may refuse an AppleDouble file at the top | 51,638 | a number leads to its file wherever it goes; comments and creators go with it |
| `afp_forks` | two sessions, two forks open, a file in a folder that is renamed, one byte | 109,791 | deny modes hold, one copy of a resource fork, what is told of a fork is what is read of it, nothing left open, metadata beside its file |
| `scsi` | one disk of two blocks, all descriptor blocks of the driver, resets anywhere | 353,240 | disk contents, sense, phases and whole transfers; every transfer ends |
| `diskettes` | one drive; an image that can be written, one locked, one of an archive; two tracks of one sector of two cells, two data, one of them written; every answer of the host | 167,040 | the file follows a stopped or ejected diskette, and nothing but a byte written changes what is on one |
| `iwm` | one drive, one image, two tracks of one cell; all lines but SELECT | 73,728 | the head steps once a strobe, a head is taken only with a byte, the handshake never holds a write for ever |
| `keyboard` | a letter, an arrow and a shifted key, three moves, two commands given up, one reset | 586,625 | every move read once and in order with its prefix, and read in the end |
| `clock` | the routines of one byte in each part of the memory, two of them or movements, two seconds, one reset, one restart, saves that fail or are cut; a counter of two bytes that is about to carry | 714,779 | what is kept is what was meant, the time read was shown while it was read, the pointer follows |
| `machine` | two deeds (a command, a click, a paste, closing, something printed, a reset of the software) and one copy, two texts of which one is another in the Macintosh, a channel of one, a paste that waits two frames | 314,194 | nothing comes back, the processor is given back, a click holds, texts cross, closing closes |

Why the bounds are enough. ATP: two packets are the fewest an answer can be put
together of from two runs, and two requesters share nothing but the responder's
queue. ASP: with two sessions the ids go round, and two sessions are what a
workstation that lost the answer to its OpenSess has. UDP: a queue of two
overflows within four frames, and a late frame, one waited for and one dropped
fit in four. Port: two arrivals are one on offer and one behind it, which may be
of a kind that is not offered and goes straight on the wire; frames have five
bytes with their CRC and the FIFO three, so that a driver that is late overruns
it. AFP: depth two has a folder to move with what is in it; two numbers are one
for the folder and one for the file, and a third name meets neither; a resource
fork and a deny mode need two sessions. SCSI: two blocks are one to fail on after
another was written; zero counts, a read past the end and lists of no bytes are
among the descriptors. Keyboard: one key of each kind of one, two and three
bytes, and a command given up twice, so that what was given back is given back
again; `QueueLimit` is 6, so that keys are refused. Diskettes: two tracks are
enough to be over another than the one to write back, two cells to leave a
sector half written, and data that is on the diskette but is never written tells
what was there from what was put down; drives have nothing in common but the
files and which is selected, and the proofs are for one or two. Clock: the
routines differ in their command bytes, each kind of which is there; the counter
starts at 255 so that the first second carries into its other byte. Machine: a
channel of one is full with one command, and two deeds are a paste and the
click, the reset or the closing that meets it.

Deadlock is not checked where the bounds stop the system: a requester out of
calls, a workstation out of requests, a keyboard out of moves, a machine that
has ended, a folder the host is done with. It is checked in UDP, SCSI, the
diskettes, the IWM, the port and the clock.

### Fairness

- `ATP!FairSpec`, `ASP!FairSpec`: a node's goroutine (`node.go`, `run`) selects
  among its frames, its calls and its ticks for as long as it is open, and Go's
  select passes none over for ever; on a kept clock `Settle` handles all frames
  and then the timers. Nothing is assumed of the network, of the layer above
  (`Respond` has no fairness) or of a workstation.
- `Prompt`, in `atp`, is the order of `Settle`: the frames waiting are
  handled before the timers run.
- `SCSI!FairSpec`: the driver answers each request and drops its acknowledge,
  and drains what it did not ask for, as the comment in `writeInitiatorCommand`
  says it does.
- `Keyboard!FairSpec`: the run loop ticks the VIA, and the driver goes on with
  what it began. It gives up only so often, and the machine is reset only so
  often; with no bound to either no key need ever be read.
- `IWM!FairSpec`: the run loop ticks the drives as cycles pass, so that in a
  drive that goes on turning another byte comes by. Nothing is assumed of the
  machine or of the front end.
- `Port!FairSpec`: the run loop polls the port once a scan line and ticks the
  chip after every instruction, and the driver is code the processor runs; its
  wait for a CTS is timed. Turning AppleTalk on and off and the network have
  none.
- `Machine!FairSpec`: the run loop goes round (`WF` of `RunLoop`). A spin lasts
  long enough for frames to pass and instructions to run, but not every spin has
  a given one of them, so a frame and a step of the paste's program are strongly
  fair. A command being sent gets into the channel once there is room (`Sent`).
  No user, application or host has any.
- UDP, AFP, the diskettes and the clock have properties of safety only.

## 4. What modelling showed

Behaviours of the code met while it was modelled, which its comments or its
documentation do not say. The properties state what holds with them taken into
account.

- **A write may be handed over twice.** Its request is kept 30 seconds from when
  it came, with the shortest release timeout, and its WriteContinue retried for
  a minute (`asp.go:61-64`). In between, a retry of the write finds nothing kept
  (`atp.go:164`) and asks for the data again, while the first still waits:
  `atp.go:143-147` says a request whose answer is being worked out is ignored,
  and does not say for how long. `WorkedOutOnce` says that it is so for as long
  as the request is kept, and run `asp` has the two times in the proportion of
  the code. With the second WriteContinue both may be answered, and AFP runs the
  write twice, the same bytes at the same place.
- **A diskette put in again is read before it is written back.**
  `InsertDiskette` opens the image (`mac.go:450`) and then ejects what is in the
  drive (`iwmDrive.go:129`), which writes it. With the same image and its motor
  on, the drive has then what the file was, and the next save of the machine
  takes the file back to it. `StoppedIsSaved` says it is the only way, but for
  the same image in both drives and a host that fails.
- A `CloseSess` is answered with nil packets, and nil is the mark ATP keeps for
  an answer still being worked out: if the one answer is lost, the retries are
  ignored for the 30 seconds it is kept (`asp.go:212`, `atp.go:79`, `144`). The
  workstation waits; no state is harmed.
- `Deliver` counts a late datagram twice, as lost and then as heard, so that a
  later Deliver may tell all has come in when a frame it counts on has not
  (`udp.go:202`, `288`). `TrueButForTheLate` says exactly by how much it errs.
- `AnswerFrame` puts an answer first in the queue and the frame it pushes over
  the end is dropped by the next `ReceiveFrame`, so that with a full queue it is
  the answer that goes, not the oldest frame (`scc8530Sdlc.go:202-204`,
  `118-119`). A lapCTS so late that its frame was given up may take the next
  frame of the same station instead, and a frame that was on the wire then keeps
  its quiet before the answer; `AnswersComeNext` has that reserve: nothing more is
asked of an answer from when the queue was full or a lapACK went ahead of it
(`PollTakes`). With
  AppleTalk turned off the chip stays in SDLC mode and the offer waits, and it
  survives a reset (`OffersEnd` is while AppleTalk stays on).
- A rename that only changes the case of a letter, on a host that tells them
  apart, may overwrite the file of the other name (`changes.go:262-288`); the
  scan of the desktop ends at the first name with a dot (`desktop.go:333`); a
  name the machine gives is not asked whether it is hidden, and the file of the
  host it hides is overwritten by a rename. When the host takes away a file that
  is open and another is renamed there, its resource fork has two copies
  (`forks.go:14-16`). `HostMakesAlike` and `HostTakesOpen` are `FALSE` in the
  runs for these. When a file is renamed or moved and the host then refuses to
  rename its AppleDouble file, nobody is told (`metadata.go:143-147`): the
  resource fork and the information stay under the old name (`RenamedAlone`).
  `RefusesBeside` says where the host may do it, in `AFPNames.cfg` to what is at
  the top and in `AFPForks.cfg` nowhere; `MetadataFollows` cannot hold of a file
  it was done to. A folder the machine sees as empty loses the AppleDouble files
  of what the host hides in it even where it cannot be deleted for the sake of
  the hidden things (`changes.go:137-142`): `MetadataFollows` is of what the
  machine sees. `CloseSession` passes over the errors of the flush; a logout
  leaves forks open until the session is closed.
- The direction of the mouse is wrong if anything else reads port B between the
  edge and the handler, as the button's and the clock's routines do
  (`mouse.go:139`, `via.go:132`): `PointerFollows` excepts it (`astray`), and says
  nothing more of the pointer up to the next reset, so that no property catches
  this. A
  movement and a step paid out at the same moment may undo each other
  (`mouse.go:67-72`); it costs a pixel. A save of the parameter RAM that is cut
  short leaves a file that is not read, and the defaults; one cut at 20 bytes is
  read as a file of the classic bytes, with the defaults for the rest.
- A paste that was given up cannot be asked for again with the same text
  (`ebitenClipboard.go:136-140`); a copy of the text last seen is not told to the
  host although the host has copied something else since (`watch.go:92`); a scrap
  left on disk at the start and loaded later is told as a copy
  (`watch.go:29-34`, `86-97`); a clipboard of the host that could not be written
  or read once is never tried again (`broken`).
- A G given back is lost: its code, $0b, is the model number, which `giveBack`
  drops (`keyboard.go:167`). The run has other keys. A prefix given back twice
  gets a prefix of its own: the queue grows by one each time, past its limit,
  and with a driver that does not take two prefixes for one the arrow becomes
  another key. `taken` outlives a model number and a reset, so a letter given
  back after one may get a prefix it never had. `EveryMoveArrives` asks that keys
  of the keypad keep their prefix, not that the others gain none.
- An eject whose file the host does not take loses what was on the diskette
  (`iwmDrive.go:166-178`): the drive lets go of it all the same. `LeavesItsFile`
  has that reserve.
- `Disk.busReset` leaves `info`, the block of the last medium error, beside the
  unit attention it puts in the sense. `MOS6522.squareWave` is called by nothing,
  though `via.tick` reads the port back for what the timer does to it.

## 5. The proofs

All are for every value of the constants allowed by the modules' assumptions.

- **`ATP_proofs`**: `TypeCorrect`, `RunsOnceWhileKept` (`OnceWhileKept`),
  `AnsweredOnce` (`DoneOnce`), `KeptWhileRetried` (`KeptForTheRetries`) and
  `OnceCallsImplementTransaction` (`ImplementsTransaction`). An exactly once
  request runs only when nothing is kept of it, and running keeps it; so each run
  but the last needs a `forgotten` of its own. To be inductive, `RunsCounted` says that `runs[k]` is `forgotten[k]`
  plus one if a response is kept, and `CalledBefore` that only a call that was
  made waits, without which a new call could take the place of one that waits.
  `Flags` ties what a frame says of a transaction being exactly once to what the
  transaction is. Losses, lateness, any number of requesters, packets and retries
  are all covered; none of these three assumes `Prompt`.
  The other two assume `Timely`, which is `Prompt` and a release time no shorter
  than the retries last. Without it a request that is asked again late runs
  again, which is what the code says of it. `InTime` is the account: a response
  has as many ticks left as its requester (`TicksLeft`), no request follows its
  own release in the queue, and one in the queue that has run is kept. `OneRun`
  then has each request run once, and `Carried` every packet, on its way or got,
  be of the answer of that run, so that an answer put together is the whole of
  it. The mapping hands `Transaction` the first answer of each request
  (`FirstAnswers`), and each action maps to a step of it or to none. It assumes
  `NeverNil` too: a nil answer is kept as none at all, and is not sent again.
- **`ASP_proofs`**: `TypeCorrect`, `AfpAlwaysHasThem` (`AfpHasTheSessions`),
  `WritesAlwaysStay` (`WritesStayInTheirSession`) and `AlwaysWorkedOutOnce`
  (`WorkedOutOnce`), for any workstations, ids, sessions and times, with nothing
  assumed but that there are more ids than sessions. A write is not run again
  while it is kept because a write that waits is kept, or has waited for longer,
  or nobody asks for it again (`Held`): the last is of a write that was
  released, and needs that of a workstation nothing is on its way that asks for
  what it released (`Lines`). That a late write stays in its session is a matter
  of counting (`Births`): the free ids that are still to be given before the one
  of the write, with the sessions opened since it was made, are no fewer than
  `MaxID - MaxSessions`. Opening a session takes one from the first and adds one
  to the second; a session that ends adds to the first or changes neither; and
  where the write's id is given again the first is 0, so that the second has
  outgrown the difference. No bound on how long a write waits is used.
- **`LocalTalk_proofs`**, of `UDP`: `UDPTypeCorrect`, `DeliverIsTrueButForTheLate` and
  `DeliverIsFalseForAReason`, together `DeliverTellsTheTruth` (`DeliverTells`).
  The invariant says where each frame is (`Places`) and what each counter counts
  (`Counters`: `queued` the frames entered, `heard` those handed on and counted,
  `lost` those waited for in vain); the two statements are then arithmetic on
  cardinalities, from the lemmas on finite sets.
- **`SCSI_proofs`**: `TypeCorrect`, `BusHasOneHolder` (`BusFollowsItsTarget`: one
  target holds the bus and a selection is answered), `TargetsKeepTheirWord`
  (`TargetKeepsItsWord`: a data phase has something to move and a refusal has its
  sense), `DisksAreAsCommanded` (`MediumIsAsCommanded`) and
  `EveryTransferIsWhole` (`TransfersAreWhole`), for any disks, sizes and descriptor blocks whose length is that of
  their group. The invariant is about each target (`TargetOK`): in the command
  phase its descriptor block is not whole; in the data out phase it is, and the
  data awaited are as long as what follows needs (`Awaits`: a write's are all its
  blocks, a list's header is all there), without which a write could put less
  than a block on the disk. There is a lemma for each operation of a target, and
  one for each action of the bus. The last two theorems rest on a second
  invariant, `History`: of the target in a command, what was sent to it is what
  it has of its data, or what the blocks it named are made of up to where the
  medium failed, and what was taken from it is the part it has given of those
  blocks; every other disk is as it was when the bus was last free.
- **`VIA_proofs`**, of `Keyboard`: `TypeCorrect`, `OneExchange` (`OneExchangeAtATime`),
  for any keys, any queue limit and any number of resets and commands given up.
  The strengthening, `AnswerKept`, says a driver waiting for its command to go
  out has not armed the register, so that the answer waits for it: this is the
  check `ReadyToShiftIn` was added for, and without it the answer goes in as the
  end of the command. `EveryKeyArrives` (`EveryMoveArrives`) has one
  hypothesis, `NoKeyIsAnAnswer`: no key has the byte of an answer of the
  keyboard, which of the keys of the table only the G has (section 4). The bytes
  on their way are a line, and each key not yet heard has its place in it
  (`InLine`). A byte read off the front, bytes put at the end and an answer given
  back in front of the queue leave the places of the others as they are or move
  them by one (`Carried`, `MoveRead`, `KeyPut`, `GivenBackMoves`). `KeysInStep` is
  the strengthening: the byte on its way is the one last taken from the queue, a
  driver that has read a prefix makes its next inquiry at once and the prefix is
  the byte last taken, and an answer that waits belongs to the command the driver
  made. Without it `giveBack` could not tell that the byte it gets back followed a
  prefix, nor the driver that what it reads is a key.
- **`VIA_proofs`**, of `PortB`, for any routines, addresses and values, a counter
  of one to four bytes that the chip keeps itself, and any resets, starts and
  failures of the host. `PointerIsTrue` (`PointerFollows`): while an edge waits
  for the handler the axis stays where the edge left it (`EdgeHeld`), so that the
  level read is that of the edge, unless the port was read in between.
  `ClockIsTaken` (`TakenWhole`): the invariant (`ClockIInv`) says that the chip
  holds what was meant, that the file gives back what was kept, and where in its
  bits a routine under way is (`During`): what the chip has shifted in is what has
  been sent of the command (`Listening`), and what is left of the answer is what
  has not been read of it (`Speaking`). The step after says that of the next bit
  (`RoutineStep`), and the last bit of a byte does what the byte says
  (`Wrote`). A routine that is cut leaves only the line behind, which the next
  start clears, so that all the rest is `Kept`. `TimeIsTrue` (`TimeIsRead`): of
  the bytes of the counter read so far the first `t` are those of the second the
  reading began in, and the others of the next one (`ReadSoFar`). Two halves that
  agree are of one second, and if they differ the tick lies between them, so that
  the second reading meets none. A byte of the counter is one step of the model
  and a fold over the routine's steps, which is taken apart again (`FoldSteps`);
  the bytes put together are the number (`NumberIs`), and a byte of it written
  leaves a number of as many bytes (`ByteReplaced`, `MeaningStays`).
- **`IWM_proofs`**, of `Diskettes`: `TypeCorrect`, `AStoppedDisketteIsSaved`
  (`StoppedIsSaved`), `ADisketteLeavesItsFile` (`LeavesItsFile`) and
  `DataChangesUnderTheHead` (`OnlyUnderTheHead`), for one drive or two and any
  images, tracks, sectors and cells. The invariant says a diskette that is not
  marked as modified is as its file (`DriveGood`), one that was stopped and saved
  is not marked, a file that is followed has one holder (`OneHolder`), without
  which another drive could write over it, and a clean track agrees with the
  image wherever it can be made out (`Agrees`), without which writing it back
  could change other sectors. `Quiet` is what all operations but the flushes have
  in common, so that an action is either quiet or a flush.
- **`IWM_proofs`**, of `IWM`: `ControllerImplementsDiskettes`. A touch of a switch
  is one `Access` of the drive selected, with the command and head the lines pick,
  so what is proved of `Diskettes` holds of the machine behind its controller
  (`DiskettesBehindTheController`). It
  needs `LinesOK`, and that no lines pick a command and a head together but for
  the one pair of `Addressed`. `WhatPassesByDoesNothing` (`LinesAreTakenOnce`):
  an access moves the arm only at the edge of the strobe and by one track, and
  exchanges the head only with a byte (`AccessMoves`), while what the front end
  and a reset do leaves the arm (`FrontendStays`, `ResetStays`). Of the drives it
  needs that the arm is at a track there is (`DrivesOK`).
- **`LocalTalk_proofs`**, of `Port`: `TypeCorrect`, `FramesGetOutWhole` (`SentAsWritten`) and
  `AnswersAreNext` (`AnswersComeNext`), for any frames the network brings and the
  machine has to send, any queue, FIFO and number of offers. The first part is a
  lemma for each operation of the chip, with what it leaves alone (`SameSent`,
  `SameWire`, `Aside`). For the first property the invariant (`Transmitter`) says
  that what is written of a frame and what is not make it whole while it is open
  (`Open`), which takes the latch to be set until the last byte is written: only
  then may the transmitter run dry in the middle of it; and that once it is
  written its last byte is on its way with the latch reset, or the network has it
  (`WrittenOut`). For the second the answer is at the head of the queue
  (`Answered`), which is more than `AnswersComeNext` asks: a queue that is empty
  would let the next frame of the network take its place. What
  arrives is put on the wire by a fold, which is taken apart into its steps
  (`FoldSteps`): each of them leaves the head of the queue where it is, as long as
  there is room for all of them and no lapACK is among them (`AllOnTheWireKeep`);
  where there is not, or one is, the property asks nothing more of that answer.
  `TakenOnceInOrder` (`TakenInOrderOnce`) has hypotheses of its own
  (`InOrderAssumption`): a FIFO of four bytes at most and a queue of two frames or
  more (the chip has three and 32), fewer arrivals than there are numbers to tell
  them apart, and no lapRTS or lapCTS among what the machine has to send, which
  are the driver's. The first is needed: frames have five bytes with their CRC, so
  that what is left of one the driver was late for is an overrun, and a longer
  FIFO would hold a whole frame behind the one being read. The invariant
  (`OrderIInv`) has three parts. `Order`: what was taken is older than what is on
  its way (in the driver's hands, on the wire, in the queue), that than the frame
  on offer, and that than what waits for the run loop; of the frames on their way
  two are never for one station, as only one at a time is let through. `Turn` is
  why: a frame gets there by a lapCTS of the machine, which goes ahead of all that
  waits, so nothing for one station may be on its way when it does. A lapRTS
  answered has none behind it in the queue, however often the frame was offered
  and however many are left over from the one before; and the quiet behind a lapRTS
  that is being read is only cut short for something else, so that the second
  lapRTS is not on the wire while the first is being read. `Stream` has what the driver
  and the FIFO hold be the last that came of the frame on the wire, behind at most
  one frame that has ended (`Held`), so that what the driver takes is a frame the
  network sent and not two halves. There is a lemma for what each kind of step
  does to the order and to the turn (`OrderOfStart`, `TurnOfAnswer`, ...), and one
  for each action.
- **`AFP_proofs`**: `NumbersLeadThere` (`IdsFollow`), `ForksAreClosed`
  (`NothingLeftOpen`), `DesktopIsTrue` (`DesktopFollows`), `ForksShared`
  (`ForksAreShared`) and `MetadataIsTrue` (`MetadataFollows`), for any folder,
  names, paths and sessions, and the first two whatever the host does. The first
  part is about paths: what is in a folder that moved is where it went with what
  it had, nothing else is there (`RelocatedIs`), and two things never come to the
  same place (`GoneIs`). For the first theorem the two
  maps are inverse of each other and no number is handed out again (`Linked`),
  and what the machine was told is what they say (`Known`). That takes the paths
  of calls apart: a path leads to names there are (`FollowIs`), one part after
  the other. For the second (`Held`), a copy counts the forks that have it and
  every resource fork open has one; the copy a file is said to have is a copy of
  that file, without which closing one fork could forget the copy of another
  file; and the next reference number is one nobody has (`NewForkRefIs`), for the
  numbers go round (`AfterReaches`). A session closes its forks in whatever order
  they are found (`InSeq`), each leaving the next as they were (`AllClosedHeld`).
  The third needs a hypothesis, `ToldApart`: the host puts in no name like
  another but for case, the names the machine gives are neither hidden nor
  inexact, and no two of the first folder are alike. Without it a rename may land
  on a file the machine does not see, as section 4 says, and the comment and
  applications of that file are then kept for the one that came. The invariant
  (`DesktopIInv`) says that all that is in the folder is in folders of its own
  and no two names in one of them are alike (`FolderIs`), which makes a name lead
  to the one file that has it (`LooksUpShown`) and a place that was found free be
  free (`FreePlace`); and that what is kept of a path where nothing is was left
  there by something the host took (`LeftBehind`), without which what is made
  there next would have the comment of another. All that the calls on forks and
  the sessions need is that they leave what the machine said as it was
  (`SameDesk`); there is a lemma for each change of the comments and the list
  (`DeskWith`, `DeskMoved`, `DeskDeleted`, `DeskCreators`). That the applications
  told one by one are those of the list is `ToldOfFile`. The last two have one
  invariant more (`SharedIInv`) and one hypothesis more, `HostKeeps`: the host does not
  take what a session has open (`~HostTakesOpen`), without which a resource fork
  may have two copies, and renames the AppleDouble file with its file
  (`RefusesBeside = {}`), as section 4 says. The invariant says that a fork has the
  path of its file and, if it is a resource fork, the copy the file is said to
  have, and that a file is said to have one only while somebody has it open
  (`Together`); that the forks of a file agree in what they ask and deny
  (`Agree`), which holds when one more is opened because the two sides of
  `Conflicts` are asked; and that what the machine wrote is in the copy while
  there is one and, whenever that is not dirty, beside the file as well
  (`MetaOf`), which is what makes it safe to let the last copy go. For a rename
  and a move, the forks, the copies and the AppleDouble files are three
  functions of paths that go to the same place (`ForksMoved`, `MovedCopiesSame`,
  `MetaMoved`); a flush that the host refuses or cuts short ends what is claimed
  of that file (`FlushedMeta`). That a fork is read as long as it is takes
  each read to give one byte or more until the end and none past it
  (`ReadGives`, `ReadThroughIs`), for any line ends and any size of a reply. Six
  lists are gone through by folds (`FoldSteps`).
- **`Machine_proofs`**: `TypeCorrect`, `PasteGivesBack` (`ProcessorIsGivenBack`),
  `ClicksHold` (`ClickHolds`) and `NothingComesBackEver` (`NothingComesBack`), for
  any texts, channel and times. For the first, a paste that
  runs has the text it pastes and took the processor where an application asks
  for an event (`PasteOK`), without which `FinishPaste` could give it back to the
  program. For the second, what the run loop has loaded of a hold and is about to
  swap out has run out (`HoldOK`), so that a hold that was renewed meanwhile is
  another and stays. For the last, what the machine left on the host's clipboard
  is what the front end remembers (`Remembered`), and the text of a paste that
  the scrap still holds is the one the watcher passes over, from the moment the
  program of the paste is done (`PassedOver`); until then the scrap has not held
  still for as long as the watcher waits, for the program is two calls long.

Only model-checked: all liveness, as ENABLED and fairness are out of the
prover's reach. The run of `SCSI` has one disk that can be written: two targets on
the bus and a locked disk are in its theorems only. Every invariant and every action property of the runs is the
statement of a theorem.

No module here has a recursive operator.

## 6. Not modelled

- The AppleTalk node (addresses, names, DDP) and the list of stations of the
  cable: ATP, ASP and the port have them as a network that loses, delays and
  hands over in the order of a queue.
- The memory map, the video and sound, the VIA's timers: sequential state read
  and written by one goroutine, each register tested by itself.
- GCR, HFS, the archives, the ImageWriter, AppleDouble's layout, icons and
  bundles: conversions of data whose correctness is bit exactness against
  samples, which the tests check. What the models need of them is stated where
  it is used (a sector decodes when its cells are of the same data, a text is
  mapped to what is left of it).
- `mousePointer.go`, the speeds, the watch of a machine switched off, the
  operator, the tracers, and windows and menus: no state that outlives a call,
  or none the properties are about.
- Asynchronous reception on the SCC, break/abort, the joining of a network;
  byte range locks (no call keeps them), dates, `host_darwin.go`.

## 7. The plan

What is left, with what it is checked against and what is to be proved.

1. An abstract cable that hands over whole frames, which `Port` implements.
2. `Node`: addresses taken by probing, names, `Settle`, over a cable of copies;
   distinct addresses are the property, and its proof.
3. `Gcr`: the sector coding as functions against a reference, which is what
   `Drive!Decoded` stands for; the VIA's timers (ticking n at once is ticking n
   times); the sound ring.
