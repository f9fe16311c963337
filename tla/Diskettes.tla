------------------------------ MODULE Diskettes ------------------------------
(***************************************************************************)
(* The diskettes in the drives and the files they are of: what the machine *)
(* does to the drives, through iwm.go and in any order here, and what the  *)
(* frontend does to them, mac.go and command.go.                           *)
(*                                                                         *)
(* Commands of the frontend wait their turn and are run between two        *)
(* instructions, so an action is a whole call.                             *)
(***************************************************************************)
EXTENDS Drive, FiniteSets

CONSTANTS
  Drives,   \* the drives: driveInternal, 0, and driveExternal, 1
  Written,  \* what the machine writes
  Outcomes  \* what the host makes of rewriting a file

ASSUME DiskettesAssumption ==
  /\ Drives \in {{0}, {0, 1}}
  /\ Written \subseteq Data
  /\ Outcomes \subseteq {"written", "refused", "cut"} /\ "written" \in Outcomes

VARIABLES
  drive,   \* each drive
  files,   \* the images on the host
  failed,  \* history: the drives whose last rewriting of a file failed
  shared   \* history: the images put in while a drive held them, or had
           \* changes of theirs to save

vars == <<drive, files, failed, shared>>

-----------------------------------------------------------------------------
(* The files.                                                              *)

\* What the host may make of flushing those drives.
Hosts(stopped) ==
  {host \in [Drives -> Outcomes] :
     \A d \in Drives : host[d] # "written" => d \in stopped /\ Saves(drive[d])}

\* The drives are flushed, in the order of iwm.flush, and host tells what
\* becomes of the file of each.
WriteBack(stopped, host) ==
  LET writes(f) == {d \in stopped : /\ Saves(drive[d])
                                    /\ drive[d].disk.file = f
                                    /\ host[d] # "refused"}
      last(f) == CHOOSE d \in writes(f) : \A e \in writes(f) : e <= d
  IN  /\ files' = [f \in Files |-> IF writes(f) = {} THEN files[f]
                                   ELSE FileAfter(drive[last(f)], host[last(f)])]
      /\ failed' = {d \in Drives : IF d \in stopped
                                     THEN Saves(drive[d]) /\ host[d] # "written"
                                     ELSE d \in failed}

-----------------------------------------------------------------------------
(* The machine.                                                            *)

Command == {"inwards", "outwards", "step", "motorOn", "motorOff", "eject"}

\* What a control line does to a drive as it is latched.
SetControl(d, command, host) ==
  CASE command = "inwards" -> [d EXCEPT !.stepToTrack0 = FALSE]
    [] command = "outwards" -> [d EXCEPT !.stepToTrack0 = TRUE]
    [] command = "step" -> Stepped(d)
    [] command = "motorOn" -> SetMotor(d, TRUE, host)
    [] command = "motorOff" -> SetMotor(d, FALSE, host)
    [] command = "eject" -> Ejected(d)
    [] OTHER -> d

\* Mutant of FlushedBy: the motor stops without a word.
FlushedByEject(i, command) == IF command = "eject" THEN {i} ELSE {}

\* The drives a command has written back.
FlushedBy(i, command) ==
  IF command = "eject" \/ (command = "motorOff" /\ drive[i].motorOn) THEN {i} ELSE {}

\* The head the phase lines address, if any.
SetSide(d, head) == IF head \in Sides THEN [d EXCEPT !.side = head] ELSE d

\* A byte is moved after it: read, written, or none.
Moved(d, head, move, value) ==
  CASE move = "read" -> ReadByte(SetSide(d, head))
    [] move = "write" -> WriteByte(SetSide(d, head), value)
    [] OTHER -> d

\* One access of the machine to the controller latches a command, or none,
\* and moves a byte, or none.
Access(i, command, head, move, value) ==
  /\ \E host \in Hosts(FlushedBy(i, command)) :
       /\ drive' = [drive EXCEPT ![i] =
                      Moved(SetControl(@, command, host[i]), head, move, value)]
       /\ WriteBack(FlushedBy(i, command), host)
  /\ UNCHANGED shared

\* A byte goes by in a drive that turns.
Tick(i) ==
  /\ Spinning(drive[i])
  /\ drive' = [drive EXCEPT ![i] = Turned(@)]
  /\ UNCHANGED <<files, failed, shared>>

-----------------------------------------------------------------------------
(* The frontend.                                                           *)

Holders(f) == {d \in {e \in Drives : drive[e].disk # None} : drive[d].disk.file = f}

\* The image is opened, and then the one in the drive ejected, which leaves
\* the drive empty if its file could not be written.
InsertDiskette(i, f) ==
  /\ files[f] # Spoilt
  /\ \E host \in Hosts({i}) :
       /\ WriteBack({i}, host)
       /\ drive' = [drive EXCEPT ![i] =
            IF Saves(@) /\ host[i] # "written" THEN Ejected(@)
            ELSE [Ejected(@) EXCEPT !.disk = Opened(f, files[f]), !.under = None]]
  /\ shared' = IF \E d \in Holders(f) : d # i \/ Saves(drive[d]) \/ f \in InMemory
                 THEN shared \cup {f}
                 ELSE IF Holders(f) = {} THEN shared \ {f} ELSE shared

EjectDiskette(i) ==
  /\ drive[i].disk # None
  /\ \E host \in Hosts({i}) : WriteBack({i}, host)
  /\ drive' = [drive EXCEPT ![i] = Ejected(@)]
  /\ UNCHANGED shared

\* Closing the machine.
FlushDiskettes ==
  /\ \E host \in Hosts(Drives) :
       /\ WriteBack(Drives, host)
       /\ drive' = [d \in Drives |-> Flush(drive[d], host[d])]
  /\ UNCHANGED shared

\* iwm.reset, the drives of it.
Reset ==
  LET turning == {d \in Drives : drive[d].motorOn} IN
  /\ \E host \in Hosts(turning) :
       /\ WriteBack(turning, host)
       /\ drive' = [d \in Drives |->
            [SetMotor(drive[d], FALSE, host[d]) EXCEPT
               !.stepToTrack0 = FALSE, !.side = 0, !.byteReady = FALSE]]
  /\ UNCHANGED shared

Frontend ==
  \/ \E i \in Drives, f \in Files : InsertDiskette(i, f)
  \/ \E i \in Drives : EjectDiskette(i)
  \/ FlushDiskettes

-----------------------------------------------------------------------------

Init ==
  /\ drive = [d \in Drives |-> EmptyDrive]
  /\ \E blank \in [Files -> Data] :
       files = [f \in Files |-> [s \in SectorsOf(f) |-> blank[f]]]
  /\ failed = {}
  /\ shared = {}

\* The same lines pick the command and the head, so that the one goes with
\* the other only where they are all low but CA2.
Addressed == ((Command \cup {None}) \X {None}) \cup ({None} \X Sides) \cup {<<"outwards", 0>>}

Next ==
  \/ \E i \in Drives, picked \in Addressed :
       \/ Access(i, picked[1], None, "none", None)
       \/ Access(i, picked[1], picked[2], "read", None)
       \/ \E value \in Written : Access(i, picked[1], picked[2], "write", value)
  \/ \E i \in Drives : Tick(i)
  \/ Frontend
  \/ Reset

Spec == Init /\ [][Next]_vars

-----------------------------------------------------------------------------
(* Properties.                                                             *)

\* The type of every variable; a track under the head is one of the diskette
\* in the drive, and only a drive that could write it has one to write back.
TypeOK ==
  /\ files = [f \in Files |-> files[f]]
  /\ \A f \in Files : files[f] \in ImagesOf(f) \cup {Spoilt}
  /\ failed \subseteq Drives
  /\ shared \subseteq Files
  /\ drive \in [Drives ->
       [disk : Diskette \cup {None}, motorOn : BOOLEAN, stepToTrack0 : BOOLEAN,
        track : 0..Tracks - 1, side : Sides, under : Track \cup {None},
        spin : Position, byteReady : BOOLEAN]]
  /\ \A d \in Drives :
       /\ drive[d].under # None =>
            drive[d].disk # None /\ drive[d].under.side < SidesOf(drive[d].disk.file)
       /\ drive[d].under # None /\ drive[d].under.dirty => CanWrite(drive[d])

\* What the machine would find on the diskette: the image, and over it what
\* it left on the track and can be made out.
OnDisk(d) == FlushTrack(d).disk.data

\* The file of a diskette is the one it was opened from and the last to be
\* written by it: not one put in again before it was saved.
Followed(f) == f \notin InMemory \cup shared

Stopped ==
  {d \in Drives : drive[d].disk # None /\ ~drive[d].motorOn /\ d \notin failed}

Saved(d) == files[drive[d].disk.file] = OnDisk(drive[d])

\* With its motor stopped a diskette is as its file, unless the host failed
\* to write it or the image was put in twice (setMotor, iwmDrive.go:520-541,
\* and doc/disks.md:326, "So the file follows what the Macintosh believes it
\* has saved").  InsertDiskette, mac.go:449-455, opens an image before the
\* diskette of the same image in the drive is written back.
StoppedIsSaved == \A d \in Stopped : Followed(drive[d].disk.file) => Saved(d)

\* A diskette that comes out leaves in its file all that was on it, be it
\* the machine that ejects it, the frontend, or the next one put in
\* (eject, iwmDrive.go:161-180).
LeavesItsFile ==
  [][\A d \in Drives :
       LET disk == drive[d].disk
           then == drive'[d].disk
           left == then = None \/ then.file # disk.file
       IN  disk # None /\ left /\ d \notin failed' /\ Followed(disk.file)
             => files'[disk.file] = OnDisk(drive[d])]_vars

\* While it stays in, what is on a diskette changes only where a byte is
\* written, in the sector under the head, and never if it is locked: not by
\* seeking, by reading, by turning over or by being saved, whatever was left
\* half written (loadTrack and flushTrack, iwmDrive.go:261-330).
OnlyUnderTheHead ==
  [][\A d \in Drives :
       LET then == drive'[d] IN
       then # drive[d] /\ drive[d].disk # None /\ then.disk # None
         /\ then.disk.file = drive[d].disk.file /\ then.disk.file \notin shared'
         => LET here == <<then.track, then.side, SectorAt(then.spin)>> IN
            \/ OnDisk(then) = OnDisk(drive[d])
            \/ /\ CanWrite(then)
               /\ OnDisk(then) = [OnDisk(drive[d]) EXCEPT ![here] = OnDisk(then)[here]]]_vars

=============================================================================
