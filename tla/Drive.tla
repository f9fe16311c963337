-------------------------------- MODULE Drive --------------------------------
(***************************************************************************)
(* One diskette drive, iwmDrive.go, and the diskette in it,                *)
(* storage/floppyDisk.go.                                                  *)
(*                                                                         *)
(* The file of an image is read whole when the diskette is opened and      *)
(* rewritten whole when it has changed and its motor stops or it comes     *)
(* out.  In between what the machine writes is in two more places: on the  *)
(* track under the head, as bytes going round, and in the image in memory. *)
(*                                                                         *)
(* A drive is a record and an operation gives the drive it leaves.  The    *)
(* bytes a sector takes on its track are a few cells, and the sector       *)
(* decodes when they are all of the same data: the checksum of             *)
(* storage/gcr.go, which two halves of two writes do not meet.             *)
(***************************************************************************)
EXTENDS Integers

CONSTANTS
  Files,     \* the images
  Locked,    \* those the host would not let be written
  InMemory,  \* those out of an archive, with no file behind them
  TwoSided,  \* those of 800 K
  Tracks,    \* storage.TracksPerSide, 80 in the code
  Sectors,   \* the sectors of a track, SectorsInTrack, 12 to 8 in the code
  Cells,     \* the bytes of a sector on the track, bytesPerSector, 778
  Data,      \* what a sector, or a cell of it, holds
  None

ASSUME DriveAssumption ==
  /\ Locked \subseteq Files
  /\ InMemory \subseteq Files
  /\ TwoSided \subseteq Files
  /\ {Tracks, Sectors, Cells} \subseteq Nat \ {0}

Sides == {0, 1}
SidesOf(f) == IF f \in TwoSided THEN 2 ELSE 1
SectorsOf(f) ==
  {s \in (0..Tracks - 1) \X Sides \X (1..Sectors) : s[2] < SidesOf(f)}
ImagesOf(f) == [SectorsOf(f) -> Data]

TrackLength == Sectors * Cells
Position == 0..TrackLength - 1
SectorAt(p) == p \div Cells + 1
FirstOf(n) == (n - 1) * Cells

\* A file the host began to rewrite and could not finish is no image.
Spoilt == None

Diskette ==
  UNION {[file : {f}, data : ImagesOf(f), modified : BOOLEAN] : f \in Files}

Track ==
  [track : 0..Tracks - 1, side : Sides, dirty : BOOLEAN, bytes : [Position -> Data]]

ASSUME NoneAssumption == None \notin Data \cup Diskette \cup Track

-----------------------------------------------------------------------------
(* The diskette.                                                           *)

\* Opened as its file is now.
Opened(f, content) == [file |-> f, data |-> content, modified |-> FALSE]

ReadOnly(disk) == disk.file \in Locked

ReadTrack(disk, track, side) ==
  [p \in Position |-> disk.data[<<track, side, SectorAt(p)>>]]

\* The sectors that can be made out of what goes round.
Decoded(bytes) ==
  {n \in 1..Sectors : \A p \in Position : SectorAt(p) = n => bytes[p] = bytes[FirstOf(n)]}

\* Those that can are stored, the rest is left as it was.
WriteTrack(disk, track, side, bytes) ==
  LET stored == Decoded(bytes) IN
  IF ReadOnly(disk) \/ stored = {} THEN disk
  ELSE [disk EXCEPT
          !.modified = TRUE,
          !.data = [s \in DOMAIN @ |->
                      IF s[1] = track /\ s[2] = side /\ s[3] \in stored
                        THEN bytes[FirstOf(s[3])] ELSE @[s]]]

-----------------------------------------------------------------------------
(* The drive.                                                              *)

\* under: the track under the head, while trackLoaded.
EmptyDrive ==
  [disk |-> None, motorOn |-> FALSE, stepToTrack0 |-> FALSE, track |-> 0,
   side |-> 0, under |-> None, spin |-> 0, byteReady |-> FALSE]

Spinning(d) == d.motorOn /\ d.disk # None
CanWrite(d) == Spinning(d) /\ ~ReadOnly(d.disk)
WriteReady(d) == d.byteReady /\ CanWrite(d)

\* A byte goes by.
Turned(d) == [d EXCEPT !.spin = (@ + 1) % TrackLength, !.byteReady = TRUE]

\* Mutant of FlushTrack: where the head is, for where the track came from.
FlushTrackHere(d) ==
  IF d.under = None \/ ~d.under.dirty THEN d
  ELSE [d EXCEPT !.under.dirty = FALSE,
                 !.disk = WriteTrack(@, d.track, d.side, d.under.bytes)]

\* What the machine left on the track goes to the image.
FlushTrack(d) ==
  IF d.under = None \/ ~d.under.dirty THEN d
  ELSE [d EXCEPT !.under.dirty = FALSE,
                 !.disk = WriteTrack(@, d.under.track, d.under.side, d.under.bytes)]

\* The image goes to its file, whatever the host makes of it: "written",
\* "refused" or "cut".
NeedsHost(disk) == disk.modified /\ ~ReadOnly(disk) /\ disk.file \notin InMemory
Saves(d) == d.disk # None /\ NeedsHost(FlushTrack(d).disk)

Flush(d, host) ==
  IF d.disk = None \/ (Saves(d) /\ host # "written") THEN FlushTrack(d)
  ELSE [FlushTrack(d) EXCEPT !.disk.modified = @ /\ ReadOnly(d.disk)]

\* Mutant of FileAfter: the image as it was before the track was taken apart.
FileAfterEarly(d, host) ==
  CASE host = "written" -> d.disk.data [] host = "cut" -> Spoilt

\* What is then in the file, unless the host refuses.
FileAfter(d, host) ==
  CASE host = "written" -> FlushTrack(d).disk.data [] host = "cut" -> Spoilt

\* The track the head is over, read off the image when a byte is asked for.
LoadTrack(d) ==
  CASE d.disk = None -> d
    [] d.disk # None /\ d.under # None /\ d.under.track = d.track /\ d.under.side = d.side -> d
    [] OTHER ->
         LET flushed == FlushTrack(d) IN
         [flushed EXCEPT !.under =
            IF d.side >= SidesOf(d.disk.file) THEN None
            ELSE [track |-> d.track, side |-> d.side, dirty |-> FALSE,
                  bytes |-> ReadTrack(flushed.disk, d.track, d.side)]]

ReadByte(d) ==
  LET loaded == LoadTrack(d) IN
  IF loaded.under = None THEN loaded ELSE [loaded EXCEPT !.byteReady = FALSE]

WriteByte(d, value) ==
  LET loaded == LoadTrack(d) IN
  IF ~CanWrite(d) \/ loaded.under = None THEN loaded
  ELSE [loaded EXCEPT !.byteReady = FALSE,
                      !.under.bytes[d.spin] = value, !.under.dirty = TRUE]

\* The diskette comes out, once it has been flushed.
Ejected(d) ==
  IF d.disk = None THEN d
  ELSE [d EXCEPT !.disk = None, !.under = None, !.motorOn = FALSE]

SetMotor(d, on, host) ==
  CASE d.motorOn = on -> d
    [] ~d.motorOn /\ on -> [d EXCEPT !.motorOn = TRUE, !.byteReady = FALSE]
    [] d.motorOn /\ ~on -> [Flush(d, host) EXCEPT !.motorOn = FALSE]

Stepped(d) ==
  [d EXCEPT !.track =
     IF d.stepToTrack0 THEN (IF @ > 0 THEN @ - 1 ELSE @)
     ELSE (IF @ < Tracks - 1 THEN @ + 1 ELSE @)]

=============================================================================
