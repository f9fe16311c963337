------------------------------ MODULE IWM_proofs ------------------------------
(***************************************************************************)
(* What the drives keep, by themselves (Diskettes) and behind the          *)
(* controller, for any images, tracks, sectors and data.                   *)
(*                                                                         *)
(* Of the drives: their types, that a diskette is as its file once its     *)
(* motor has stopped, that it leaves in its file what was on it, and that  *)
(* what is on it changes only under the head.  Then, each touch of a       *)
(* switch is one access of one drive, so that all this holds behind the    *)
(* controller; and what the lines pass by on their way to a register does  *)
(* nothing: a drive steps once for every time the strobe goes up, and its  *)
(* head is exchanged only with a byte.                                     *)
(***************************************************************************)
EXTENDS IWM, TLAPS

-----------------------------------------------------------------------------
(* The sectors of a track.                                                 *)

LEMMA TrackIsNotEmpty == TrackLength \in Nat \ {0}
BY DriveAssumption, SMT DEF TrackLength

LEMMA SectorIsThere == ASSUME NEW p \in Position PROVE SectorAt(p) \in 1..Sectors
<1> DEFINE q == p \div Cells
<1>1. Cells \in Nat \ {0} /\ Sectors \in Nat \ {0}
  BY DriveAssumption
<1>2. p \in Nat /\ p < Sectors * Cells
  BY <1>1, SMT DEF Position, TrackLength
<1>3. q \in Int /\ Cells * q <= p /\ p < Cells * q + Cells
  BY <1>1, <1>2, SMT
<1>4. 0 <= q
  BY <1>1, <1>2, <1>3, SMT
<1>5. q < Sectors
  BY <1>1, <1>2, <1>3, SMT
<1> QED
  BY <1>1, <1>3, <1>4, <1>5 DEF SectorAt

LEMMA FirstIsThere == ASSUME NEW n \in 1..Sectors PROVE FirstOf(n) \in Position
<1>1. Cells \in Nat \ {0} /\ Sectors \in Nat \ {0}
  BY DriveAssumption
<1>2. 0 <= (n - 1) * Cells
  BY <1>1, SMT
<1>3. (n - 1) * Cells <= (Sectors - 1) * Cells
  BY <1>1, SMT
<1>4. (Sectors - 1) * Cells = Sectors * Cells - Cells
  BY <1>1, SMT
<1>5. (n - 1) * Cells \in Int /\ Sectors * Cells \in Int
  BY <1>1, SMT
<1> QED
  BY <1>1, <1>2, <1>3, <1>4, <1>5, SMT DEF FirstOf, Position, TrackLength

LEMMA FirstIsOfItsSector == ASSUME NEW n \in 1..Sectors PROVE SectorAt(FirstOf(n)) = n
<1> DEFINE q == FirstOf(n) \div Cells
<1>1. Cells \in Nat \ {0} /\ n \in Int
  BY DriveAssumption
<1>2. FirstOf(n) = (n - 1) * Cells /\ FirstOf(n) \in Int
  BY <1>1, SMT DEF FirstOf
<1>3. q \in Int /\ Cells * q <= (n - 1) * Cells /\ (n - 1) * Cells < Cells * q + Cells
  BY <1>1, <1>2, SMT
<1>4. Cells * q <= Cells * (n - 1) /\ Cells * (n - 1) < Cells * (q + 1)
  BY <1>1, <1>3, SMT
<1>5. q <= n - 1
  BY <1>1, <1>3, <1>4, SMT
<1>6. n - 1 < q + 1
  BY <1>1, <1>3, <1>4, SMT
<1> QED
  BY <1>1, <1>3, <1>5, <1>6 DEF SectorAt

-----------------------------------------------------------------------------
(* The diskette.                                                           *)

LEMMA DisketteFields ==
  ASSUME NEW disk \in Diskette
  PROVE  /\ disk.file \in Files /\ disk.data \in ImagesOf(disk.file)
         /\ disk.modified \in BOOLEAN /\ disk # None
BY NoneAssumption DEF Diskette

LEMMA OpenedIsDiskette ==
  ASSUME NEW f \in Files, NEW content \in ImagesOf(f)
  PROVE  Opened(f, content) \in Diskette
BY DEF Opened, Diskette

LEMMA TrackReadIsTrack ==
  ASSUME NEW disk \in Diskette, NEW track \in 0..Tracks - 1,
         NEW side \in Sides, side < SidesOf(disk.file)
  PROVE  ReadTrack(disk, track, side) \in [Position -> Data]
<1>1. ASSUME NEW p \in Position PROVE disk.data[<<track, side, SectorAt(p)>>] \in Data
  <2>1. <<track, side, SectorAt(p)>> \in SectorsOf(disk.file)
    BY SectorIsThere DEF SectorsOf
  <2> QED
    BY <2>1, DisketteFields DEF ImagesOf
<1> QED
  BY <1>1 DEF ReadTrack

\* Writing a track leaves a diskette, of the same file, and as it was unless
\* it could be written and is now marked.
LEMMA TrackWritten ==
  ASSUME NEW disk \in Diskette, NEW track, NEW side, NEW bytes \in [Position -> Data]
  PROVE  LET then == WriteTrack(disk, track, side, bytes) IN
         /\ then \in Diskette
         /\ then.file = disk.file
         /\ then = disk \/ (then.modified /\ ~ReadOnly(then))
<1> DEFINE stored == Decoded(bytes)
           data == [s \in DOMAIN disk.data |->
                      IF s[1] = track /\ s[2] = side /\ s[3] \in stored
                        THEN bytes[FirstOf(s[3])] ELSE disk.data[s]]
           then == WriteTrack(disk, track, side, bytes)
<1>1. CASE ReadOnly(disk) \/ stored = {}
  BY <1>1 DEF WriteTrack
<1>2. CASE ~(ReadOnly(disk) \/ stored = {})
  <2>1. then = [disk EXCEPT !.modified = TRUE, !.data = data]
    BY <1>2 DEF WriteTrack
  <2>2. data \in ImagesOf(disk.file)
    <3>1. disk.data \in [SectorsOf(disk.file) -> Data]
      BY DisketteFields DEF ImagesOf
    <3>2. stored \subseteq 1..Sectors
      BY DEF Decoded
    <3>3. ASSUME NEW s \in SectorsOf(disk.file) PROVE data[s] \in Data
      BY <3>1, <3>2, FirstIsThere
    <3> QED
      BY <3>1, <3>3 DEF ImagesOf
  <2>3. disk = [file |-> disk.file, data |-> disk.data, modified |-> disk.modified]
    BY DEF Diskette
  <2>4. then = [file |-> disk.file, data |-> data, modified |-> TRUE]
    BY <2>1, <2>3
  <2> QED
    BY <1>2, <2>2, <2>4, DisketteFields DEF Diskette, ReadOnly
<1> QED
  BY <1>1, <1>2

\* What is on a diskette that can be written after a track is: the sectors
\* that can be made out of it, and elsewhere what there was.
LEMMA TrackStored ==
  ASSUME NEW disk \in Diskette, ~ReadOnly(disk), NEW track, NEW side, NEW bytes,
         NEW s \in SectorsOf(disk.file)
  PROVE  WriteTrack(disk, track, side, bytes).data[s]
           = IF s[1] = track /\ s[2] = side /\ s[3] \in Decoded(bytes)
               THEN bytes[FirstOf(s[3])] ELSE disk.data[s]
<1> DEFINE stored == Decoded(bytes)
           data == [t \in DOMAIN disk.data |->
                      IF t[1] = track /\ t[2] = side /\ t[3] \in stored
                        THEN bytes[FirstOf(t[3])] ELSE disk.data[t]]
<1>1. CASE stored = {}
  BY <1>1 DEF WriteTrack
<1>2. CASE stored # {}
  <2>1. WriteTrack(disk, track, side, bytes) = [disk EXCEPT !.modified = TRUE, !.data = data]
    BY <1>2 DEF WriteTrack
  <2>2. disk = [file |-> disk.file, data |-> disk.data, modified |-> disk.modified]
    BY DEF Diskette
  <2>3. WriteTrack(disk, track, side, bytes).data = data
    BY <2>1, <2>2
  <2>4. s \in DOMAIN disk.data
    BY DisketteFields DEF ImagesOf
  <2> QED
    BY <2>3, <2>4
<1> QED
  BY <1>1, <1>2

-----------------------------------------------------------------------------
(* The drive.                                                              *)

DriveRecord ==
  [disk : Diskette \cup {None}, motorOn : BOOLEAN, stepToTrack0 : BOOLEAN,
   track : 0..Tracks - 1, side : Sides, under : Track \cup {None},
   spin : Position, byteReady : BOOLEAN]

\* What can be made out of a track with nothing to write back is what the
\* image has.
Agrees(under, disk) ==
  under.dirty \/ \A n \in Decoded(under.bytes) :
    disk.data[<<under.track, under.side, n>>] = under.bytes[FirstOf(n)]

\* What TypeOK says of a drive, and that the track agrees with the image.
DriveOK(d) ==
  /\ d \in DriveRecord
  /\ d.under # None => d.disk # None /\ d.under.side < SidesOf(d.disk.file)
  /\ d.under # None /\ d.under.dirty => CanWrite(d)
  /\ d.under # None => Agrees(d.under, d.disk)

\* Going from d to e nothing is put in or taken out, and the diskette changes
\* only where it can be written, with its motor on and a mark for its file.
Quiet(d, e) ==
  /\ (d.disk = None) <=> (e.disk = None)
  /\ d.disk # None => e.disk.file = d.disk.file
  /\ e.disk = d.disk \/ (e.disk.modified /\ e.motorOn /\ ~ReadOnly(e.disk))
  /\ d.motorOn => e.motorOn

LEMMA QuietAgain ==
  ASSUME NEW c, NEW d, NEW e, Quiet(c, d), Quiet(d, e), c.motorOn \in BOOLEAN,
         d.motorOn \in BOOLEAN, e.motorOn \in BOOLEAN
  PROVE  Quiet(c, e)
BY DEF Quiet, ReadOnly

LEMMA EmptyDriveOK == DriveOK(EmptyDrive)
BY TrackIsNotEmpty, DriveAssumption
   DEF DriveOK, DriveRecord, EmptyDrive, Position, Sides

\* Taking the track apart leaves the drive as it was but for the diskette,
\* which is marked if it is not the same, and the track, which is clean.
LEMMA TrackFlushed ==
  ASSUME NEW d, DriveOK(d)
  PROVE  LET e == FlushTrack(d) IN
         /\ DriveOK(e)
         /\ Quiet(d, e)
         /\ e = [d EXCEPT !.disk = e.disk, !.under = e.under]
         /\ e.under # None => ~e.under.dirty
         /\ (e.under = None) <=> (d.under = None)
         /\ e.disk = d.disk \/ d.motorOn
<1> DEFINE e == FlushTrack(d)
<1>1. CASE d.under = None \/ ~d.under.dirty
  <2>1. e = d
    BY <1>1 DEF FlushTrack
  <2>2. d = [d EXCEPT !.disk = d.disk, !.under = d.under]
    BY DEF DriveOK, DriveRecord
  <2> QED
    BY <1>1, <2>1, <2>2 DEF Quiet
<1>2. CASE d.under # None /\ d.under.dirty
  <2> DEFINE disk == WriteTrack(d.disk, d.under.track, d.under.side, d.under.bytes)
             under == [d.under EXCEPT !.dirty = FALSE]
  <2>1. e = [d EXCEPT !.under = under, !.disk = disk]
    BY <1>2 DEF FlushTrack, DriveOK, DriveRecord
  <2>2. d.under \in Track /\ d.disk \in Diskette /\ d.motorOn /\ ~ReadOnly(d.disk)
    BY <1>2 DEF DriveOK, DriveRecord, CanWrite, Spinning
  <2>3. disk \in Diskette /\ disk.file = d.disk.file
        /\ (disk = d.disk \/ (disk.modified /\ ~ReadOnly(disk)))
    BY <2>2, TrackWritten DEF Track
  <2>4. under \in Track /\ ~under.dirty /\ under.side = d.under.side /\ under # None
    BY <2>2, NoneAssumption DEF Track
  <2>5. e \in DriveRecord /\ e.disk = disk /\ e.under = under /\ e.motorOn
    BY <2>1, <2>2, <2>3, <2>4 DEF DriveOK, DriveRecord
  <2>6. disk # None /\ d.disk # None
    BY <2>2, <2>3, DisketteFields
  <2>a. Agrees(under, disk)
    <3>1. d.under.track \in 0..Tracks - 1 /\ d.under.side \in Sides
          /\ d.under.side < SidesOf(d.disk.file)
      BY <1>2, <2>2 DEF Track, DriveOK
    <3>2. ASSUME NEW n \in Decoded(d.under.bytes)
          PROVE  disk.data[<<d.under.track, d.under.side, n>>] = d.under.bytes[FirstOf(n)]
      <4>1. <<d.under.track, d.under.side, n>> \in SectorsOf(d.disk.file)
        BY <3>1 DEF SectorsOf, Decoded
      <4> QED
        BY <2>2, <4>1, TrackStored
    <3>3. under.track = d.under.track /\ under.side = d.under.side /\ under.bytes = d.under.bytes
      BY <2>2 DEF Track
    <3> HIDE DEF under, disk
    <3> QED
      BY <3>2, <3>3 DEF Agrees
  <2>7. DriveOK(e)
    BY <1>2, <2>3, <2>4, <2>5, <2>6, <2>a DEF DriveOK
  <2>8. Quiet(d, e)
    BY <2>2, <2>3, <2>5, <2>6 DEF Quiet
  <2>9. e = [d EXCEPT !.disk = e.disk, !.under = e.under]
    BY <2>1, <2>5 DEF DriveOK, DriveRecord
  <2> QED
    BY <1>2, <2>2, <2>4, <2>5, <2>7, <2>8, <2>9
<1> QED
  BY <1>1, <1>2 DEF DriveOK, DriveRecord

LEMMA TrackLoaded ==
  ASSUME NEW d, DriveOK(d)
  PROVE  LET e == LoadTrack(d) IN
         /\ DriveOK(e)
         /\ Quiet(d, e)
<1> DEFINE f == FlushTrack(d)
           under == IF d.side >= SidesOf(d.disk.file) THEN None
                    ELSE [track |-> d.track, side |-> d.side, dirty |-> FALSE,
                          bytes |-> ReadTrack(f.disk, d.track, d.side)]
<1>1. CASE d.disk = None
           \/ (d.under # None /\ d.under.track = d.track /\ d.under.side = d.side)
  <2>1. LoadTrack(d) = d
    BY <1>1 DEF LoadTrack
  <2> QED
    BY <2>1 DEF Quiet
<1>2. CASE ~(d.disk = None
             \/ (d.under # None /\ d.under.track = d.track /\ d.under.side = d.side))
  <2>1. LoadTrack(d) = [f EXCEPT !.under = under]
    BY <1>2 DEF LoadTrack
  <2>2. /\ DriveOK(f)
        /\ Quiet(d, f)
        /\ f = [d EXCEPT !.disk = f.disk, !.under = f.under]
    BY TrackFlushed
  <2>3. f.disk \in Diskette /\ f.disk.file = d.disk.file
    BY <1>2, <2>2 DEF DriveOK, DriveRecord, Quiet
  <2>4. under \in Track \cup {None} /\ (under # None => ~under.dirty)
    <3>1. CASE d.side >= SidesOf(d.disk.file)
      BY <3>1
    <3>2. CASE ~(d.side >= SidesOf(d.disk.file))
      <4>1. d.track \in 0..Tracks - 1 /\ d.side \in Sides /\ d.side < SidesOf(f.disk.file)
        BY <2>3, <3>2 DEF DriveOK, DriveRecord, Sides, SidesOf
      <4>2. ReadTrack(f.disk, d.track, d.side) \in [Position -> Data]
        BY <2>3, <4>1, TrackReadIsTrack
      <4> QED
        BY <3>2, <4>1, <4>2 DEF Track
    <3> QED
      BY <3>1, <3>2
  <2>5. under # None => under.side < SidesOf(f.disk.file)
    BY <2>3 DEF DriveOK, DriveRecord, Sides, SidesOf
  <2>6. f.disk # None
    BY <2>3, DisketteFields
  <2>a. under # None => Agrees(under, f.disk)
    <3> SUFFICES ASSUME under # None PROVE Agrees(under, f.disk)
      OBVIOUS
    <3> DEFINE bytes == ReadTrack(f.disk, d.track, d.side)
    <3>1. under = [track |-> d.track, side |-> d.side, dirty |-> FALSE, bytes |-> bytes]
      OBVIOUS
    <3>2. ASSUME NEW n \in Decoded(bytes)
          PROVE  f.disk.data[<<d.track, d.side, n>>] = bytes[FirstOf(n)]
      <4>1. n \in 1..Sectors
        BY DEF Decoded
      <4> QED
        BY <4>1, FirstIsThere, FirstIsOfItsSector DEF ReadTrack
    <3> HIDE DEF under, bytes
    <3> QED
      BY <3>1, <3>2 DEF Agrees
  <2> DEFINE e == [f EXCEPT !.under = under]
  <2> HIDE DEF under
  <2>7. e \in DriveRecord /\ e.disk = f.disk /\ e.under = under /\ e.motorOn = f.motorOn
    BY <2>2, <2>4 DEF DriveOK, DriveRecord
  <2>8. DriveOK(e)
    BY <2>4, <2>5, <2>6, <2>7, <2>a DEF DriveOK
  <2>9. Quiet(d, e)
    BY <2>2, <2>7 DEF Quiet
  <2> QED
    BY <2>1, <2>8, <2>9
<1> QED
  BY <1>1, <1>2

\* What is moved through the head.
LEMMA ByteMoved ==
  ASSUME NEW d, DriveOK(d), NEW head, NEW move, NEW value, move = "write" => value \in Data
  PROVE  LET e == Moved(d, head, move, value) IN
         /\ DriveOK(e)
         /\ Quiet(d, e)
<1> DEFINE s == SetSide(d, head)
           l == LoadTrack(s)
<1>1. DriveOK(s) /\ Quiet(d, s)
  BY DEF SetSide, DriveOK, DriveRecord, Quiet, CanWrite, Spinning
<1>2. DriveOK(l) /\ Quiet(s, l)
  BY <1>1, TrackLoaded
<1>3. Quiet(d, l)
  BY <1>1, <1>2, QuietAgain DEF DriveOK, DriveRecord
<1>4. CASE move = "read"
  <2>1. DriveOK(ReadByte(s)) /\ Quiet(d, ReadByte(s))
    BY <1>2, <1>3 DEF ReadByte, DriveOK, DriveRecord, Quiet, CanWrite, Spinning
  <2> QED
    BY <1>4, <2>1 DEF Moved
<1>5. CASE move = "write"
  <2>1. CASE ~CanWrite(s) \/ l.under = None
    BY <1>2, <1>3, <1>5, <2>1 DEF Moved, WriteByte
  <2>2. CASE ~(~CanWrite(s) \/ l.under = None)
    <3> DEFINE under == [l.under EXCEPT !.bytes[s.spin] = value, !.dirty = TRUE]
               e == [l EXCEPT !.byteReady = FALSE, !.under = under]
    <3>1. l.under \in Track /\ s.spin \in Position /\ value \in Data
      BY <1>1, <1>2, <1>5, <2>2 DEF DriveOK, DriveRecord
    <3>2. under \in Track /\ under.side = l.under.side /\ Agrees(under, l.disk)
      BY <3>1 DEF Track, Agrees
    <3>3. WriteByte(s, value) = e
      BY <1>2, <2>2 DEF WriteByte, DriveOK, DriveRecord
    <3> HIDE DEF under
    <3>4. e \in DriveRecord /\ e.disk = l.disk /\ e.under = under /\ e.motorOn = l.motorOn
      BY <1>2, <3>2 DEF DriveOK, DriveRecord
    <3>5. CanWrite(l)
      BY <1>1, <1>2, <2>2 DEF Quiet, CanWrite, Spinning, ReadOnly
    <3>6. DriveOK(e)
      BY <1>2, <2>2, <3>2, <3>4, <3>5 DEF DriveOK, CanWrite, Spinning
    <3>7. Quiet(d, e)
      BY <1>3, <3>4 DEF Quiet
    <3> QED
      BY <1>5, <3>3, <3>6, <3>7 DEF Moved
  <2> QED
    BY <2>1, <2>2
<1>6. CASE move \notin {"read", "write"}
  BY <1>6 DEF Moved, Quiet
<1> QED
  BY <1>4, <1>5, <1>6

\* A locked diskette has nothing to save.
Unmarked(d) == d.disk # None /\ ReadOnly(d.disk) => ~d.disk.modified

LEMMA QuietUnmarked ==
  ASSUME NEW d, NEW e, Unmarked(d), Quiet(d, e)
  PROVE  Unmarked(e)
BY DEF Unmarked, Quiet

\* A drive flushed is the same with its track taken apart, and marked only if
\* the host did not take the file.
LEMMA DriveFlushed ==
  ASSUME NEW d, DriveOK(d), Unmarked(d), NEW host, host # "written" => Saves(d)
  PROVE  LET e == Flush(d, host)
             f == FlushTrack(d)
         IN  /\ DriveOK(e)
             /\ Unmarked(e)
             /\ e.under # None => ~e.under.dirty
             /\ e.motorOn = d.motorOn
             /\ (e.disk = None) <=> (d.disk = None)
             /\ d.disk # None => /\ e.disk.file = d.disk.file
                                 /\ e.disk.data = f.disk.data
                                 /\ e.disk.modified <=> host # "written"
<1> DEFINE f == FlushTrack(d)
           e == Flush(d, host)
<1>1. /\ DriveOK(f)
      /\ Quiet(d, f)
      /\ f = [d EXCEPT !.disk = f.disk, !.under = f.under]
      /\ f.under # None => ~f.under.dirty
  BY TrackFlushed
<1>2. Unmarked(f) /\ f.motorOn = d.motorOn
  BY <1>1, QuietUnmarked DEF DriveOK, DriveRecord
<1>3. CASE d.disk = None
  BY <1>1, <1>2, <1>3 DEF Flush, Quiet
<1>4. CASE d.disk # None /\ host # "written"
  <2>1. e = f /\ Saves(d)
    BY <1>4 DEF Flush
  <2>2. f.disk.modified
    BY <2>1 DEF Saves, NeedsHost
  <2> QED
    BY <1>1, <1>2, <1>4, <2>1, <2>2 DEF Quiet
<1>5. CASE d.disk # None /\ host = "written"
  <2>1. f.disk \in Diskette /\ d.disk.file = f.disk.file
    BY <1>1, <1>5 DEF Quiet, DriveOK, DriveRecord
  <2>2. ~(f.disk.modified /\ ReadOnly(d.disk))
    BY <1>2, <2>1, DisketteFields DEF Unmarked, ReadOnly
  <2> DEFINE disk == [f.disk EXCEPT !.modified = f.disk.modified /\ ReadOnly(d.disk)]
  <2>3. e = [f EXCEPT !.disk = disk]
    BY <1>1, <1>5 DEF Flush, DriveOK, DriveRecord
  <2>4. /\ disk \in Diskette /\ disk.file = f.disk.file /\ disk.data = f.disk.data
        /\ disk.modified = FALSE
    <3>1. (f.disk.modified /\ ReadOnly(d.disk)) = FALSE
      BY <2>2
    <3>2. disk = [f.disk EXCEPT !.modified = FALSE]
      BY <3>1
    <3>3. f.disk = [file |-> f.disk.file, data |-> f.disk.data, modified |-> f.disk.modified]
      BY <2>1 DEF Diskette
    <3> HIDE DEF disk
    <3>4. disk = [file |-> f.disk.file, data |-> f.disk.data, modified |-> FALSE]
      BY <3>2, <3>3
    <3> QED
      BY <2>1, <3>4, DisketteFields DEF Diskette
  <2> HIDE DEF disk
  <2>5. e \in DriveRecord /\ e.disk = disk /\ e.under = f.under /\ e.motorOn = f.motorOn
    BY <1>1, <2>3, <2>4 DEF DriveOK, DriveRecord
  <2>6. e.disk # None
    BY <2>4, <2>5, DisketteFields
  <2>7. DriveOK(e)
    BY <1>1, <2>4, <2>5, <2>6 DEF DriveOK, Agrees
  <2> QED
    BY <1>1, <1>2, <1>5, <2>1, <2>4, <2>5, <2>6, <2>7 DEF Unmarked
<1> QED
  BY <1>3, <1>4, <1>5

LEMMA DriveEjected ==
  ASSUME NEW d, DriveOK(d)
  PROVE  /\ DriveOK(Ejected(d)) /\ Ejected(d).disk = None
         /\ Ejected(d).under = None /\ Unmarked(Ejected(d))
BY DEF Ejected, DriveOK, DriveRecord, CanWrite, Spinning, Unmarked

LEMMA MotorStopped ==
  ASSUME NEW d, DriveOK(d), Unmarked(d), d.motorOn,
         NEW host, host # "written" => Saves(d)
  PROVE  LET e == SetMotor(d, FALSE, host)
             f == Flush(d, host)
         IN  /\ DriveOK(e)
             /\ Unmarked(e)
             /\ e.disk = f.disk
             /\ e.motorOn = FALSE
<1> DEFINE f == Flush(d, host)
           e == [f EXCEPT !.motorOn = FALSE]
<1>1. DriveOK(f) /\ Unmarked(f) /\ (f.under # None => ~f.under.dirty)
  BY DriveFlushed
<1>2. SetMotor(d, FALSE, host) = e
  BY DEF SetMotor, DriveOK, DriveRecord
<1>3. e \in DriveRecord /\ e.disk = f.disk /\ e.under = f.under /\ e.motorOn = FALSE
  BY <1>1 DEF DriveOK, DriveRecord
<1>4. DriveOK(e) /\ Unmarked(e)
  BY <1>1, <1>3 DEF DriveOK, Unmarked
<1> QED
  BY <1>2, <1>3, <1>4

\* A command that stops nothing is quiet.
LEMMA CommandIsQuiet ==
  ASSUME NEW d, DriveOK(d), NEW command, NEW host,
         command # "eject", command # "motorOff" \/ ~d.motorOn
  PROVE  LET e == SetControl(d, command, host) IN
         /\ DriveOK(e)
         /\ Quiet(d, e)
<1>1. CASE command = "inwards"
  BY <1>1 DEF SetControl, DriveOK, DriveRecord, Quiet, CanWrite, Spinning
<1>2. CASE command = "outwards"
  BY <1>2 DEF SetControl, DriveOK, DriveRecord, Quiet, CanWrite, Spinning
<1>3. CASE command = "step"
  <2> DEFINE track == IF d.stepToTrack0 THEN (IF d.track > 0 THEN d.track - 1 ELSE d.track)
                      ELSE (IF d.track < Tracks - 1 THEN d.track + 1 ELSE d.track)
  <2>1. track \in 0..Tracks - 1
    BY DriveAssumption DEF DriveOK, DriveRecord
  <2>2. Stepped(d) = [d EXCEPT !.track = track]
    BY DEF Stepped, DriveOK, DriveRecord
  <2> HIDE DEF track
  <2> QED
    BY <1>3, <2>1, <2>2 DEF SetControl, DriveOK, DriveRecord, Quiet, CanWrite, Spinning
<1>4. CASE command = "motorOn"
  BY <1>4 DEF SetControl, SetMotor, DriveOK, DriveRecord, Quiet, CanWrite, Spinning
<1>5. CASE command = "motorOff"
  BY <1>5 DEF SetControl, SetMotor, DriveOK, DriveRecord, Quiet
<1>6. CASE command \notin {"inwards", "outwards", "step", "motorOn", "motorOff"}
  BY <1>6 DEF SetControl, Quiet
<1> QED
  BY <1>1, <1>2, <1>3, <1>4, <1>5, <1>6

-----------------------------------------------------------------------------
(* The invariant.                                                          *)

FilesOK ==
  /\ files = [f \in Files |-> files[f]]
  /\ \A f \in Files : files[f] \in ImagesOf(f) \cup {Spoilt}
  /\ failed \subseteq Drives
  /\ shared \subseteq Files

Holds(d, f) == drive[d].disk # None /\ drive[d].disk.file = f

\* A diskette not marked is as its file, and one that stopped and was saved is
\* not marked.
DriveGood(d) ==
  /\ DriveOK(drive[d])
  /\ Unmarked(drive[d])
  /\ drive[d].disk # None /\ ~drive[d].disk.modified /\ Followed(drive[d].disk.file)
       => files[drive[d].disk.file] = drive[d].disk.data
  /\ d \in Stopped => ~drive[d].disk.modified

\* The file of a diskette has no other to be written by.
OneHolder ==
  \A d, e \in Drives : \A f \in Files :
    Followed(f) /\ Holds(d, f) /\ Holds(e, f) => d = e

IInv ==
  /\ FilesOK
  /\ drive = [d \in Drives |-> drive[d]]
  /\ \A d \in Drives : DriveGood(d)
  /\ OneHolder

LEMMA InvIsTyped == IInv => TypeOK
<1> SUFFICES ASSUME IInv PROVE TypeOK
  OBVIOUS
<1>1. \A d \in Drives : drive[d] \in DriveRecord
  BY DEF IInv, DriveGood, DriveOK
<1>2. drive \in [Drives -> DriveRecord]
  BY <1>1 DEF IInv
<1> QED
  BY <1>2 DEF IInv, TypeOK, FilesOK, DriveGood, DriveOK, DriveRecord

LEMMA InvSaves == IInv => StoppedIsSaved
<1> SUFFICES ASSUME IInv, NEW d \in Stopped, Followed(drive[d].disk.file)
             PROVE  Saved(d)
  BY DEF StoppedIsSaved
<1>1. d \in Drives /\ DriveGood(d) /\ ~drive[d].motorOn /\ drive[d].disk # None
  BY DEF IInv, Stopped
<1>2. files[drive[d].disk.file] = drive[d].disk.data
  BY <1>1 DEF DriveGood
<1>3. FlushTrack(drive[d]).disk = drive[d].disk
  BY <1>1, TrackFlushed DEF DriveGood
<1> QED
  BY <1>2, <1>3 DEF Saved, OnDisk

LEMMA InvStarts == Init => IInv
<1> SUFFICES ASSUME Init PROVE IInv
  OBVIOUS
<1>1. FilesOK
  <2>1. PICK blank \in [Files -> Data] :
           files = [f \in Files |-> [s \in SectorsOf(f) |-> blank[f]]]
    BY DEF Init
  <2>2. \A f \in Files : files[f] \in ImagesOf(f)
    BY <2>1 DEF ImagesOf
  <2> QED
    BY <2>1, <2>2 DEF Init, FilesOK
<1>2. \A d \in Drives : drive[d] = EmptyDrive
  BY DEF Init
<1>3. EmptyDrive.disk = None
  BY DEF EmptyDrive
<1>4. \A d \in Drives : DriveGood(d)
  BY <1>2, <1>3, EmptyDriveOK DEF DriveGood, Unmarked, Stopped
<1>5. OneHolder
  BY <1>2, <1>3 DEF OneHolder, Holds
<1>6. drive = [d \in Drives |-> drive[d]]
  BY DEF Init
<1> QED
  BY <1>1, <1>4, <1>5, <1>6 DEF IInv

-----------------------------------------------------------------------------
(* Writing files back.                                                     *)

\* The drives of stopped are flushed, and the host does as it may.
Flushing(stopped, host) ==
  stopped \in SUBSET Drives /\ host \in Hosts(stopped) /\ WriteBack(stopped, host)

Writing(stopped, host, f) ==
  {d \in stopped : Saves(drive[d]) /\ drive[d].disk.file = f /\ host[d] # "refused"}

LEMMA LastIsOne ==
  ASSUME NEW W \in SUBSET Drives, W # {}
  PROVE  (CHOOSE d \in W : \A e \in W : e <= d) \in W
<1>1. W \subseteq {0, 1}
  BY DiskettesAssumption
<1>2. \E d \in W : \A e \in W : e <= d
  <2>1. CASE 1 \in W
    <3>1. \A e \in W : e <= 1
      BY <1>1
    <3> QED
      BY <2>1, <3>1
  <2>2. CASE 1 \notin W
    <3>1. W = {0}
      BY <1>1, <2>2
    <3> QED
      BY <3>1
  <2> QED
    BY <2>1, <2>2
<1> QED
  BY <1>2

\* Where a file is written one drive has written it.
LEMMA FileWritten ==
  ASSUME NEW stopped, NEW host, Flushing(stopped, host), NEW f \in Files
  PROVE  LET W == Writing(stopped, host, f) IN
         /\ W = {} => files'[f] = files[f]
         /\ W # {} => \E d \in W : files'[f] = FileAfter(drive[d], host[d])
<1> DEFINE W == Writing(stopped, host, f)
<1>1. W \in SUBSET Drives
  BY DEF Flushing, Writing
<1>2. files'[f] = IF W = {} THEN files[f]
                  ELSE LET d == CHOOSE d \in W : \A e \in W : e <= d
                       IN  FileAfter(drive[d], host[d])
  BY DEF Flushing, WriteBack, Writing
<1> QED
  BY <1>1, <1>2, LastIsOne

LEMMA FilesKeptOK ==
  ASSUME IInv, NEW stopped, NEW host, Flushing(stopped, host)
  PROVE  /\ files' = [f \in Files |-> files'[f]]
         /\ \A f \in Files : files'[f] \in ImagesOf(f) \cup {Spoilt}
         /\ failed' \subseteq Drives
<1>1. files' = [f \in Files |-> files'[f]] /\ failed' \subseteq Drives
  BY DEF Flushing, WriteBack
<1>2. ASSUME NEW f \in Files PROVE files'[f] \in ImagesOf(f) \cup {Spoilt}
  <2>1. CASE Writing(stopped, host, f) = {}
    BY <2>1, FileWritten DEF IInv, FilesOK
  <2>2. CASE Writing(stopped, host, f) # {}
    <3>1. PICK d \in Writing(stopped, host, f) : files'[f] = FileAfter(drive[d], host[d])
      BY <2>2, FileWritten
    <3>2. /\ d \in Drives /\ DriveOK(drive[d]) /\ drive[d].disk # None
          /\ drive[d].disk.file = f
          /\ host[d] \in {"written", "cut"}
      BY <3>1, DiskettesAssumption DEF Writing, Flushing, IInv, DriveGood, Saves, Hosts
    <3>3. FlushTrack(drive[d]).disk \in Diskette /\ FlushTrack(drive[d]).disk.file = f
      BY <3>2, TrackFlushed DEF Quiet, DriveOK, DriveRecord
    <3> QED
      BY <3>1, <3>2, <3>3, DisketteFields DEF FileAfter
  <2> QED
    BY <2>1, <2>2
<1> QED
  BY <1>1, <1>2

\* A file is left alone while no drive that holds it is flushed.
LEMMA FileLeft ==
  ASSUME NEW stopped, NEW host, Flushing(stopped, host), NEW f \in Files,
         \A d \in stopped : ~Holds(d, f)
  PROVE  files'[f] = files[f]
BY FileWritten DEF Writing, Holds, Saves

\* What becomes of a drive flushed, when its file is its own: it is as its
\* file if it is not marked, it is not marked if the host took the file, and
\* then the file has all that was on it.
LEMMA DriveSaved ==
  ASSUME IInv, NEW stopped, NEW host, Flushing(stopped, host),
         NEW d \in stopped, NEW f \in Files, Holds(d, f)
  PROVE  LET e == Flush(drive[d], host[d]) IN
         /\ Followed(f) /\ ~e.disk.modified => files'[f] = e.disk.data
         /\ d \notin failed' => ~e.disk.modified
         /\ Followed(f) /\ d \notin failed' => files'[f] = OnDisk(drive[d])
<1> DEFINE e == Flush(drive[d], host[d])
           t == FlushTrack(drive[d])
<1>1. d \in Drives /\ DriveGood(d) /\ drive[d].disk # None /\ drive[d].disk.file = f
  BY DEF Flushing, IInv, Holds
<1>2. host[d] # "written" => Saves(drive[d])
  BY <1>1 DEF Flushing, Hosts
<1>3. e.disk.data = t.disk.data /\ (e.disk.modified <=> host[d] # "written")
  BY <1>1, <1>2, DriveFlushed DEF DriveGood
<1>4. d \notin failed' => host[d] = "written"
  BY <1>1, <1>2 DEF Flushing, WriteBack
<1>5. ASSUME Followed(f), host[d] = "written" PROVE files'[f] = t.disk.data
  <2> DEFINE W == Writing(stopped, host, f)
  <2>1. \A c \in W : c = d
    BY <1>1, <1>5 DEF Writing, Flushing, IInv, OneHolder, Holds, Saves
  <2>2. CASE Saves(drive[d])
    <3>1. d \in W
      BY <1>1, <1>5, <2>2 DEF Writing
    <3>2. files'[f] = FileAfter(drive[d], host[d])
      BY <2>1, <3>1, FileWritten
    <3> QED
      BY <1>5, <3>2 DEF FileAfter
  <2>3. CASE ~Saves(drive[d])
    <3>1. files'[f] = files[f]
      BY <2>1, <2>3, FileWritten DEF Writing
    <3>2. Quiet(drive[d], t) /\ Unmarked(t)
      BY <1>1, TrackFlushed, QuietUnmarked DEF DriveGood
    <3>3. t.disk # None /\ t.disk.file = f
      BY <1>1, <3>2 DEF Quiet
    <3>4. ~t.disk.modified
      BY <1>1, <1>5, <2>3, <3>2, <3>3 DEF Saves, NeedsHost, Unmarked, Followed
    <3>5. t.disk = drive[d].disk
      BY <3>2, <3>4 DEF Quiet
    <3> QED
      BY <1>1, <1>5, <3>1, <3>4, <3>5 DEF DriveGood
  <2> QED
    BY <2>2, <2>3
<1> QED
  BY <1>3, <1>4, <1>5 DEF OnDisk

\* A drive that is flushed, and does what is quiet then or lets go of its
\* diskette, is good; so is one that is not flushed and does what is quiet.
LEMMA FlushedGood ==
  ASSUME IInv, NEW stopped, NEW host, Flushing(stopped, host), shared' = shared,
         NEW d \in stopped, NEW e, Unmarked(e),
         e.disk = None \/ e.disk = Flush(drive[d], host[d]).disk,
         DriveOK(drive'[d]), Quiet(e, drive'[d])
  PROVE  DriveGood(d)'
<1> DEFINE g == drive'[d]
           fl == Flush(drive[d], host[d])
<1>1. Unmarked(g)
  BY QuietUnmarked
<1>2. CASE g.disk = None
  BY <1>1, <1>2 DEF DriveGood, Stopped
<1>3. CASE g.disk # None
  <2>1. d \in Drives /\ DriveGood(d)
    BY DEF Flushing, IInv
  <2>2. e.disk = fl.disk /\ e.disk # None
    BY <1>3 DEF Quiet
  <2>3. host[d] # "written" => Saves(drive[d])
    BY <2>1 DEF Flushing, Hosts
  <2>4. fl.disk.file = drive[d].disk.file /\ drive[d].disk # None
    BY <2>1, <2>2, <2>3, DriveFlushed DEF DriveGood
  <2>f. PICK f \in Files : f = drive[d].disk.file
    BY <2>1, <2>4, DisketteFields DEF DriveGood, DriveOK, DriveRecord
  <2>5. f \in Files /\ Holds(d, f) /\ g.disk.file = f
    BY <2>2, <2>4, <2>f DEF Holds, Quiet
  <2>6. /\ Followed(f) /\ ~fl.disk.modified => files'[f] = fl.disk.data
        /\ d \notin failed' => ~fl.disk.modified
    BY <2>5, DriveSaved
  <2>7. Followed(f)' <=> Followed(f)
    BY DEF Followed
  <2>8. ~g.disk.modified /\ Followed(f)' => files'[f] = g.disk.data
    BY <2>2, <2>6, <2>7 DEF Quiet
  <2>9. (d \in Stopped)' => ~g.disk.modified
    BY <2>2, <2>6 DEF Stopped, Quiet
  <2> QED
    BY <1>1, <2>5, <2>8, <2>9 DEF DriveGood
<1> QED
  BY <1>2, <1>3

LEMMA QuietGood ==
  ASSUME IInv, NEW d \in Drives, DriveOK(drive'[d]), Quiet(drive[d], drive'[d]),
         d \notin failed' => d \notin failed,
         \A f \in Files : Holds(d, f) /\ Followed(f)' => Followed(f) /\ files'[f] = files[f]
  PROVE  DriveGood(d)'
<1> DEFINE g == drive'[d]
<1>1. DriveGood(d) /\ Unmarked(g)
  BY QuietUnmarked DEF IInv, DriveGood
<1>2. CASE g.disk = None
  BY <1>1, <1>2 DEF DriveGood, Stopped
<1>3. CASE g.disk # None
  <2>1. drive[d].disk # None /\ g.disk.file = drive[d].disk.file
    BY <1>3 DEF Quiet
  <2>2. PICK f \in Files : f = drive[d].disk.file
    BY <1>1, <2>1, DisketteFields DEF DriveGood, DriveOK, DriveRecord
  <2>3. Followed(f)' => Followed(f) /\ files'[f] = files[f]
    BY <2>1, <2>2 DEF Holds
  <2>4. ~g.disk.modified => g.disk = drive[d].disk
    BY DEF Quiet
  <2>5. ~g.disk.modified /\ Followed(f)' => files'[f] = g.disk.data
    BY <1>1, <2>1, <2>2, <2>3, <2>4 DEF DriveGood
  <2>6. ASSUME (d \in Stopped)' PROVE ~g.disk.modified
    <3>1. ~g.motorOn /\ ~drive[d].motorOn /\ g.disk = drive[d].disk
      BY <2>6 DEF Stopped, Quiet
    <3>2. d \in Stopped
      BY <2>1, <2>6, <3>1 DEF Stopped
    <3> QED
      BY <1>1, <3>1, <3>2 DEF DriveGood
  <2> QED
    BY <1>1, <2>1, <2>2, <2>5, <2>6 DEF DriveGood
<1> QED
  BY <1>2, <1>3

\* A drive that is not flushed finds its file as it was.
LEMMA OthersLeft ==
  ASSUME IInv, NEW stopped, NEW host, Flushing(stopped, host), NEW d \in Drives \ stopped
  PROVE  /\ d \in failed' <=> d \in failed
         /\ \A f \in Files : Holds(d, f) /\ Followed(f) => files'[f] = files[f]
<1>1. d \in failed' <=> d \in failed
  BY DEF Flushing, WriteBack
<1>2. ASSUME NEW f \in Files, Holds(d, f), Followed(f) PROVE files'[f] = files[f]
  <2>1. \A c \in stopped : ~Holds(c, f)
    BY <1>2 DEF IInv, OneHolder, Flushing
  <2> QED
    BY <2>1, FileLeft
<1> QED
  BY <1>1, <1>2

\* Nothing is put in.
LEMMA OneHolderKept ==
  ASSUME IInv, shared' = shared,
         \A d \in Drives : drive'[d].disk # None =>
           drive[d].disk # None /\ drive'[d].disk.file = drive[d].disk.file
  PROVE  OneHolder'
BY DEF IInv, OneHolder, Holds, Followed

\* A step that puts nothing in, flushes some drives, and is quiet for the rest.
LEMMA FlushingStep ==
  ASSUME IInv, NEW stopped, NEW host, Flushing(stopped, host), shared' = shared,
         drive' = [d \in Drives |-> drive'[d]],
         \A d \in stopped : DriveGood(d)' /\
           (drive'[d].disk # None =>
              drive[d].disk # None /\ drive'[d].disk.file = drive[d].disk.file),
         \A d \in Drives \ stopped : DriveOK(drive'[d]) /\ Quiet(drive[d], drive'[d])
  PROVE  IInv'
<1>1. FilesOK'
  BY FilesKeptOK DEF FilesOK, IInv
<1>2. ASSUME NEW d \in Drives PROVE DriveGood(d)'
  <2>1. CASE d \in stopped
    BY <2>1
  <2>2. CASE d \notin stopped
    <3>1. /\ d \in failed' <=> d \in failed
          /\ \A f \in Files : Holds(d, f) /\ Followed(f) => files'[f] = files[f]
      BY <2>2, OthersLeft
    <3>2. \A f \in Files : Followed(f)' <=> Followed(f)
      BY DEF Followed
    <3> QED
      BY <2>2, <3>1, <3>2, QuietGood
  <2> QED
    BY <2>1, <2>2
<1>3. OneHolder'
  BY OneHolderKept DEF Quiet
<1> QED
  BY <1>1, <1>2, <1>3 DEF IInv

-----------------------------------------------------------------------------
(* The steps.                                                              *)

\* An access flushes one drive, or none, and is quiet for the others.
LEMMA AccessFlushes ==
  ASSUME IInv, NEW i \in Drives, NEW command,
         NEW head, NEW move, NEW value, move = "write" => value \in Data,
         Access(i, command, head, move, value)
  PROVE  LET stopped == FlushedBy(i, command) IN
         \E host :
           /\ Flushing(stopped, host)
           /\ host[i] # "written" => Saves(drive[i])
           /\ drive'[i] = Moved(SetControl(drive[i], command, host[i]), head, move, value)
           /\ \A d \in Drives \ {i} : drive'[d] = drive[d]
           /\ \A d \in Drives \ stopped : DriveOK(drive'[d]) /\ Quiet(drive[d], drive'[d])
<1> DEFINE stopped == FlushedBy(i, command)
<1>1. PICK host \in Hosts(stopped) :
        /\ drive' = [drive EXCEPT ![i] =
                       Moved(SetControl(@, command, host[i]), head, move, value)]
        /\ WriteBack(stopped, host)
  BY DEF Access
<1> DEFINE e == SetControl(drive[i], command, host[i])
<1>2. /\ Flushing(stopped, host)
      /\ drive'[i] = Moved(e, head, move, value)
      /\ \A d \in Drives \ {i} : drive'[d] = drive[d]
  BY <1>1 DEF Flushing, FlushedBy, IInv
<1>3. \A d \in Drives : DriveOK(drive[d])
  BY DEF IInv, DriveGood
<1>4. host[i] # "written" => Saves(drive[i])
  BY <1>1 DEF Hosts
<1>5. \A d \in Drives \ {i} : DriveOK(drive'[d]) /\ Quiet(drive[d], drive'[d])
  BY <1>2, <1>3 DEF Quiet
<1>6. ASSUME i \notin stopped PROVE DriveOK(drive'[i]) /\ Quiet(drive[i], drive'[i])
  <2>1. command # "eject" /\ (command # "motorOff" \/ ~drive[i].motorOn)
    BY <1>6 DEF FlushedBy
  <2>2. DriveOK(e) /\ Quiet(drive[i], e)
    BY <1>3, <2>1, CommandIsQuiet
  <2>3. DriveOK(drive'[i]) /\ Quiet(e, drive'[i])
    BY <1>2, <2>2, ByteMoved
  <2> QED
    BY <1>3, <2>2, <2>3, QuietAgain DEF DriveOK, DriveRecord
<1>7. \A d \in Drives \ stopped : DriveOK(drive'[d]) /\ Quiet(drive[d], drive'[d])
  BY <1>5, <1>6
<1> QED
  BY <1>2, <1>4, <1>7

LEMMA AccessKeeps ==
  ASSUME IInv, NEW i \in Drives, NEW command,
         NEW head, NEW move, NEW value, move = "write" => value \in Data,
         Access(i, command, head, move, value)
  PROVE  IInv'
<1> DEFINE stopped == FlushedBy(i, command)
<1>1. PICK host :
        /\ Flushing(stopped, host)
        /\ host[i] # "written" => Saves(drive[i])
        /\ drive'[i] = Moved(SetControl(drive[i], command, host[i]), head, move, value)
        /\ \A d \in Drives \ stopped : DriveOK(drive'[d]) /\ Quiet(drive[d], drive'[d])
  BY AccessFlushes
<1> DEFINE e == SetControl(drive[i], command, host[i])
<1>2. shared' = shared /\ drive' = [d \in Drives |-> drive'[d]]
  BY DEF Access, IInv
<1>3. ASSUME NEW d \in stopped
      PROVE  /\ DriveGood(d)'
             /\ drive'[d].disk # None =>
                  drive[d].disk # None /\ drive'[d].disk.file = drive[d].disk.file
  <2>1. d = i /\ (command = "eject" \/ (command = "motorOff" /\ drive[i].motorOn))
    BY DEF FlushedBy
  <2>2. DriveGood(i)
    BY DEF IInv
  <2>3. /\ DriveOK(e) /\ Unmarked(e)
        /\ e.disk = None \/ e.disk = Flush(drive[i], host[i]).disk
    <3>1. CASE command = "eject"
      BY <2>2, <3>1, DriveEjected DEF SetControl, DriveGood
    <3>2. CASE command = "motorOff" /\ drive[i].motorOn
      BY <1>1, <2>2, <3>2, MotorStopped DEF SetControl, DriveGood
    <3> QED
      BY <2>1, <3>1, <3>2
  <2>4. DriveOK(drive'[i]) /\ Quiet(e, drive'[i])
    BY <1>1, <2>3, ByteMoved
  <2>5. DriveGood(i)'
    BY <1>1, <1>2, <2>1, <2>3, <2>4, FlushedGood
  <2>6. drive'[i].disk # None =>
          drive[i].disk # None /\ drive'[i].disk.file = drive[i].disk.file
    BY <1>1, <2>2, <2>3, <2>4, DriveFlushed DEF Quiet, DriveGood
  <2> QED
    BY <2>1, <2>5, <2>6
<1> QED
  BY <1>1, <1>2, <1>3, FlushingStep

LEMMA TickKeeps == ASSUME IInv, NEW i \in Drives, Tick(i) PROVE IInv'
<1>1. /\ drive' = [d \in Drives |-> drive'[d]]
      /\ drive'[i] = Turned(drive[i])
      /\ \A d \in Drives \ {i} : drive'[d] = drive[d]
  BY DEF Tick, IInv
<1>2. \A d \in Drives : DriveOK(drive[d])
  BY DEF IInv, DriveGood
<1>3. DriveOK(Turned(drive[i])) /\ Quiet(drive[i], Turned(drive[i]))
  <2>1. (drive[i].spin + 1) % TrackLength \in Position
    BY <1>2, TrackIsNotEmpty DEF DriveOK, DriveRecord, Position
  <2>2. Turned(drive[i]) = [drive[i] EXCEPT !.spin = (drive[i].spin + 1) % TrackLength,
                                            !.byteReady = TRUE]
    BY <1>2 DEF Turned, DriveOK, DriveRecord
  <2> QED
    BY <1>2, <2>1, <2>2 DEF DriveOK, DriveRecord, Quiet, CanWrite, Spinning
<1>4. \A d \in Drives : DriveOK(drive'[d]) /\ Quiet(drive[d], drive'[d])
  BY <1>1, <1>2, <1>3 DEF Quiet
<1>5. FilesOK'
  BY DEF Tick, FilesOK, IInv
<1>6. \A d \in Drives : DriveGood(d)'
  <2>1. ASSUME NEW d \in Drives PROVE DriveGood(d)'
    <3>1. \A f \in Files : Holds(d, f) /\ Followed(f)' => Followed(f) /\ files'[f] = files[f]
      BY DEF Tick, Followed
    <3> QED
      BY <1>4, <3>1, QuietGood DEF Tick
  <2> QED
    BY <2>1
<1>7. OneHolder'
  BY <1>4, OneHolderKept DEF Tick, Quiet
<1> QED
  BY <1>1, <1>5, <1>6, <1>7 DEF IInv

LEMMA EjectKeeps == ASSUME IInv, NEW i \in Drives, EjectDiskette(i) PROVE IInv'
<1>1. PICK host \in Hosts({i}) : WriteBack({i}, host)
  BY DEF EjectDiskette
<1>2. /\ Flushing({i}, host)
      /\ shared' = shared
      /\ drive' = [d \in Drives |-> drive'[d]]
      /\ drive'[i] = Ejected(drive[i])
      /\ \A d \in Drives \ {i} : drive'[d] = drive[d]
  BY <1>1 DEF Flushing, EjectDiskette, IInv
<1>3. \A d \in Drives : DriveOK(drive[d])
  BY DEF IInv, DriveGood
<1>4. /\ DriveOK(drive'[i]) /\ drive'[i].disk = None /\ Unmarked(drive'[i])
  BY <1>2, <1>3, DriveEjected
<1>5. DriveGood(i)'
  BY <1>4 DEF DriveGood, Stopped
<1>6. \A d \in Drives \ {i} : DriveOK(drive'[d]) /\ Quiet(drive[d], drive'[d])
  BY <1>2, <1>3 DEF Quiet
<1> QED
  BY <1>2, <1>4, <1>5, <1>6, FlushingStep

LEMMA FlushKeeps == ASSUME IInv, FlushDiskettes PROVE IInv'
<1>1. PICK host \in Hosts(Drives) :
        /\ WriteBack(Drives, host)
        /\ drive' = [d \in Drives |-> Flush(drive[d], host[d])]
  BY DEF FlushDiskettes
<1>2. Flushing(Drives, host) /\ shared' = shared
  BY <1>1 DEF Flushing, FlushDiskettes
<1>3. ASSUME NEW d \in Drives
      PROVE  /\ DriveGood(d)'
             /\ drive'[d].disk # None =>
                  drive[d].disk # None /\ drive'[d].disk.file = drive[d].disk.file
  <2>1. drive'[d] = Flush(drive[d], host[d])
    BY <1>1
  <2>2. host[d] # "written" => Saves(drive[d])
    BY DEF Hosts
  <2>3. /\ DriveOK(drive'[d]) /\ Unmarked(drive'[d])
        /\ (drive'[d].disk = None) <=> (drive[d].disk = None)
        /\ drive[d].disk # None => drive'[d].disk.file = drive[d].disk.file
    BY <2>1, <2>2, DriveFlushed DEF IInv, DriveGood
  <2>4. Quiet(drive'[d], drive'[d])
    BY DEF Quiet
  <2>5. DriveGood(d)'
    BY <1>2, <2>1, <2>3, <2>4, FlushedGood
  <2> QED
    BY <2>3, <2>5
<1>4. drive' = [d \in Drives |-> drive'[d]]
  BY <1>1
<1> QED
  BY <1>2, <1>3, <1>4, FlushingStep

\* A reset flushes the drives that turn, and stops them.
LEMMA ResetFlushes ==
  ASSUME IInv, Reset
  PROVE  LET turning == {d \in Drives : drive[d].motorOn} IN
         \E host :
           /\ Flushing(turning, host)
           /\ drive' = [d \in Drives |-> drive'[d]]
           /\ \A d \in turning : host[d] # "written" => Saves(drive[d])
           /\ \A d \in Drives :
                LET e == SetMotor(drive[d], FALSE, host[d]) IN
                /\ DriveOK(e) /\ Unmarked(e)
                /\ DriveOK(drive'[d]) /\ Quiet(e, drive'[d])
                /\ drive'[d].disk = e.disk /\ drive'[d].under = e.under
           /\ \A d \in Drives \ turning : Quiet(drive[d], drive'[d])
<1> DEFINE turning == {d \in Drives : drive[d].motorOn}
<1>1. PICK host \in Hosts(turning) :
        /\ WriteBack(turning, host)
        /\ drive' = [d \in Drives |->
             [SetMotor(drive[d], FALSE, host[d]) EXCEPT
                !.stepToTrack0 = FALSE, !.side = 0, !.byteReady = FALSE]]
  BY DEF Reset
<1>2. ASSUME NEW d \in Drives
      PROVE  LET e == SetMotor(drive[d], FALSE, host[d]) IN
             /\ DriveOK(e) /\ Unmarked(e)
             /\ DriveOK(drive'[d]) /\ Quiet(e, drive'[d])
             /\ drive'[d].disk = e.disk /\ drive'[d].under = e.under
             /\ d \notin turning => e = drive[d]
  <2> DEFINE e == SetMotor(drive[d], FALSE, host[d])
  <2>1. DriveGood(d)
    BY DEF IInv
  <2>2. DriveOK(e) /\ Unmarked(e) /\ (d \notin turning => e = drive[d])
    <3>1. CASE d \in turning
      <4>1. host[d] # "written" => Saves(drive[d])
        BY DEF Hosts
      <4> QED
        BY <2>1, <3>1, <4>1, MotorStopped DEF DriveGood
    <3>2. CASE d \notin turning
      <4>1. drive[d].motorOn = FALSE
        BY <2>1, <3>2 DEF DriveGood, DriveOK, DriveRecord
      <4> QED
        BY <2>1, <4>1 DEF SetMotor, DriveGood
    <3> QED
      BY <3>1, <3>2
  <2> HIDE DEF e
  <2>3. drive'[d] = [e EXCEPT !.stepToTrack0 = FALSE, !.side = 0, !.byteReady = FALSE]
    BY <1>1 DEF e
  <2>4. DriveOK(drive'[d]) /\ Quiet(e, drive'[d])
        /\ drive'[d].disk = e.disk /\ drive'[d].under = e.under
    BY <2>2, <2>3 DEF DriveOK, DriveRecord, Sides, Quiet, CanWrite, Spinning
  <2> QED
    BY <2>2, <2>4 DEF e
<1>3. \A d \in Drives \ turning : Quiet(drive[d], drive'[d])
  BY <1>2
<1>4. \A d \in turning : host[d] # "written" => Saves(drive[d])
  BY DEF Hosts
<1>5. Flushing(turning, host) /\ drive' = [d \in Drives |-> drive'[d]]
  BY <1>1 DEF Flushing
<1> QED
  BY <1>2, <1>3, <1>4, <1>5

LEMMA ResetKeeps == ASSUME IInv, Reset PROVE IInv'
<1> DEFINE turning == {d \in Drives : drive[d].motorOn}
<1>1. PICK host :
        /\ Flushing(turning, host)
        /\ drive' = [d \in Drives |-> drive'[d]]
        /\ \A d \in turning : host[d] # "written" => Saves(drive[d])
        /\ \A d \in Drives :
             LET e == SetMotor(drive[d], FALSE, host[d]) IN
             /\ DriveOK(e) /\ Unmarked(e)
             /\ DriveOK(drive'[d]) /\ Quiet(e, drive'[d])
        /\ \A d \in Drives \ turning : Quiet(drive[d], drive'[d])
  BY ResetFlushes
<1>2. shared' = shared
  BY DEF Reset
<1>3. ASSUME NEW d \in turning
      PROVE  /\ DriveGood(d)'
             /\ drive'[d].disk # None =>
                  drive[d].disk # None /\ drive'[d].disk.file = drive[d].disk.file
  <2> DEFINE e == SetMotor(drive[d], FALSE, host[d])
             fl == Flush(drive[d], host[d])
  <2>1. DriveGood(d) /\ drive[d].motorOn
    BY DEF IInv
  <2>2. host[d] # "written" => Saves(drive[d])
    BY <1>1
  <2>3. e.disk = fl.disk
    BY <2>1, <2>2, MotorStopped DEF DriveGood
  <2>4. DriveOK(e) /\ Unmarked(e) /\ DriveOK(drive'[d]) /\ Quiet(e, drive'[d])
    BY <1>1
  <2>5. DriveGood(d)'
    BY <1>1, <1>2, <2>3, <2>4, FlushedGood
  <2>6. /\ (fl.disk = None) <=> (drive[d].disk = None)
        /\ drive[d].disk # None => fl.disk.file = drive[d].disk.file
    BY <2>1, <2>2, DriveFlushed DEF DriveGood
  <2>7. drive'[d].disk # None =>
          drive[d].disk # None /\ drive'[d].disk.file = drive[d].disk.file
    BY <2>3, <2>4, <2>6 DEF Quiet
  <2> QED
    BY <2>5, <2>7
<1> QED
  BY <1>1, <1>2, <1>3, FlushingStep

LEMMA InsertKeeps ==
  ASSUME IInv, NEW i \in Drives, NEW f \in Files, InsertDiskette(i, f)
  PROVE  IInv'
<1>1. PICK host \in Hosts({i}) :
        /\ WriteBack({i}, host)
        /\ drive' = [drive EXCEPT ![i] =
             IF Saves(@) /\ host[i] # "written" THEN Ejected(@)
             ELSE [Ejected(@) EXCEPT !.disk = Opened(f, files[f]), !.under = None]]
  BY DEF InsertDiskette
<1> DEFINE e == Ejected(drive[i])
           disk == Opened(f, files[f])
           in == [e EXCEPT !.disk = disk, !.under = None]
<1>2. /\ Flushing({i}, host)
      /\ drive' = [d \in Drives |-> drive'[d]]
      /\ \A d \in Drives \ {i} : drive'[d] = drive[d]
      /\ drive'[i] = e \/ drive'[i] = in
  BY <1>1 DEF Flushing, IInv
<1>3. DriveGood(i) /\ \A d \in Drives : DriveOK(drive[d])
  BY DEF IInv, DriveGood
<1>4. DriveOK(e) /\ e.disk = None /\ e.under = None
  BY <1>3, DriveEjected
<1>5. disk \in Diskette /\ disk # None /\ disk.file = f /\ disk.data = files[f] /\ ~disk.modified
  <2>1. files[f] \in ImagesOf(f)
    BY DEF InsertDiskette, IInv, FilesOK
  <2>2. disk \in Diskette
    BY <2>1, OpenedIsDiskette
  <2> QED
    BY <2>2, DisketteFields DEF Opened
<1>6. DriveOK(in) /\ in.disk = disk
  <2> HIDE DEF disk, e
  <2> QED
    BY <1>4, <1>5 DEF DriveOK, DriveRecord
\* What the step does to the images put in twice.
<1>7. f \notin shared' /\ f \notin InMemory =>
        \A d \in Drives : Holds(d, f) => d = i /\ ~Saves(drive[i])
  BY DEF InsertDiskette, Holders, Holds
<1>8. \A g \in Files : \A d \in Drives : Holds(d, g) /\ g \notin shared' => g \notin shared
  BY DEF InsertDiskette, Holders, Holds
<1>9. FilesOK'
  <2>1. shared' \subseteq Files
    BY DEF InsertDiskette, IInv, FilesOK
  <2> QED
    BY <1>2, <2>1, FilesKeptOK DEF FilesOK
<1>10. ASSUME NEW d \in Drives, d # i PROVE DriveGood(d)'
  <2>1. drive'[d] = drive[d] /\ d \in Drives \ {i}
    BY <1>2, <1>10
  <2>2. /\ d \in failed' <=> d \in failed
        /\ \A g \in Files : Holds(d, g) /\ Followed(g) => files'[g] = files[g]
    BY <1>2, <2>1, OthersLeft
  <2>3. \A g \in Files : Holds(d, g) /\ Followed(g)' => Followed(g)
    BY <1>8 DEF Followed
  <2>4. DriveOK(drive'[d]) /\ Quiet(drive[d], drive'[d])
    BY <1>3, <2>1 DEF Quiet
  <2> QED
    BY <2>2, <2>3, <2>4, QuietGood
<1>11. DriveGood(i)'
  <2>1. CASE drive'[i] = e
    BY <1>4, <2>1 DEF DriveGood, Unmarked, Stopped
  <2>2. CASE drive'[i] = in
    <3>1. ASSUME Followed(f)' PROVE files'[f] = files[f]
      <4>1. Writing({i}, host, f) = {}
        BY <1>7, <3>1 DEF Writing, Followed, Holds, Saves
      <4> QED
        BY <1>2, <4>1, FileWritten
    <3>2. drive'[i].disk = disk
      BY <1>6, <2>2
    <3> HIDE DEF disk, in
    <3> QED
      BY <1>5, <1>6, <2>2, <3>1, <3>2 DEF DriveGood, Unmarked, Stopped
  <2> QED
    BY <1>2, <2>1, <2>2
<1>12. OneHolder'
  <2> SUFFICES ASSUME NEW c \in Drives, NEW d \in Drives, NEW g \in Files,
                      Followed(g)', Holds(c, g)', Holds(d, g)'
               PROVE  c = d
    BY DEF OneHolder
  <2>1. ASSUME NEW a \in Drives, Holds(a, g)', a # i PROVE Holds(a, g)
    BY <1>2, <2>1 DEF Holds
  <2>2. ASSUME Holds(i, g)' PROVE g = f
    BY <1>2, <1>4, <1>5, <1>6, <2>2 DEF Holds
  <2>3. CASE c # i /\ d # i
    <3>1. Holds(c, g) /\ Holds(d, g)
      BY <2>1, <2>3
    <3>2. Followed(g)
      BY <1>8, <3>1 DEF Followed
    <3> QED
      BY <3>1, <3>2 DEF IInv, OneHolder
  <2>4. CASE ~(c # i /\ d # i)
    <3>1. g = f
      BY <2>2, <2>4
    <3>2. ASSUME NEW a \in Drives, Holds(a, g)', a # i PROVE FALSE
      BY <1>7, <2>1, <3>1, <3>2 DEF Followed
    <3> QED
      BY <2>4, <3>2
  <2> QED
    BY <2>3, <2>4
<1> QED
  BY <1>2, <1>9, <1>10, <1>11, <1>12 DEF IInv

-----------------------------------------------------------------------------
(* The theorems.                                                           *)

LEMMA InvKept == IInv /\ [Next]_vars => IInv'
<1> SUFFICES ASSUME IInv, [Next]_vars PROVE IInv'
  OBVIOUS
<1>1. ASSUME NEW i \in Drives, NEW picked \in Addressed,
             \/ Access(i, picked[1], None, "none", None)
             \/ Access(i, picked[1], picked[2], "read", None)
             \/ \E value \in Written : Access(i, picked[1], picked[2], "write", value)
      PROVE  IInv'
  BY <1>1, AccessKeeps, DiskettesAssumption
<1>2. ASSUME NEW i \in Drives, Tick(i) PROVE IInv'
  BY <1>2, TickKeeps
<1>3. CASE Frontend
  BY <1>3, InsertKeeps, EjectKeeps, FlushKeeps DEF Frontend
<1>4. CASE Reset
  BY <1>4, ResetKeeps
<1>5. CASE UNCHANGED vars
  <2>1. FilesOK' /\ OneHolder' /\ drive' = [d \in Drives |-> drive'[d]]
    BY <1>5 DEF vars, IInv, FilesOK, OneHolder, Holds, Followed
  <2>2. ASSUME NEW d \in Drives PROVE DriveGood(d)'
    BY <1>5 DEF vars, IInv, DriveGood, Followed, Stopped
  <2> QED
    BY <2>1, <2>2 DEF IInv
<1> QED
  BY <1>1, <1>2, <1>3, <1>4, <1>5 DEF Next

\* Every variable keeps its type: a track under the head is of the diskette
\* in the drive, and only where it can be written is there one to write back
\* (iwmDrive.go:128-330), for any images, tracks, sectors and data.
THEOREM TypeCorrect == Spec => []TypeOK
BY InvStarts, InvKept, InvIsTyped, PTL DEF Spec

\* With its motor stopped a diskette is as its file, for any images, whatever
\* the machine and the frontend did, unless the host failed to write it or the
\* image was put in twice (setMotor and eject, iwmDrive.go:160-180, 520-541).
THEOREM AStoppedDisketteIsSaved == Spec => []StoppedIsSaved
BY InvStarts, InvKept, InvSaves, PTL DEF Spec

-----------------------------------------------------------------------------
(* Leaving.                                                                *)

Leaves(d) ==
  drive[d].disk # None
    /\ (drive'[d].disk = None \/ drive'[d].disk.file # drive[d].disk.file)

\* A diskette that leaves is one that was flushed, and it is in its file.
LEMMA FlushedLeaves ==
  ASSUME IInv, NEW stopped, NEW host, Flushing(stopped, host),
         \A d \in Drives \ stopped : Quiet(drive[d], drive'[d]),
         NEW d \in Drives, Leaves(d), d \notin failed', Followed(drive[d].disk.file)
  PROVE  files'[drive[d].disk.file] = OnDisk(drive[d])
<1>1. d \in stopped
  BY DEF Leaves, Quiet
<1>2. PICK f \in Files : Holds(d, f)
  BY DisketteFields DEF IInv, DriveGood, DriveOK, DriveRecord, Leaves, Holds
<1> QED
  BY <1>1, <1>2, DriveSaved DEF Holds

LEMMA StepLeaves ==
  ASSUME IInv, Next, NEW d \in Drives, Leaves(d), d \notin failed',
         Followed(drive[d].disk.file)
  PROVE  files'[drive[d].disk.file] = OnDisk(drive[d])
<1>1. ASSUME NEW i \in Drives, NEW command, NEW head, NEW move, NEW value,
             move = "write" => value \in Data, Access(i, command, head, move, value)
      PROVE  files'[drive[d].disk.file] = OnDisk(drive[d])
  <2>1. PICK host :
          /\ Flushing(FlushedBy(i, command), host)
          /\ \A c \in Drives \ FlushedBy(i, command) : Quiet(drive[c], drive'[c])
    BY <1>1, AccessFlushes
  <2> QED
    BY <2>1, FlushedLeaves
<1>2. ASSUME NEW i \in Drives, Tick(i) PROVE FALSE
  BY <1>2 DEF Tick, Turned, Leaves, IInv, DriveGood, DriveOK, DriveRecord
<1>3. ASSUME NEW i \in Drives, NEW f \in Files, InsertDiskette(i, f)
      PROVE  files'[drive[d].disk.file] = OnDisk(drive[d])
  <2>1. PICK host : Flushing({i}, host)
    BY <1>3 DEF InsertDiskette, Flushing
  <2>2. \A c \in Drives \ {i} : drive'[c] = drive[c]
    BY <1>3 DEF InsertDiskette, IInv
  <2> QED
    BY <2>1, <2>2, FlushedLeaves DEF Quiet
<1>4. ASSUME NEW i \in Drives, EjectDiskette(i)
      PROVE  files'[drive[d].disk.file] = OnDisk(drive[d])
  <2>1. PICK host : Flushing({i}, host)
    BY <1>4 DEF EjectDiskette, Flushing
  <2>2. \A c \in Drives \ {i} : drive'[c] = drive[c]
    BY <1>4 DEF EjectDiskette, IInv
  <2> QED
    BY <2>1, <2>2, FlushedLeaves DEF Quiet
<1>5. ASSUME FlushDiskettes
      PROVE  files'[drive[d].disk.file] = OnDisk(drive[d])
  <2>1. PICK host : Flushing(Drives, host)
    BY <1>5 DEF FlushDiskettes, Flushing
  <2> QED
    BY <2>1, FlushedLeaves
<1>6. ASSUME Reset
      PROVE  files'[drive[d].disk.file] = OnDisk(drive[d])
  <2> DEFINE turning == {c \in Drives : drive[c].motorOn}
  <2>1. PICK host :
          /\ Flushing(turning, host)
          /\ \A c \in Drives \ turning : Quiet(drive[c], drive'[c])
    BY <1>6, ResetFlushes
  <2> QED
    BY <2>1, FlushedLeaves
<1> QED
  BY <1>1, <1>2, <1>3, <1>4, <1>5, <1>6, DiskettesAssumption DEF Next, Frontend

\* A diskette that comes out leaves in its file all that was on it, for any
\* images, whoever took it out, unless the host failed or the image was put in
\* twice (eject, iwmDrive.go:160-180).
THEOREM ADisketteLeavesItsFile == Spec => LeavesItsFile
<1>1. IInv /\ [Next]_vars =>
        [\A d \in Drives :
           LET disk == drive[d].disk
               then == drive'[d].disk
               left == then = None \/ then.file # disk.file
           IN  disk # None /\ left /\ d \notin failed' /\ Followed(disk.file)
                 => files'[disk.file] = OnDisk(drive[d])]_vars
  BY StepLeaves DEF Leaves
<1> QED
  BY <1>1, InvStarts, InvKept, PTL DEF Spec, LeavesItsFile

-----------------------------------------------------------------------------
(* What is on a diskette.                                                  *)

\* It is what can be made out of the track, and elsewhere the image.
LEMMA OnDiskIs ==
  ASSUME NEW d, DriveOK(d), d.disk # None
  PROVE  OnDisk(d) = [s \in SectorsOf(d.disk.file) |->
           IF d.under # None /\ s[1] = d.under.track /\ s[2] = d.under.side
                /\ s[3] \in Decoded(d.under.bytes)
             THEN d.under.bytes[FirstOf(s[3])] ELSE d.disk.data[s]]
<1>1. /\ FlushTrack(d).disk \in Diskette
      /\ FlushTrack(d).disk.file = d.disk.file
      /\ d.disk \in Diskette
  BY TrackFlushed DEF Quiet, DriveOK, DriveRecord
<1>2. OnDisk(d) = [s \in SectorsOf(d.disk.file) |-> OnDisk(d)[s]]
  BY <1>1, DisketteFields DEF OnDisk, ImagesOf
<1>3. ASSUME NEW s \in SectorsOf(d.disk.file)
      PROVE  OnDisk(d)[s] =
               IF d.under # None /\ s[1] = d.under.track /\ s[2] = d.under.side
                    /\ s[3] \in Decoded(d.under.bytes)
                 THEN d.under.bytes[FirstOf(s[3])] ELSE d.disk.data[s]
  <2>1. CASE d.under = None
    BY <2>1 DEF OnDisk, FlushTrack
  <2>2. CASE d.under # None /\ ~d.under.dirty
    <3>1. OnDisk(d)[s] = d.disk.data[s]
      BY <2>2 DEF OnDisk, FlushTrack
    <3>2. s = <<s[1], s[2], s[3]>>
      BY DEF SectorsOf
    <3>3. ASSUME s[1] = d.under.track, s[2] = d.under.side, s[3] \in Decoded(d.under.bytes)
          PROVE  d.disk.data[s] = d.under.bytes[FirstOf(s[3])]
      BY <2>2, <3>2, <3>3 DEF DriveOK, Agrees
    <3> QED
      BY <2>2, <3>1, <3>3
  <2>3. CASE d.under # None /\ d.under.dirty
    <3>1. ~ReadOnly(d.disk)
      BY <2>3 DEF DriveOK, CanWrite
    <3>2. FlushTrack(d).disk
            = WriteTrack(d.disk, d.under.track, d.under.side, d.under.bytes)
      BY <2>3 DEF FlushTrack, DriveOK, DriveRecord
    <3> QED
      BY <1>1, <2>3, <3>1, <3>2, TrackStored DEF OnDisk
  <2> QED
    BY <2>1, <2>2, <2>3
<1> QED
  BY <1>2, <1>3

\* The same diskette and the same track are the same.
LEMMA OnDiskOfTheSame ==
  ASSUME NEW d, NEW e, DriveOK(d), DriveOK(e), e.disk = d.disk, e.under = d.under
  PROVE  OnDisk(e) = OnDisk(d)
BY DEF OnDisk, FlushTrack, DriveOK, DriveRecord

LEMMA OnDiskLoaded ==
  ASSUME NEW d, DriveOK(d)
  PROVE  LET e == LoadTrack(d) IN
         /\ OnDisk(e) = OnDisk(d)
         /\ e.under # None => e.under.track = e.track /\ e.under.side = e.side
         /\ e.spin = d.spin
<1> DEFINE f == FlushTrack(d)
           under == IF d.side >= SidesOf(d.disk.file) THEN None
                    ELSE [track |-> d.track, side |-> d.side, dirty |-> FALSE,
                          bytes |-> ReadTrack(f.disk, d.track, d.side)]
<1>1. CASE d.disk = None
           \/ (d.under # None /\ d.under.track = d.track /\ d.under.side = d.side)
  BY <1>1 DEF LoadTrack, DriveOK
<1>2. CASE ~(d.disk = None
             \/ (d.under # None /\ d.under.track = d.track /\ d.under.side = d.side))
  <2> DEFINE e == [f EXCEPT !.under = under]
  <2>1. LoadTrack(d) = e
    BY <1>2 DEF LoadTrack
  <2>2. /\ f \in DriveRecord
        /\ f = [d EXCEPT !.disk = f.disk, !.under = f.under]
    BY TrackFlushed DEF DriveOK
  <2>3. under # None => ~under.dirty /\ under.track = d.track /\ under.side = d.side
    OBVIOUS
  <2> HIDE DEF f, under
  <2>4. /\ e.under = under /\ e.disk = f.disk
        /\ e.track = f.track /\ e.side = f.side /\ e.spin = f.spin
    BY <2>2 DEF DriveRecord
  <2>5. f.track = d.track /\ f.side = d.side /\ f.spin = d.spin
    BY <2>2 DEF DriveOK, DriveRecord
  <2>6. FlushTrack(e) = e
    BY <2>3, <2>4 DEF FlushTrack
  <2>7. OnDisk(e) = OnDisk(d)
    BY <2>4, <2>6 DEF OnDisk, f
  <2> QED
    BY <2>1, <2>3, <2>4, <2>5, <2>7
<1> QED
  BY <1>1, <1>2

\* A byte put down changes no sector but the one it is in.
LEMMA OtherSectorsStay ==
  ASSUME NEW bytes \in [Position -> Data], NEW p \in Position, NEW value \in Data,
         NEW n \in 1..Sectors, n # SectorAt(p)
  PROVE  LET then == [bytes EXCEPT ![p] = value] IN
         /\ n \in Decoded(then) <=> n \in Decoded(bytes)
         /\ then[FirstOf(n)] = bytes[FirstOf(n)]
<1> DEFINE then == [bytes EXCEPT ![p] = value]
<1>1. FirstOf(n) \in Position /\ FirstOf(n) # p
  BY FirstIsThere, FirstIsOfItsSector
<1>2. then[FirstOf(n)] = bytes[FirstOf(n)]
  BY <1>1
<1>3. \A q \in Position : SectorAt(q) = n => then[q] = bytes[q]
  OBVIOUS
<1> QED
  BY <1>2, <1>3 DEF Decoded

\* From d to e what is on the diskette changes at most under the head of e,
\* where it can be written.
Touched(d, e) ==
  \/ OnDisk(e) = OnDisk(d)
  \/ LET here == <<e.track, e.side, SectorAt(e.spin)>> IN
     /\ CanWrite(e)
     /\ OnDisk(e) = [OnDisk(d) EXCEPT ![here] = OnDisk(e)[here]]

LEMMA ByteTouches ==
  ASSUME NEW d, DriveOK(d), d.disk # None,
         NEW head, NEW move, NEW value, move = "write" => value \in Data
  PROVE  Touched(d, Moved(d, head, move, value))
<1> DEFINE s == SetSide(d, head)
           l == LoadTrack(s)
<1>1. DriveOK(s) /\ s.disk = d.disk /\ s.under = d.under
  BY DEF SetSide, DriveOK, DriveRecord, CanWrite, Spinning
<1>2. OnDisk(s) = OnDisk(d)
  BY <1>1, OnDiskOfTheSame
<1>3. DriveOK(l) /\ Quiet(s, l)
  BY <1>1, TrackLoaded
<1>4. /\ OnDisk(l) = OnDisk(d)
      /\ l.under # None => l.under.track = l.track /\ l.under.side = l.side
      /\ l.spin = s.spin
  BY <1>1, <1>2, OnDiskLoaded
<1>5. CASE move = "read"
  <2>1. DriveOK(ReadByte(s)) /\ ReadByte(s).disk = l.disk /\ ReadByte(s).under = l.under
    BY <1>3 DEF ReadByte, DriveOK, DriveRecord, CanWrite, Spinning
  <2>2. OnDisk(ReadByte(s)) = OnDisk(l)
    BY <1>3, <2>1, OnDiskOfTheSame
  <2> QED
    BY <1>4, <1>5, <2>2 DEF Moved, Touched
<1>6. CASE move = "write"
  <2>1. CASE ~CanWrite(s) \/ l.under = None
    BY <1>4, <1>6, <2>1 DEF Moved, WriteByte, Touched
  <2>2. CASE ~(~CanWrite(s) \/ l.under = None)
    <3> DEFINE bytes == [l.under.bytes EXCEPT ![s.spin] = value]
               under == [l.under EXCEPT !.bytes = bytes, !.dirty = TRUE]
               e == [l EXCEPT !.byteReady = FALSE, !.under = under]
               here == <<e.track, e.side, SectorAt(e.spin)>>
    <3>1. l.under \in Track /\ l.under.bytes \in [Position -> Data]
          /\ s.spin \in Position /\ value \in Data
      BY <1>1, <1>3, <1>6, <2>2 DEF DriveOK, DriveRecord, Track
    <3>2. Moved(d, head, move, value) = e
      BY <1>3, <1>6, <2>2 DEF Moved, WriteByte, DriveOK, DriveRecord
    <3>3. DriveOK(e) /\ Quiet(d, e)
      BY <1>6, <3>2, ByteMoved
    <3>4. under.bytes = bytes /\ under.track = l.under.track /\ under.side = l.under.side
          /\ under # None
      BY <3>1, NoneAssumption DEF Track
    <3> HIDE DEF under, bytes
    <3>5. e.under = under /\ e.disk = l.disk /\ e.motorOn = l.motorOn
          /\ e.track = l.track /\ e.side = l.side /\ e.spin = l.spin
      BY <1>3 DEF DriveOK, DriveRecord
    <3>6. CanWrite(e)
      BY <1>3, <2>2, <3>5 DEF Quiet, CanWrite, Spinning, ReadOnly
    <3> DEFINE sectors == SectorsOf(l.disk.file)
    <3>7. l.disk # None
      BY <1>1, <1>3 DEF Quiet
    <3>8. OnDisk(e) = [t \in sectors |->
            IF t[1] = l.track /\ t[2] = l.side /\ t[3] \in Decoded(bytes)
              THEN bytes[FirstOf(t[3])] ELSE l.disk.data[t]]
      <4>1. /\ e.under # None /\ e.under.track = l.track /\ e.under.side = l.side
            /\ e.under.bytes = bytes /\ e.disk = l.disk
        BY <1>4, <2>2, <3>4, <3>5
      <4> HIDE DEF e
      <4> QED
        BY <3>3, <3>7, <4>1, OnDiskIs
    <3>9. OnDisk(l) = [t \in sectors |->
            IF t[1] = l.track /\ t[2] = l.side /\ t[3] \in Decoded(l.under.bytes)
              THEN l.under.bytes[FirstOf(t[3])] ELSE l.disk.data[t]]
      BY <1>3, <1>4, <2>2, <3>7, OnDiskIs
    <3>10. ASSUME NEW t \in sectors, t # here PROVE OnDisk(e)[t] = OnDisk(l)[t]
      <4>1. t = <<t[1], t[2], t[3]>> /\ t[3] \in 1..Sectors
        BY DEF SectorsOf
      <4>2. CASE t[1] = l.track /\ t[2] = l.side
        <5>1. t[3] # SectorAt(s.spin)
          BY <1>4, <3>5, <3>10, <4>1, <4>2
        <5>2. /\ t[3] \in Decoded(bytes) <=> t[3] \in Decoded(l.under.bytes)
              /\ bytes[FirstOf(t[3])] = l.under.bytes[FirstOf(t[3])]
          BY <3>1, <4>1, <5>1, OtherSectorsStay DEF bytes
        <5> QED
          BY <3>8, <3>9, <5>2
      <4>3. CASE ~(t[1] = l.track /\ t[2] = l.side)
        BY <3>8, <3>9, <4>3
      <4> QED
        BY <4>2, <4>3
    <3>11. OnDisk(e) = [OnDisk(l) EXCEPT ![here] = OnDisk(e)[here]]
      <4>1. OnDisk(e) = [t \in sectors |-> OnDisk(e)[t]]
        BY <3>8
      <4>2. OnDisk(l) = [t \in sectors |-> OnDisk(l)[t]]
        BY <3>9
      <4> HIDE DEF e, here, sectors
      <4> QED
        BY <3>10, <4>1, <4>2
    <3> QED
      BY <1>4, <3>2, <3>6, <3>11 DEF Touched
  <2> QED
    BY <2>1, <2>2
<1>7. CASE move \notin {"read", "write"}
  BY <1>7 DEF Moved, Touched
<1> QED
  BY <1>5, <1>6, <1>7

LEMMA FlushedOnDisk ==
  ASSUME NEW d, DriveOK(d), Unmarked(d), d.disk # None,
         NEW host, host # "written" => Saves(d)
  PROVE  OnDisk(Flush(d, host)) = OnDisk(d)
<1> DEFINE e == Flush(d, host)
<1>1. (e.under # None => ~e.under.dirty) /\ e.disk.data = FlushTrack(d).disk.data
  BY DriveFlushed
<1>2. FlushTrack(e) = e
  BY <1>1 DEF FlushTrack
<1> QED
  BY <1>1, <1>2 DEF OnDisk

LEMMA StoppedOnDisk ==
  ASSUME NEW d, DriveOK(d), Unmarked(d), d.disk # None,
         NEW host, d.motorOn /\ host # "written" => Saves(d)
  PROVE  OnDisk(SetMotor(d, FALSE, host)) = OnDisk(d)
<1> DEFINE f == Flush(d, host)
           e == SetMotor(d, FALSE, host)
<1>1. CASE ~d.motorOn
  BY <1>1 DEF SetMotor, DriveOK, DriveRecord
<1>2. CASE d.motorOn
  <2>1. DriveOK(f)
    BY <1>2, DriveFlushed
  <2>2. e = [f EXCEPT !.motorOn = FALSE]
    BY <1>2 DEF SetMotor, DriveOK, DriveRecord
  <2>3. DriveOK(e)
    BY <1>2, MotorStopped
  <2>4. e.disk = f.disk /\ e.under = f.under
    <3> HIDE DEF e, f
    <3> QED
      BY <2>1, <2>2 DEF DriveOK, DriveRecord
  <2>5. OnDisk(e) = OnDisk(f)
    BY <2>1, <2>3, <2>4, OnDiskOfTheSame
  <2> QED
    BY <1>2, <2>5, FlushedOnDisk
<1> QED
  BY <1>1, <1>2

\* A command leaves what is on the diskette, if it leaves the diskette.
LEMMA CommandOnDisk ==
  ASSUME NEW d, DriveOK(d), Unmarked(d), d.disk # None, NEW command, command # "eject",
         NEW host, command = "motorOff" /\ d.motorOn /\ host # "written" => Saves(d)
  PROVE  LET e == SetControl(d, command, host) IN
         /\ DriveOK(e) /\ e.disk # None
         /\ OnDisk(e) = OnDisk(d)
<1> DEFINE e == SetControl(d, command, host)
<1>1. CASE command = "motorOff" /\ d.motorOn
  <2> DEFINE f == Flush(d, host)
             m == SetMotor(d, FALSE, host)
  <2>1. e = m
    BY <1>1 DEF SetControl
  <2>2. DriveOK(m) /\ m.disk = f.disk
    BY <1>1, MotorStopped
  <2>3. f.disk # None
    BY <1>1, DriveFlushed
  <2>4. OnDisk(m) = OnDisk(d)
    BY <1>1, StoppedOnDisk
  <2> QED
    BY <2>1, <2>2, <2>3, <2>4
<1>2. CASE ~(command = "motorOff" /\ d.motorOn)
  <2>1. DriveOK(e) /\ Quiet(d, e)
    BY <1>2, CommandIsQuiet
  <2>2. e.disk = d.disk /\ e.under = d.under
    BY <1>2 DEF SetControl, SetMotor, Stepped, DriveOK, DriveRecord
  <2> QED
    BY <2>1, <2>2, OnDiskOfTheSame
<1> QED
  BY <1>1, <1>2

\* An image put in again that is not counted as put in twice is the one that
\* was there.
LEMMA PutInAgain ==
  ASSUME IInv, NEW i \in Drives, NEW f \in Files, InsertDiskette(i, f), f \notin shared',
         Holds(i, f), drive'[i].disk # None
  PROVE  OnDisk(drive'[i]) = OnDisk(drive[i])
<1>1. f \notin InMemory /\ f \notin shared /\ ~Saves(drive[i])
  BY DEF InsertDiskette, Holders, Holds
<1>2. DriveGood(i) /\ DriveOK(drive[i]) /\ drive[i].disk # None /\ drive[i].disk.file = f
  BY DEF IInv, DriveGood, Holds
<1> DEFINE t == FlushTrack(drive[i])
           e == Ejected(drive[i])
           disk == Opened(f, files[f])
           in == [e EXCEPT !.disk = disk, !.under = None]
<1>3. Quiet(drive[i], t) /\ Unmarked(t) /\ t.disk # None /\ t.disk.file = f
  <2>1. Quiet(drive[i], t)
    BY <1>2, TrackFlushed
  <2> QED
    BY <1>2, <2>1, QuietUnmarked DEF DriveGood, Quiet
<1>4. ~t.disk.modified
  BY <1>1, <1>2, <1>3 DEF Saves, NeedsHost, Unmarked
<1>5. t.disk = drive[i].disk
  BY <1>3, <1>4 DEF Quiet
<1>6. files[f] = OnDisk(drive[i])
  BY <1>1, <1>2, <1>4, <1>5 DEF DriveGood, Followed, OnDisk
<1>7. DriveOK(e)
  BY <1>2, DriveEjected
<1>8. drive'[i] = in
  BY <1>1 DEF InsertDiskette, IInv
<1>9. in.disk = disk /\ in.under = None
  BY <1>7 DEF DriveOK, DriveRecord
<1>10. OnDisk(in) = disk.data
  BY <1>9 DEF OnDisk, FlushTrack
<1> QED
  BY <1>6, <1>8, <1>10 DEF Opened

LEMMA StepTouches ==
  ASSUME IInv, Next, NEW d \in Drives, drive'[d] # drive[d],
         drive[d].disk # None, drive'[d].disk # None,
         drive'[d].disk.file = drive[d].disk.file, drive'[d].disk.file \notin shared'
  PROVE  Touched(drive[d], drive'[d])
<1>0. DriveGood(d) /\ DriveOK(drive[d]) /\ Unmarked(drive[d])
  BY DEF IInv, DriveGood
<1>1. ASSUME NEW i \in Drives, NEW command, NEW head, NEW move, NEW value,
             move = "write" => value \in Data, Access(i, command, head, move, value)
      PROVE  Touched(drive[d], drive'[d])
  <2>1. PICK host :
          /\ Flushing(FlushedBy(i, command), host)
          /\ host[i] # "written" => Saves(drive[i])
          /\ drive'[i] = Moved(SetControl(drive[i], command, host[i]), head, move, value)
          /\ \A c \in Drives \ {i} : drive'[c] = drive[c]
    BY <1>1, AccessFlushes
  <2>2. d = i
    BY <2>1
  <2> DEFINE e == SetControl(drive[d], command, host[d])
  <2>3. command # "eject"
    <3>1. ASSUME command = "eject" PROVE FALSE
      <4>1. DriveOK(e) /\ e.disk = None
        BY <1>0, <3>1, DriveEjected DEF SetControl
      <4>2. drive'[d].disk = None
        BY <1>1, <2>1, <2>2, <4>1, ByteMoved DEF Quiet
      <4> QED
        BY <4>2
    <3> QED
      BY <3>1
  <2>4. DriveOK(e) /\ e.disk # None /\ OnDisk(e) = OnDisk(drive[d])
    BY <1>0, <2>1, <2>2, <2>3, CommandOnDisk
  <2>5. Touched(e, drive'[d])
    BY <1>1, <2>1, <2>2, <2>4, ByteTouches
  <2> QED
    BY <2>4, <2>5 DEF Touched
<1>2. ASSUME NEW i \in Drives, Tick(i) PROVE Touched(drive[d], drive'[d])
  <2>1. d = i /\ drive'[d] = Turned(drive[d])
    BY <1>2 DEF Tick, IInv
  <2>2. drive'[d].disk = drive[d].disk /\ drive'[d].under = drive[d].under
    BY <1>0, <2>1 DEF Turned, DriveOK, DriveRecord
  <2>3. DriveOK(drive'[d])
    BY <1>2, TickKeeps DEF IInv, DriveGood
  <2> QED
    BY <1>0, <2>2, <2>3, OnDiskOfTheSame DEF Touched
<1>3. ASSUME NEW i \in Drives, NEW f \in Files, InsertDiskette(i, f)
      PROVE  Touched(drive[d], drive'[d])
  <2>1. d = i
    BY <1>3 DEF InsertDiskette, IInv
  <2>2. drive'[d].disk.file = f
    <3>1. DriveOK(Ejected(drive[i])) /\ Ejected(drive[i]).disk = None
      BY <1>0, <2>1, DriveEjected
    <3> QED
      BY <1>3, <2>1, <3>1 DEF InsertDiskette, IInv, DriveOK, DriveRecord, Opened
  <2>3. OnDisk(drive'[d]) = OnDisk(drive[d])
    BY <1>3, <2>1, <2>2, PutInAgain DEF Holds
  <2> QED
    BY <2>3 DEF Touched
<1>4. ASSUME NEW i \in Drives, EjectDiskette(i) PROVE FALSE
  BY <1>0, <1>4, DriveEjected DEF EjectDiskette, IInv
<1>5. ASSUME FlushDiskettes PROVE Touched(drive[d], drive'[d])
  <2>1. PICK host \in Hosts(Drives) : drive'[d] = Flush(drive[d], host[d])
    BY <1>5 DEF FlushDiskettes
  <2>2. host[d] # "written" => Saves(drive[d])
    BY DEF Hosts
  <2> QED
    BY <1>0, <2>1, <2>2, FlushedOnDisk DEF Touched
<1>6. ASSUME Reset PROVE Touched(drive[d], drive'[d])
  <2> DEFINE turning == {c \in Drives : drive[c].motorOn}
  <2>1. PICK host :
          /\ \A c \in turning : host[c] # "written" => Saves(drive[c])
          /\ \A c \in Drives :
               LET e == SetMotor(drive[c], FALSE, host[c]) IN
               /\ DriveOK(e) /\ DriveOK(drive'[c])
               /\ drive'[c].disk = e.disk /\ drive'[c].under = e.under
    BY <1>6, ResetFlushes
  <2> DEFINE e == SetMotor(drive[d], FALSE, host[d])
  <2>2. OnDisk(drive'[d]) = OnDisk(e)
    BY <2>1, OnDiskOfTheSame
  <2>3. OnDisk(e) = OnDisk(drive[d])
    BY <1>0, <2>1, StoppedOnDisk
  <2> QED
    BY <2>2, <2>3 DEF Touched
<1> QED
  BY <1>1, <1>2, <1>3, <1>4, <1>5, <1>6, DiskettesAssumption DEF Next, Frontend

\* What is on a diskette changes only in the sector under the head, as a byte
\* is written and the diskette is not locked, for any images, tracks, sectors
\* and data (loadTrack, flushTrack and writeByte, iwmDrive.go:248-330).
THEOREM DataChangesUnderTheHead == Spec => OnlyUnderTheHead
<1>1. IInv /\ [Next]_vars =>
        [\A d \in Drives :
           LET then == drive'[d] IN
           then # drive[d] /\ drive[d].disk # None /\ then.disk # None
             /\ then.disk.file = drive[d].disk.file /\ then.disk.file \notin shared'
             => LET here == <<then.track, then.side, SectorAt(then.spin)>> IN
                \/ OnDisk(then) = OnDisk(drive[d])
                \/ /\ CanWrite(then)
                   /\ OnDisk(then) = [OnDisk(drive[d]) EXCEPT ![here] = OnDisk(then)[here]]]_vars
  BY StepTouches DEF Touched
<1> QED
  BY <1>1, InvStarts, InvKept, PTL DEF Spec, OnlyUnderTheHead

\* The lines there are.  With one drive none of them selects the other.
LinesOK == lines \subseteq Switch \cup {"headSelect"}

LEMMA LinesStart == IWMInit => LinesOK
BY DEF IWMInit, LinesOK

LEMMA LinesKept == LinesOK /\ [IWMNext]_iwmVars => LinesOK'
<1> SUFFICES ASSUME LinesOK, [IWMNext]_iwmVars PROVE LinesOK'
  OBVIOUS
<1>1. ASSUME NEW line \in Switch, NEW on \in BOOLEAN, NEW value \in Written \cup {None},
             Touch(line, on, value)
      PROVE  LinesOK'
  BY <1>1 DEF Touch, With, LinesOK
<1>2. ASSUME NEW on \in BOOLEAN, SetHeadSelect(on) PROVE LinesOK'
  BY <1>2 DEF SetHeadSelect, With, LinesOK
<1>3. ASSUME NEW i \in Drives, IWMTick(i) PROVE LinesOK'
  BY <1>3 DEF IWMTick, LinesOK
<1>4. CASE IWMFrontend
  BY <1>4 DEF IWMFrontend, LinesOK
<1>5. CASE IWMReset
  BY <1>5 DEF IWMReset, LinesOK
<1>6. CASE UNCHANGED iwmVars
  BY <1>6 DEF iwmVars, LinesOK
<1> QED
  BY <1>1, <1>2, <1>3, <1>4, <1>5, <1>6 DEF IWMNext

\* SELECT points at a drive there is.
LEMMA SelectedThere ==
  ASSUME NEW l \in SUBSET (Switch \cup {"headSelect"})
  PROVE  Selected(l) \in Drives
BY DiskettesAssumption DEF Selected, Switch

\* A command and a head go together as Diskettes has it.
LEMMA LinesAddress ==
  ASSUME NEW l, NEW command, command \in {CommandOf(l), None}
  PROVE  /\ <<command, None>> \in Addressed
         /\ <<command, HeadOf(l)>> \in Addressed
<1>1. CommandOf(l) \in Command \cup {None}
  BY DEF CommandOf, Command
<1>2. HeadOf(l) \in {None, 0, 1}
  BY DEF HeadOf
<1>3. HeadOf(l) = 0 => CommandOf(l) \in {None, "outwards"}
  <2> SUFFICES ASSUME HeadOf(l) = 0 PROVE CommandOf(l) \in {None, "outwards"}
    OBVIOUS
  <2>1. l \cap {"ca2", "ca1", "ca0", "headSelect"} = {"ca2"}
    BY IWMAssumption DEF HeadOf, Sides
  <2>2. l \cap {"ca1", "ca0", "headSelect"} = {} /\ "ca2" \in l
    BY <2>1
  <2> QED
    BY <2>2 DEF CommandOf
<1>4. HeadOf(l) = 1 => CommandOf(l) = None
  <2> SUFFICES ASSUME HeadOf(l) = 1 PROVE CommandOf(l) = None
    OBVIOUS
  <2>1. l \cap {"ca2", "ca1", "ca0", "headSelect"} = {"ca2", "headSelect"}
    BY IWMAssumption DEF HeadOf, Sides
  <2>2. l \cap {"ca1", "ca0", "headSelect"} = {"headSelect"}
    BY <2>1
  <2> QED
    BY <2>2 DEF CommandOf
<1> QED
  BY <1>1, <1>2, <1>3, <1>4 DEF Addressed, Sides

-----------------------------------------------------------------------------

\* A touch of a switch is an access of Diskettes.
LEMMA TouchIsAccess ==
  ASSUME LinesOK, NEW line \in Switch, NEW on \in BOOLEAN,
         NEW value \in Written \cup {None}, Touch(line, on, value)
  PROVE  Next
<1> DEFINE l == With(line, on)
           command == IF Rising(line, on) THEN CommandOf(l) ELSE None
<1>1. l \in SUBSET (Switch \cup {"headSelect"})
  BY DEF With, LinesOK
<1>2. Selected(l) \in Drives
  BY <1>1, SelectedThere
<1>3. Access(Selected(l), command, HeadOf(l), MoveOf(l, value), value)
  BY DEF Touch
<1>4. <<command, None>> \in Addressed /\ <<command, HeadOf(l)>> \in Addressed
  BY LinesAddress
<1>5. CASE MoveOf(l, value) = "none"
  <2>1. Access(Selected(l), command, None, "none", None)
    BY <1>3, <1>5 DEF Access, Moved
  <2> QED
    BY <1>2, <1>4, <2>1 DEF Next
<1>6. CASE MoveOf(l, value) = "read"
  <2>1. value = None
    BY <1>6 DEF MoveOf
  <2> QED
    BY <1>2, <1>3, <1>4, <1>6, <2>1 DEF Next
<1>7. CASE MoveOf(l, value) = "write"
  <2>1. value \in Written
    BY <1>7 DEF MoveOf
  <2> QED
    BY <1>2, <1>3, <1>4, <1>7, <2>1 DEF Next
<1> QED
  BY <1>5, <1>6, <1>7 DEF MoveOf

LEMMA StepIsAStep == LinesOK /\ [IWMNext]_iwmVars => [Next]_vars
<1> SUFFICES ASSUME LinesOK, [IWMNext]_iwmVars PROVE Next \/ UNCHANGED vars
  BY DEF vars
<1>1. ASSUME NEW line \in Switch, NEW on \in BOOLEAN, NEW value \in Written \cup {None},
             Touch(line, on, value)
      PROVE  Next
  BY <1>1, TouchIsAccess
<1>2. ASSUME NEW on \in BOOLEAN, SetHeadSelect(on) PROVE UNCHANGED vars
  BY <1>2 DEF SetHeadSelect
<1>3. ASSUME NEW i \in Drives, IWMTick(i) PROVE Next
  BY <1>3 DEF IWMTick, Next
<1>4. CASE IWMFrontend
  BY <1>4 DEF IWMFrontend, Next
<1>5. CASE IWMReset
  BY <1>5 DEF IWMReset, Next
<1>6. CASE UNCHANGED iwmVars
  BY <1>6 DEF iwmVars
<1> QED
  BY <1>1, <1>2, <1>3, <1>4, <1>5, <1>6 DEF IWMNext

\* Every behaviour of the machine at the lines of the controller is one of
\* Diskettes: peek and poke, iwm.go:115-235, over the operations of a drive.
THEOREM ControllerImplementsDiskettes == IWMSpec => Spec
<1>1. IWMInit => Init
  BY DEF IWMInit
<1> QED
  BY <1>1, LinesStart, LinesKept, StepIsAStep, PTL DEF IWMSpec, Spec

\* So behind the controller a diskette whose motor has stopped is as its file,
\* one that comes out leaves there what was on it, and what is on it changes
\* only under the head.
THEOREM DiskettesBehindTheController ==
  IWMSpec => []StoppedIsSaved /\ LeavesItsFile /\ OnlyUnderTheHead
BY ControllerImplementsDiskettes, AStoppedDisketteIsSaved, ADisketteLeavesItsFile,
   DataChangesUnderTheHead, PTL

-----------------------------------------------------------------------------
(* What the lines pass by.                                                 *)

\* A drive, as far as its mechanics go.
Shaped(d) ==
  /\ d = [disk |-> d.disk, motorOn |-> d.motorOn, stepToTrack0 |-> d.stepToTrack0,
          track |-> d.track, side |-> d.side, under |-> d.under, spin |-> d.spin,
          byteReady |-> d.byteReady]
  /\ d.motorOn \in BOOLEAN
  /\ d.track \in 0..Tracks - 1

DrivesOK == drive = [d \in Drives |-> drive[d]] /\ \A d \in Drives : Shaped(drive[d])

\* What is done to a drive leaves its head where it is and as it is.
Stays(d, e) == Shaped(e) /\ e.track = d.track /\ e.side = d.side

LEMMA StaysAgain ==
  ASSUME NEW c, NEW d, NEW e, Stays(c, d), Stays(d, e)
  PROVE  Stays(c, e)
BY DEF Stays

LEMMA FlushStays ==
  ASSUME NEW d, Shaped(d), NEW host
  PROVE  Stays(d, FlushTrack(d)) /\ Stays(d, Flush(d, host))
<1>1. Stays(d, FlushTrack(d))
  BY DEF FlushTrack, Stays, Shaped
<1>2. Flush(d, host) = FlushTrack(d)
        \/ \E modified : Flush(d, host) = [FlushTrack(d) EXCEPT !.disk = modified]
  BY DEF Flush
<1>3. Stays(FlushTrack(d), Flush(d, host))
  BY <1>1, <1>2 DEF Stays, Shaped
<1> QED BY <1>1, <1>3, StaysAgain

LEMMA LoadStays ==
  ASSUME NEW d, Shaped(d)
  PROVE  Stays(d, LoadTrack(d))
<1> DEFINE f == FlushTrack(d)
<1>1. Stays(d, f)
  BY FlushStays
<1>2. LoadTrack(d) \in {d, f} \/ \E under : LoadTrack(d) = [f EXCEPT !.under = under]
  <2>1. CASE d.disk = None
    BY <2>1 DEF LoadTrack
  <2>2. CASE d.disk # None /\ d.under # None /\ d.under.track = d.track /\ d.under.side = d.side
    BY <2>2 DEF LoadTrack
  <2>3. CASE ~(d.disk = None)
             /\ ~(d.disk # None /\ d.under # None /\ d.under.track = d.track /\ d.under.side = d.side)
    <3> DEFINE under == IF d.side >= SidesOf(d.disk.file) THEN None
                        ELSE [track |-> d.track, side |-> d.side, dirty |-> FALSE,
                              bytes |-> ReadTrack(f.disk, d.track, d.side)]
    <3>1. LoadTrack(d) = [f EXCEPT !.under = under]
      BY <2>3 DEF LoadTrack
    <3> QED BY <3>1
  <2> QED BY <2>1, <2>2, <2>3
<1> HIDE DEF f
<1>3. Stays(f, LoadTrack(d)) \/ LoadTrack(d) = d
  BY <1>1, <1>2 DEF Stays, Shaped
<1> QED BY <1>1, <1>3, StaysAgain DEF Stays

\* Moving a byte leaves the head on its track, and takes the other head only
\* if the lines address one.
LEMMA MoveStays ==
  ASSUME NEW d, Shaped(d), NEW head, NEW move, NEW value
  PROVE  LET e == Moved(d, head, move, value) IN
         /\ Shaped(e) /\ e.track = d.track
         /\ e.side # d.side => move \in {"read", "write"}
<1> DEFINE s == SetSide(d, head)
           l == LoadTrack(s)
<1>1. Shaped(s) /\ s.track = d.track
  BY DEF SetSide, Shaped
<1>2. Stays(s, l)
  BY <1>1, LoadStays
<1>3. CASE move = "read"
  <2>1. Moved(d, head, move, value) = IF l.under = None THEN l ELSE [l EXCEPT !.byteReady = FALSE]
    BY <1>3 DEF Moved, ReadByte
  <2> HIDE DEF l
  <2>2. Stays(l, Moved(d, head, move, value))
    BY <1>2, <2>1 DEF Stays, Shaped
  <2> QED BY <1>1, <1>2, <1>3, <2>2 DEF Stays
<1>4. CASE move = "write"
  <2>1. Moved(d, head, move, value) = l \/
          \E under : Moved(d, head, move, value) = [l EXCEPT !.byteReady = FALSE, !.under = under]
    BY <1>4 DEF Moved, WriteByte
  <2> HIDE DEF l
  <2>2. Stays(l, Moved(d, head, move, value))
    BY <1>2, <2>1 DEF Stays, Shaped
  <2> QED BY <1>1, <1>2, <1>4, <2>2 DEF Stays
<1>5. CASE move \notin {"read", "write"}
  BY <1>5 DEF Moved
<1> QED BY <1>3, <1>4, <1>5

LEMMA MotorStays ==
  ASSUME NEW d, Shaped(d), NEW on \in BOOLEAN, NEW host
  PROVE  Stays(d, SetMotor(d, on, host))
<1>1. CASE d.motorOn = on
  BY <1>1 DEF SetMotor, Stays
<1>2. CASE ~d.motorOn /\ on
  BY <1>2 DEF SetMotor, Stays, Shaped
<1>3. CASE d.motorOn /\ ~on
  <2> DEFINE f == Flush(d, host)
  <2>1. Stays(d, f)
    BY FlushStays
  <2>2. SetMotor(d, on, host) = [f EXCEPT !.motorOn = FALSE]
    BY <1>3 DEF SetMotor
  <2> HIDE DEF f
  <2> QED BY <2>1, <2>2 DEF Stays, Shaped
<1> QED BY <1>1, <1>2, <1>3 DEF Shaped

\* A command moves the head by a track if it is to step, and else leaves it.
LEMMA CommandSteps ==
  ASSUME NEW d, Shaped(d), NEW command, NEW host
  PROVE  LET e == SetControl(d, command, host) IN
         /\ Shaped(e) /\ e.side = d.side
         /\ e.track # d.track => command = "step" /\ e.track - d.track \in {-1, 1}
<1>1. CASE command = "step"
  <2> DEFINE at == IF d.stepToTrack0 THEN (IF d.track > 0 THEN d.track - 1 ELSE d.track)
                   ELSE (IF d.track < Tracks - 1 THEN d.track + 1 ELSE d.track)
  <2>1. at \in 0..Tracks - 1 /\ (at # d.track => at - d.track \in {-1, 1})
    BY DriveAssumption DEF Shaped
  <2>2. SetControl(d, command, host) = [d EXCEPT !.track = at]
    BY <1>1 DEF SetControl, Stepped
  <2> HIDE DEF at
  <2> QED BY <1>1, <2>1, <2>2 DEF Shaped
<1>2. CASE command = "motorOn"
  BY <1>2, MotorStays DEF SetControl, Stays
<1>3. CASE command = "motorOff"
  BY <1>3, MotorStays DEF SetControl, Stays
<1>4. CASE command \notin {"step", "motorOn", "motorOff"}
  BY <1>4 DEF SetControl, Ejected, Shaped
<1> QED BY <1>1, <1>2, <1>3, <1>4

\* An access of one drive moves the head of that drive, a track for a step,
\* and takes the other head of it only with a byte.
LEMMA AccessMoves ==
  ASSUME DrivesOK, NEW i, NEW command, NEW head, NEW move, NEW value,
         Access(i, command, head, move, value), NEW d \in Drives
  PROVE  /\ DrivesOK'
         /\ drive'[d].track # drive[d].track =>
              d = i /\ command = "step" /\ drive'[d].track - drive[d].track \in {-1, 1}
         /\ drive'[d].side # drive[d].side => move \in {"read", "write"}
<1> PICK host : drive' = [drive EXCEPT ![i] =
                   Moved(SetControl(@, command, host[i]), head, move, value)]
  BY DEF Access
<1>1. ASSUME NEW e \in Drives
      PROVE  /\ Shaped(drive'[e])
             /\ drive'[e].track # drive[e].track =>
                  e = i /\ command = "step" /\ drive'[e].track - drive[e].track \in {-1, 1}
             /\ drive'[e].side # drive[e].side => move \in {"read", "write"}
  <2>1. CASE e # i
    BY <2>1 DEF DrivesOK
  <2>2. CASE e = i
    <3> DEFINE c == SetControl(drive[e], command, host[i])
    <3>1. /\ Shaped(c) /\ c.side = drive[e].side
          /\ c.track # drive[e].track => command = "step" /\ c.track - drive[e].track \in {-1, 1}
      BY CommandSteps DEF DrivesOK
    <3>2. drive'[e] = Moved(c, head, move, value)
      BY <2>2 DEF DrivesOK
    <3> HIDE DEF c
    <3> QED BY <2>2, <3>1, <3>2, MoveStays
  <2> QED BY <2>1, <2>2
<1>2. drive' = [e \in Drives |-> drive'[e]]
  BY DEF DrivesOK
<1> QED BY <1>1, <1>2 DEF DrivesOK

\* Nothing that is done to a drive but an access moves its head, and only a
\* reset takes another.
LEMMA FrontendStays ==
  ASSUME DrivesOK, Frontend
  PROVE  DrivesOK' /\ \A d \in Drives : Stays(drive[d], drive'[d])
<1>1. ASSUME NEW i \in Drives, NEW e, drive' = [drive EXCEPT ![i] = e], Stays(drive[i], e)
      PROVE  DrivesOK' /\ \A d \in Drives : Stays(drive[d], drive'[d])
  BY <1>1 DEF DrivesOK, Stays
<1>2. ASSUME NEW i \in Drives
      PROVE  Stays(drive[i], Ejected(drive[i]))
  <2> PICK d : d = drive[i]
    OBVIOUS
  <2>1. Shaped(d)
    BY DEF DrivesOK
  <2>2. Stays(d, Ejected(d))
    BY <2>1 DEF Ejected, Stays, Shaped
  <2> QED BY <2>2
<1>3. ASSUME NEW i \in Drives, NEW f \in Files, InsertDiskette(i, f)
      PROVE  \E e : drive' = [drive EXCEPT ![i] = e] /\ Stays(drive[i], e)
  <2> PICK host : drive' = [drive EXCEPT ![i] =
            IF Saves(@) /\ host[i] # "written" THEN Ejected(@)
            ELSE [Ejected(@) EXCEPT !.disk = Opened(f, files[f]), !.under = None]]
    BY <1>3 DEF InsertDiskette
  <2> DEFINE out == Ejected(drive[i])
             e == IF Saves(drive[i]) /\ host[i] # "written" THEN out
                  ELSE [out EXCEPT !.disk = Opened(f, files[f]), !.under = None]
  <2>1. drive' = [drive EXCEPT ![i] = e]
    BY DEF DrivesOK
  <2>2. Stays(drive[i], out)
    BY <1>2
  <2> HIDE DEF out
  <2>3. Stays(drive[i], e)
    BY <2>2 DEF Stays, Shaped
  <2> QED BY <2>1, <2>3
<1>4. ASSUME NEW i \in Drives, EjectDiskette(i)
      PROVE  drive' = [drive EXCEPT ![i] = Ejected(drive[i])]
  BY <1>4 DEF EjectDiskette, DrivesOK
<1>5. CASE FlushDiskettes
  <2> PICK host : drive' = [d \in Drives |-> Flush(drive[d], host[d])]
    BY <1>5 DEF FlushDiskettes
  <2>1. ASSUME NEW d \in Drives PROVE Stays(drive[d], drive'[d])
    BY FlushStays DEF DrivesOK
  <2> QED BY <2>1 DEF DrivesOK, Stays
<1> QED BY <1>1, <1>2, <1>3, <1>4, <1>5 DEF Frontend

LEMMA ResetStays ==
  ASSUME DrivesOK, Reset
  PROVE  /\ DrivesOK'
         /\ \A d \in Drives : drive'[d].track = drive[d].track
<1> PICK host : drive' = [d \in Drives |->
                   [SetMotor(drive[d], FALSE, host[d]) EXCEPT
                      !.stepToTrack0 = FALSE, !.side = 0, !.byteReady = FALSE]]
  BY DEF Reset
<1>1. ASSUME NEW d \in Drives
      PROVE  Shaped(drive'[d]) /\ drive'[d].track = drive[d].track
  <2> DEFINE e == SetMotor(drive[d], FALSE, host[d])
  <2>1. Stays(drive[d], e)
    BY MotorStays DEF DrivesOK
  <2>2. drive'[d] = [e EXCEPT !.stepToTrack0 = FALSE, !.side = 0, !.byteReady = FALSE]
    OBVIOUS
  <2> HIDE DEF e
  <2> QED BY <2>1, <2>2 DEF Stays, Shaped
<1> QED BY <1>1 DEF DrivesOK

\* What a step at the lines does to the heads.
LEMMA HeadsMove ==
  ASSUME DrivesOK, [IWMNext]_iwmVars
  PROVE  /\ DrivesOK'
         /\ \A d \in Drives : drive'[d].track # drive[d].track =>
              /\ "lstrb" \notin lines /\ "lstrb" \in lines' /\ d = Selected(lines')
              /\ drive'[d].track - drive[d].track \in {-1, 1}
         /\ \A d \in Drives : drive'[d].side # drive[d].side =>
              \/ lines' = {}
              \/ lines' \cap {"q6", "q7"} = {}
              \/ {"q6", "q7", "enable"} \subseteq lines'
<1>1. ASSUME NEW line \in Switch, NEW on \in BOOLEAN, NEW value \in Written \cup {None},
             Touch(line, on, value), NEW d \in Drives
      PROVE  /\ DrivesOK'
             /\ drive'[d].track # drive[d].track =>
                  /\ "lstrb" \notin lines /\ "lstrb" \in lines' /\ d = Selected(lines')
                  /\ drive'[d].track - drive[d].track \in {-1, 1}
             /\ drive'[d].side # drive[d].side =>
                  lines' \cap {"q6", "q7"} = {} \/ {"q6", "q7", "enable"} \subseteq lines'
  <2> PICK command : /\ command = IF Rising(line, on) THEN CommandOf(lines') ELSE None
                     /\ lines' = With(line, on)
                     /\ Access(Selected(lines'), command, HeadOf(lines'), MoveOf(lines', value), value)
    BY <1>1 DEF Touch
  <2>1. /\ DrivesOK'
        /\ drive'[d].track # drive[d].track =>
             d = Selected(lines') /\ command = "step" /\ drive'[d].track - drive[d].track \in {-1, 1}
        /\ drive'[d].side # drive[d].side => MoveOf(lines', value) \in {"read", "write"}
    BY AccessMoves
  <2>2. command = "step" => "lstrb" \notin lines /\ "lstrb" \in lines'
    <3>1. None # "step"
      BY IWMAssumption DEF Command
    <3> QED BY <3>1 DEF Rising, With
  <2>3. MoveOf(lines', value) \in {"read", "write"} =>
          lines' \cap {"q6", "q7"} = {} \/ {"q6", "q7", "enable"} \subseteq lines'
    BY DEF MoveOf
  <2> QED BY <2>1, <2>2, <2>3
<1>2. ASSUME NEW on \in BOOLEAN, SetHeadSelect(on) PROVE drive' = drive
  BY <1>2 DEF SetHeadSelect, vars
<1>3. ASSUME NEW i \in Drives, IWMTick(i)
      PROVE  DrivesOK' /\ \A d \in Drives : Stays(drive[d], drive'[d])
  <2> PICK e : e = Turned(drive[i])
    OBVIOUS
  <2>1. drive' = [drive EXCEPT ![i] = e]
    BY <1>3 DEF IWMTick, Tick, DrivesOK
  <2>2. Stays(drive[i], e)
    <3> PICK d : d = drive[i]
      OBVIOUS
    <3>1. Shaped(d)
      BY DEF DrivesOK
    <3>2. PICK spin : Turned(d) = [d EXCEPT !.spin = spin, !.byteReady = TRUE]
      BY ZenonT(20) DEF Turned
    <3>3. Stays(d, Turned(d))
      BY <3>1, <3>2 DEF Stays, Shaped
    <3> QED BY <3>3
  <2> QED BY <2>1, <2>2 DEF DrivesOK, Stays
<1>4. CASE IWMFrontend
  BY <1>4, FrontendStays DEF IWMFrontend, Stays
<1>5. CASE IWMReset
  BY <1>5, ResetStays DEF IWMReset
<1>6. CASE UNCHANGED iwmVars
  BY <1>6 DEF iwmVars, vars, DrivesOK
<1>7. ASSUME drive' = drive PROVE DrivesOK'
  BY <1>7 DEF DrivesOK
<1>8. Drives # {}
  BY DiskettesAssumption
<1> QED
  BY <1>1, <1>2, <1>3, <1>4, <1>5, <1>6, <1>7, <1>8 DEF IWMNext, Stays

\* The head of a drive moves once for every time the strobe goes up, and is
\* exchanged for the other only with a byte, for one drive or two and whatever
\* the machine, the front end and the host do (setStrobe, iwm.go:149-162, and
\* applyHeadSelect, 179-198).
THEOREM WhatPassesByDoesNothing == IWMSpec => LinesAreTakenOnce
<1>1. IWMInit => DrivesOK
  <2>1. 0 \in 0..Tracks - 1
    BY DriveAssumption
  <2>2. Shaped(EmptyDrive)
    BY <2>1 DEF EmptyDrive, Shaped
  <2> QED BY <2>2 DEF IWMInit, Init, DrivesOK
<1>2. DrivesOK /\ [IWMNext]_iwmVars => DrivesOK'
  BY HeadsMove
<1>3. DrivesOK /\ [IWMNext]_iwmVars =>
        [\A d \in Drives :
           drive'[d].track # drive[d].track =>
             /\ "lstrb" \notin lines /\ "lstrb" \in lines' /\ d = Selected(lines')
             /\ drive'[d].track - drive[d].track \in {-1, 1}]_iwmVars
  BY HeadsMove
<1>4. DrivesOK /\ [IWMNext]_iwmVars =>
        [\A d \in Drives :
           drive'[d].side # drive[d].side =>
             \/ lines' = {}
             \/ lines' \cap {"q6", "q7"} = {}
             \/ {"q6", "q7", "enable"} \subseteq lines']_iwmVars
  BY HeadsMove
<1> QED
  BY <1>1, <1>2, <1>3, <1>4, PTL DEF IWMSpec, LinesAreTakenOnce, StepsOncePerStrobe, HeadTakenWithAByte

=============================================================================
