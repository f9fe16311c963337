--------------------------------- MODULE IWM ---------------------------------
(***************************************************************************)
(* The floppy controller, iwm.go.  The machine touches one soft switch at  *)
(* a time, reading or writing, and drives the line SEL from the VIA; it    *)
(* may do so in any order.  What a touch comes to in the drive selected is *)
(* an Access of Diskettes, which this module extends and implements.       *)
(***************************************************************************)
EXTENDS Diskettes

\* With one drive the machine leaves SELECT alone.
Switch ==
  {"ca0", "ca1", "ca2", "lstrb", "enable", "q6", "q7"}
    \cup (IF Drives = {0} THEN {} ELSE {"sel"})

VARIABLE lines  \* the lines that are high: the switches, and "headSelect"

iwmVars == <<lines, vars>>

ASSUME IWMAssumption == None \notin Sides /\ None \notin Command

-----------------------------------------------------------------------------
(* What the lines say.                                                     *)

Selected(l) == IF "sel" \in l THEN 1 ELSE 0

\* Mutant of Rising: the level of the strobe, not its edge.
RisingAny(line, on) == line = "lstrb" /\ on

\* The strobe goes up.
Rising(line, on) == line = "lstrb" /\ on /\ "lstrb" \notin lines

\* The control line CA1, CA0 and SEL pick, with the value of CA2.
CommandOf(l) ==
  LET selector == l \cap {"ca1", "ca0", "headSelect"} IN
  CASE selector = {} -> IF "ca2" \in l THEN "outwards" ELSE "inwards"
    [] selector = {"ca0"} /\ "ca2" \notin l -> "step"
    [] selector = {"ca1"} -> IF "ca2" \in l THEN "motorOff" ELSE "motorOn"
    [] selector = {"ca1", "ca0"} /\ "ca2" \in l -> "eject"
    [] OTHER -> None

\* The head, where CA2, CA1, CA0 and SEL pick one of the read data lines.
HeadOf(l) ==
  LET selector == l \cap {"ca2", "ca1", "ca0", "headSelect"} IN
  CASE selector = {"ca2"} -> 0
    [] selector = {"ca2", "headSelect"} -> 1
    [] OTHER -> None

\* What the access comes to: a byte read or written, or a register.
MoveOf(l, value) ==
  CASE value = None /\ l \cap {"q6", "q7"} = {} -> "read"
    [] value # None /\ {"q6", "q7", "enable"} \subseteq l -> "write"
    [] OTHER -> "none"

\* Mutant of HandshakeReady: waits for a drive that is not there.
HandshakeWaits == WriteReady(drive[Selected(lines)])

\* The top bit of the handshake.
HandshakeReady ==
  CanWrite(drive[Selected(lines)]) => WriteReady(drive[Selected(lines)])

-----------------------------------------------------------------------------

With(line, on) == IF on THEN lines \cup {line} ELSE lines \ {line}

\* A switch is touched, in a read (value = None) or in a write.
Touch(line, on, value) ==
  LET l == With(line, on)
      command == IF Rising(line, on) THEN CommandOf(l) ELSE None
  IN  /\ lines' = l
      /\ Access(Selected(l), command, HeadOf(l), MoveOf(l, value), value)

\* The line SEL, from the port A of the VIA.
SetHeadSelect(on) ==
  /\ lines' = With("headSelect", on)
  /\ UNCHANGED vars

IWMTick(i) == Tick(i) /\ UNCHANGED lines

IWMFrontend == Frontend /\ UNCHANGED lines

IWMReset == Reset /\ lines' = {}

IWMInit == Init /\ lines = {}

IWMNext ==
  \/ \E line \in Switch, on \in BOOLEAN, value \in Written \cup {None} : Touch(line, on, value)
  \/ \E on \in BOOLEAN : SetHeadSelect(on)
  \/ \E i \in Drives : IWMTick(i)
  \/ IWMFrontend
  \/ IWMReset

IWMSpec == IWMInit /\ [][IWMNext]_iwmVars

\* Time goes on, and with it the disks that turn.
FairSpec == IWMSpec /\ \A i \in Drives : WF_iwmVars(IWMTick(i))

-----------------------------------------------------------------------------
(* Properties.                                                             *)

\* The head moves once for every time the strobe goes up, one track, in the
\* drive selected (setStrobe, iwm.go:149-162).
StepsOncePerStrobe ==
  [][\A d \in Drives :
       drive'[d].track # drive[d].track =>
         /\ "lstrb" \notin lines /\ "lstrb" \in lines' /\ d = Selected(lines')
         /\ drive'[d].track - drive[d].track \in {-1, 1}]_iwmVars

\* Another head is taken only to move a byte with it, or by a reset: not as
\* the phase lines pass by it on their way to another register
\* (applyHeadSelect, iwm.go:179-198).
HeadTakenWithAByte ==
  [][\A d \in Drives :
       drive'[d].side # drive[d].side =>
         \/ lines' = {}
         \/ lines' \cap {"q6", "q7"} = {}
         \/ {"q6", "q7", "enable"} \subseteq lines']_iwmVars

\* What the lines pass by on their way to a register does nothing.
LinesAreTakenOnce == StepsOncePerStrobe /\ HeadTakenWithAByte

\* A machine that polls the handshake is told to go on, be there a drive to
\* write to or not: a write never waits for ever (handshake, iwm.go:250-266).
WritesGoOn ==
  ("q7" \in lines /\ "q6" \notin lines)
    ~> (HandshakeReady \/ "q6" \in lines \/ "q7" \notin lines)

=============================================================================
