-------------------------- MODULE LocalTalk_proofs ---------------------------
(***************************************************************************)
(* LocalTalk, over UDP and in the machine: what Deliver tells, for any     *)
(* number of frames and any queue; and what the port, the chip and the     *)
(* driver keep between them, whatever the machine sends, the network       *)
(* brings, and the limits are; but for the order in which frames are       *)
(* taken, which needs the limits to be within those of the chip.           *)
(*                                                                         *)
(* The two have nothing in common but that frames go through both.         *)
(***************************************************************************)
EXTENDS UDP, Port, SequenceTheorems, FiniteSetTheorems, WellFoundedInduction,
        TLAPS

-----------------------------------------------------------------------------
(* Over UDP.  The inductive invariant says where every frame is and what   *)
(* each counter counts: queued the frames entered, heard those handed on   *)
(* and counted, seen those counted at the last look, and lost those waited *)
(* for in vain.                                                            *)

\* A frame goes one way: from the queue, in the order sent, to the air, and
\* from there to the other network.
Places ==
  /\ entered \subseteq 1..offered
  /\ \A i \in 1..Len(outgoing) :
       /\ outgoing[i] \in entered
       /\ \A f \in air \cup arrived : f < outgoing[i]
       /\ \A j \in 1..Len(outgoing) : i < j => outgoing[i] < outgoing[j]
  /\ air \cup arrived \subseteq entered
  /\ air \cap arrived = {}
  /\ handing = {} \/ \E f \in arrived : handing = {f}
  /\ counted \subseteq arrived \ handing
  /\ inVain \subseteq entered

\* What each counter counts.
Counters ==
  /\ queued = Cardinality(entered)
  /\ heard = Cardinality(arrived \ handing)
  /\ seen = Cardinality(counted)
  /\ lost = Cardinality(inVain)

UDPIInv == UDPTypeOK /\ Places /\ Counters

\* The sets of frames are finite, and no larger than all of them.
LEMMA FramesAreFinite ==
  ASSUME NEW S \in SUBSET Frames
  PROVE  /\ IsFiniteSet(S)
         /\ Cardinality(S) \in 0..MaxFrames
<1>1. IsFiniteSet(Frames) /\ Cardinality(Frames) = MaxFrames
  BY UDPAssumption, FS_Interval DEF Frames
<1>2. IsFiniteSet(S) /\ Cardinality(S) <= MaxFrames
  BY <1>1, FS_Subset
<1> QED
  BY <1>2, FS_CardinalityType, UDPAssumption

\* How many are left of a set once a part of it is taken away.
LEMMA FramesLeft ==
  ASSUME NEW S \in SUBSET Frames, NEW T \in SUBSET S
  PROVE  Cardinality(S \ T) = Cardinality(S) - Cardinality(T)
<1> DEFINE D == S \ T
<1>1. IsFiniteSet(D) /\ IsFiniteSet(T) /\ IsFiniteSet(S)
  BY FramesAreFinite
<1>2. D \cup T = S /\ D \cap T = {}
  OBVIOUS
<1>3. Cardinality(S) = Cardinality(D) + Cardinality(T) - Cardinality({})
  BY <1>1, <1>2, FS_Union
<1>4. Cardinality(D) \in Nat /\ Cardinality(T) \in Nat /\ Cardinality(S) \in Nat
  BY <1>1, FS_CardinalityType
<1> QED
  BY <1>3, <1>4, FS_EmptySet

\* The counting behind Deliver: of the frames E, those counted, C, and those
\* waited for in vain, V, are as many as all of them only if the rest are no
\* more than those counted twice.
LEMMA TheRest ==
  ASSUME NEW E \in SUBSET Frames, NEW C \in SUBSET E, NEW V \in SUBSET E,
         Cardinality(C) + Cardinality(V) >= Cardinality(E)
  PROVE  Cardinality(E \ (C \cup V)) <= Cardinality(C \cap V)
<1>1. /\ IsFiniteSet(C) /\ IsFiniteSet(V)
      /\ C \cup V \in SUBSET E
  BY FramesAreFinite
<1>2. Cardinality(C \cup V) = Cardinality(C) + Cardinality(V) - Cardinality(C \cap V)
  BY <1>1, FS_Union
<1>3. Cardinality(E \ (C \cup V)) = Cardinality(E) - Cardinality(C \cup V)
  BY <1>1, FramesLeft
<1>4. /\ Cardinality(C) \in Nat /\ Cardinality(V) \in Nat
      /\ Cardinality(E) \in Nat /\ Cardinality(C \cap V) \in Nat
  BY FramesAreFinite
<1> QED
  BY <1>2, <1>3, <1>4

LEMMA InitIInv == UDPInit => UDPIInv
<1> SUFFICES ASSUME UDPInit PROVE UDPIInv
  OBVIOUS
<1>1. UDPTypeOK
  BY UDPAssumption, EmptySeq DEF UDPInit, UDPTypeOK, Frames
<1>2. Places
  BY DEF UDPInit, Places
<1>3. Counters
  BY FS_EmptySet DEF UDPInit, Counters
<1> QED
  BY <1>1, <1>2, <1>3 DEF UDPIInv

\* The frame at the head of the queue leaves it.
LEMMA HeadLeaves ==
  ASSUME UDPIInv, outgoing # <<>>
  PROVE  /\ Tail(outgoing) \in Seq(Frames)
         /\ Len(Tail(outgoing)) <= SendQueue
         /\ Head(outgoing) \in entered
         /\ Head(outgoing) \notin air \cup arrived
         /\ \A i \in 1..Len(Tail(outgoing)) :
              /\ i + 1 \in 1..Len(outgoing)
              /\ Tail(outgoing)[i] = outgoing[i + 1]
              /\ Head(outgoing) < Tail(outgoing)[i]
<1>1. outgoing \in Seq(Frames) /\ Len(outgoing) <= SendQueue
  BY DEF UDPIInv, UDPTypeOK
<1>2. /\ Len(outgoing) \in Nat \ {0}
      /\ Tail(outgoing) \in Seq(Frames)
      /\ Len(Tail(outgoing)) = Len(outgoing) - 1
      /\ \A i \in 1..Len(Tail(outgoing)) : Tail(outgoing)[i] = outgoing[i + 1]
  BY <1>1, HeadTailProperties, EmptySeq
<1>3. Head(outgoing) = outgoing[1]
  BY <1>1
<1>4. \A f \in Frames : f \in Nat
  BY DEF Frames
<1>5. 1 \in 1..Len(outgoing) /\ outgoing[1] \in Frames
  BY <1>1, <1>2, ElementOfSeq
<1> QED
  BY <1>1, <1>2, <1>3, <1>4, <1>5, UDPAssumption DEF UDPIInv, Places

LEMMA NextIInv == UDPIInv /\ [UDPNext]_udpVars => UDPIInv'
<1> SUFFICES ASSUME UDPIInv, [UDPNext]_udpVars PROVE UDPIInv'
  OBVIOUS
<1> USE DEF UDPIInv
<1>1. CASE Receive
  <2>1. CASE HasRoom
    <3> DEFINE s == offered + 1
    <3>1. /\ offered' = s /\ outgoing' = Append(outgoing, s)
          /\ queued' = queued + 1 /\ entered' = entered \cup {s}
          /\ UNCHANGED <<running, lost, deliver, seen, air, handing, arrived, heard,
                         counted, inVain, told>>
      BY <1>1, <2>1 DEF Receive, listener
    <3>2. s \in Frames /\ s \notin entered
      BY <1>1, UDPAssumption DEF Receive, Frames, UDPTypeOK, Places
    <3>3. /\ Len(outgoing') = Len(outgoing) + 1
          /\ outgoing' \in Seq(Frames)
          /\ \A i \in 1..Len(outgoing') :
               outgoing'[i] = IF i = Len(outgoing) + 1 THEN s ELSE outgoing[i]
      BY <3>1, <3>2 DEF UDPTypeOK
    <3>4. Len(outgoing) \in Nat /\ Len(outgoing) < SendQueue
      BY <2>1 DEF HasRoom, UDPTypeOK
    <3>5. Cardinality(entered') = Cardinality(entered) + 1
      BY <3>1, <3>2, FramesAreFinite, FS_AddElement DEF UDPTypeOK
    <3>6. entered' \in SUBSET Frames /\ queued' \in 0..MaxFrames
      BY <3>1, <3>2, <3>5, FramesAreFinite DEF UDPTypeOK, Counters
    <3>7. UDPTypeOK'
      BY SMTT(30), <3>1, <3>2, <3>3, <3>4, <3>6, UDPAssumption DEF UDPTypeOK, Frames
    <3>8. Places'
      <4>1. entered' \subseteq 1..offered'
        BY <3>1 DEF Places, UDPTypeOK
      <4>2. \A i \in 1..Len(outgoing') : outgoing'[i] \in entered'
        BY <3>1, <3>3, <3>4 DEF Places
      <4>3. \A f \in entered : f \in Nat /\ f < s
        BY UDPAssumption DEF Places, UDPTypeOK
      <4>4. \A i \in 1..Len(outgoing) : outgoing'[i] = outgoing[i] /\ outgoing'[i] < s
        <5> TAKE i \in 1..Len(outgoing)
        <5>1. outgoing[i] \in entered
          BY DEF Places
        <5>2. outgoing'[i] = outgoing[i]
          BY <3>3, <3>4
        <5> QED
          BY <4>3, <5>1, <5>2
      <4>5. outgoing'[Len(outgoing) + 1] = s
        BY <3>3, <3>4
      <4>6. \A i \in 1..Len(outgoing') : i \in 1..Len(outgoing) \/ i = Len(outgoing) + 1
        BY <3>3, <3>4
      <4> HIDE DEF s
      <4>7. \A i \in 1..Len(outgoing'), f \in air \cup arrived : f < outgoing'[i]
        <5> TAKE i \in 1..Len(outgoing'), f \in air \cup arrived
        <5>1. CASE i \in 1..Len(outgoing)
          BY <4>4, <5>1 DEF Places
        <5>2. CASE i = Len(outgoing) + 1
          BY <4>3, <4>5, <5>2 DEF Places
        <5> QED
          BY <4>6, <5>1, <5>2
      <4>8. \A i, j \in 1..Len(outgoing') : i < j => outgoing'[i] < outgoing'[j]
        <5> TAKE i, j \in 1..Len(outgoing')
        <5>1. CASE i \in 1..Len(outgoing) /\ j \in 1..Len(outgoing)
          BY <4>4, <5>1 DEF Places
        <5>2. CASE i \in 1..Len(outgoing) /\ j = Len(outgoing) + 1
          BY <4>4, <4>5, <5>2
        <5>3. CASE i = Len(outgoing) + 1
          BY <3>4, <4>6, <5>3
        <5> QED
          BY <4>6, <5>1, <5>2, <5>3
      <4> QED
        BY <3>1, <4>1, <4>2, <4>7, <4>8 DEF Places
    <3>9. Counters'
      BY <3>1, <3>5 DEF Counters
    <3> QED
      BY <3>7, <3>8, <3>9
  <2>2. CASE ~HasRoom
    <3>1. /\ offered' = offered + 1 /\ offered' \in 0..MaxFrames
          /\ UNCHANGED <<running, outgoing, queued, lost, deliver, seen, air, handing,
                         arrived, heard, entered, counted, inVain, told>>
      BY <1>1, <2>2, UDPAssumption DEF Receive, listener, UDPTypeOK
    <3>2. entered \subseteq 1..offered'
      BY <3>1 DEF Places, UDPTypeOK
    <3> QED
      BY <3>1, <3>2 DEF UDPTypeOK, Places, Counters
  <2> QED
    BY <2>1, <2>2
<1>2. CASE CallDeliver
  BY <1>2 DEF CallDeliver, listener, UDPTypeOK, Places, Counters
<1>3. CASE Look
  <2>1. UDPTypeOK'
    BY <1>3 DEF Look, listener, UDPTypeOK
  <2>2. Places' /\ Counters'
    BY <1>3 DEF Look, listener, Places, Counters
  <2> QED
    BY <2>1, <2>2
<1>4. CASE DeliverTrue
  BY <1>4 DEF DeliverTrue, Answer, listener, UDPTypeOK, Places, Counters
<1>5. CASE LookAgain
  BY <1>5 DEF LookAgain, listener, UDPTypeOK, Places, Counters
<1>6. CASE DeliverFalse
  <2>1. /\ counted \in SUBSET entered
        /\ entered \in SUBSET Frames
    BY DEF Places, UDPTypeOK
  <2>2. /\ lost' = Cardinality(entered \ counted)
        /\ inVain' = entered \ counted
    BY <1>6, <2>1, FramesLeft DEF DeliverFalse, LostNow, Counters
  <2>3. lost' \in 0..MaxFrames
    BY <2>1, <2>2, FramesAreFinite
  <2>4. UDPTypeOK'
    BY <1>6, <2>1, <2>2, <2>3 DEF DeliverFalse, Answer, listener, UDPTypeOK
  <2>5. Places' /\ Counters'
    BY <1>6, <2>2 DEF DeliverFalse, Answer, listener, Places, Counters
  <2> QED
    BY <2>4, <2>5
<1>7. CASE SendOut
  <2>1. /\ outgoing # <<>> /\ outgoing' = Tail(outgoing)
        /\ air' = air \cup {Head(outgoing)}
        /\ UNCHANGED <<running, offered, queued, lost, deliver, seen, entered, counted,
                       inVain, told, handing, arrived, heard>>
    BY <1>7 DEF SendOut, program, listener
  <2>2. UDPTypeOK'
    BY <2>1, HeadLeaves DEF UDPTypeOK
  <2>3. Places'
    BY <2>1, HeadLeaves DEF Places
  <2> QED
    BY <2>1, <2>2, <2>3 DEF Counters
<1>8. CASE SendFails
  <2>1. /\ outgoing # <<>> /\ outgoing' = Tail(outgoing)
        /\ UNCHANGED <<running, offered, queued, lost, deliver, seen, entered, counted,
                       inVain, told, air, handing, arrived, heard>>
    BY <1>8 DEF SendFails, program, listener
  <2>2. UDPTypeOK'
    BY <2>1, HeadLeaves DEF UDPTypeOK
  <2>3. Places'
    BY <2>1, HeadLeaves DEF Places
  <2> QED
    BY <2>1, <2>2, <2>3 DEF Counters
<1>9. CASE Close
  BY <1>9 DEF Close, program, listener, UDPTypeOK, Places, Counters
<1>10. ASSUME NEW f \in air, Lose(f) PROVE UDPIInv'
  BY <1>10 DEF Lose, program, listener, UDPTypeOK, Places, Counters
<1>11. ASSUME NEW f \in air, Hand(f) PROVE UDPIInv'
  <2>1. /\ handing = {} /\ handing' = {f}
        /\ air' = air \ {f} /\ arrived' = arrived \cup {f}
        /\ UNCHANGED <<running, offered, outgoing, queued, lost, deliver, seen, entered,
                       counted, inVain, told, heard>>
    BY <1>11 DEF Hand, program
  <2>2. f \notin arrived /\ f \in entered
    BY DEF Places
  <2>3. arrived' \ handing' = arrived \ handing
    BY <2>1, <2>2
  <2>4. Places'
    BY <2>1, <2>2 DEF Places
  <2> QED
    BY <2>1, <2>2, <2>3, <2>4 DEF UDPTypeOK, Counters
<1>12. CASE Count
  <2>1. /\ handing # {} /\ handing' = {} /\ heard' = heard + 1
        /\ UNCHANGED <<running, offered, outgoing, queued, lost, deliver, seen, entered,
                       counted, inVain, told, air, arrived>>
    BY <1>12 DEF Count, program
  <2>2. PICK f \in arrived : handing = {f}
    BY <2>1 DEF Places
  <2>3. Cardinality(arrived) = Cardinality(arrived \ handing) + 1
    <3>1. arrived = (arrived \ handing) \cup {f}
      BY <2>2
    <3>2. IsFiniteSet(arrived \ handing) /\ f \notin arrived \ handing
      BY <2>2, FramesAreFinite DEF UDPTypeOK
    <3> QED
      BY <3>1, <3>2, FS_AddElement
  <2>4. arrived' \ handing' = arrived /\ arrived \in SUBSET Frames
    BY <2>1 DEF UDPTypeOK
  <2>5. heard' = Cardinality(arrived' \ handing') /\ heard' \in 0..MaxFrames
    BY <2>1, <2>3, <2>4, FramesAreFinite DEF Counters
  <2>6. Places'
    BY <2>1 DEF Places
  <2> QED
    BY <2>1, <2>5, <2>6 DEF UDPTypeOK, Counters
<1>13. CASE UNCHANGED udpVars
  BY <1>13 DEF udpVars, UDPTypeOK, Places, Counters
<1> QED
  BY <1>1, <1>2, <1>3, <1>4, <1>5, <1>6, <1>7, <1>8, <1>9, <1>10, <1>11, <1>12, <1>13
  DEF UDPNext

LEMMA IInvHolds == UDPSpec => []UDPIInv
BY InitIInv, NextIInv, PTL DEF UDPSpec

\* The types, and the bounds on the queue and the counters, for any number of
\* frames and any queue (udp.go:44-79).
THEOREM UDPTypeCorrect == UDPSpec => []UDPTypeOK
BY IInvHolds, PTL DEF UDPIInv

\* A true Deliver misses only what was waited for in vain, and as many as came
\* in late (udp.go:187-208): the counting is in lemma TheRest.
THEOREM DeliverIsTrueButForTheLate == UDPSpec => []TrueButForTheLate
<1>1. UDPInit => TrueButForTheLate
  BY FS_EmptySet DEF UDPInit, TrueButForTheLate
<1>2. ASSUME UDPIInv, TrueButForTheLate, [UDPNext]_udpVars PROVE TrueButForTheLate'
  <2> SUFFICES ASSUME told'.ok
               PROVE  Cardinality(told'.missing \ inVain')
                        <= Cardinality(inVain' \cap arrived')
    BY DEF TrueButForTheLate
  <2>1. CASE DeliverTrue
    <3>1. /\ told'.missing = entered \ arrived
          /\ UNCHANGED <<inVain, arrived>>
          /\ Cardinality(counted) + Cardinality(inVain) >= Cardinality(entered)
      BY <1>2, <2>1 DEF DeliverTrue, Answer, AllHeard, UDPIInv, Counters, listener
    <3>2. /\ entered \in SUBSET Frames /\ inVain \in SUBSET entered
          /\ counted \in SUBSET entered /\ counted \subseteq arrived
      BY <1>2 DEF UDPIInv, UDPTypeOK, Places
    <3>3. Cardinality(entered \ (counted \cup inVain)) <= Cardinality(counted \cap inVain)
      BY <3>1, <3>2, TheRest
    <3> DEFINE missed == (entered \ arrived) \ inVain
               rest == entered \ (counted \cup inVain)
               twice == counted \cap inVain
               late == inVain \cap arrived
    <3>4. /\ IsFiniteSet(rest) /\ missed \in SUBSET rest
          /\ IsFiniteSet(late) /\ twice \in SUBSET late
      BY <3>2, FramesAreFinite
    <3>5. Cardinality(missed) <= Cardinality(rest) /\ Cardinality(twice) <= Cardinality(late)
      BY <3>4, FS_Subset
    <3>6. /\ Cardinality(missed) \in Nat /\ Cardinality(rest) \in Nat
          /\ Cardinality(twice) \in Nat /\ Cardinality(late) \in Nat
      BY <3>2, FramesAreFinite
    <3> QED
      BY <3>1, <3>3, <3>5, <3>6
  <2>2. CASE DeliverFalse
    BY <1>2, <2>2 DEF DeliverFalse, Answer
  <2>3. CASE ~DeliverTrue /\ ~DeliverFalse
    <3>1. told' = told /\ inVain' = inVain /\ arrived \subseteq arrived'
      BY <1>2, <2>3 DEF UDPNext, udpVars, Receive, CallDeliver, Look, LookAgain, SendOut, SendFails,
                        Close, Lose, Hand, Count, program, listener
    <3>2. inVain \in SUBSET Frames
      BY <1>2 DEF UDPIInv, UDPTypeOK
    <3> DEFINE early == inVain \cap arrived
               late == inVain' \cap arrived'
    <3>3. IsFiniteSet(late) /\ early \in SUBSET late /\ early \in SUBSET Frames
      BY <3>1, <3>2, FramesAreFinite
    <3>4. Cardinality(early) <= Cardinality(late)
      BY <3>3, FS_Subset
    <3>5. Cardinality(told.missing \ inVain) <= Cardinality(early)
      BY <1>2, <3>1 DEF TrueButForTheLate
    <3>6. /\ Cardinality(early) \in Nat /\ Cardinality(late) \in Nat
          /\ Cardinality(told.missing \ inVain) \in Nat
      <4>1. told.missing \ inVain \in SUBSET Frames
        BY <1>2 DEF UDPIInv, UDPTypeOK
      <4> QED
        BY <3>3, <4>1, FramesAreFinite, FS_CardinalityType
    <3> QED
      BY <3>1, <3>4, <3>5, <3>6
  <2> QED
    BY <2>1, <2>2, <2>3
<1> QED
  BY <1>1, <1>2, IInvHolds, PTL DEF UDPSpec

\* A false Deliver is right that a frame had not come in (udp.go:197-204).
THEOREM DeliverIsFalseForAReason == UDPSpec => []FalseMeansMissing
<1>1. UDPInit => FalseMeansMissing
  BY DEF UDPInit, FalseMeansMissing
<1>2. ASSUME UDPIInv, FalseMeansMissing, [UDPNext]_udpVars PROVE FalseMeansMissing'
  <2>1. CASE DeliverFalse
    <3>1. /\ inVain' = entered \ counted
          /\ ~(seen + lost >= queued)
      BY <2>1 DEF DeliverFalse, AllHeard
    <3>2. seen < queued /\ seen \in Nat /\ queued \in Nat
      BY <1>2, <3>1 DEF UDPIInv, UDPTypeOK
    <3>3. /\ Cardinality(entered \ counted) = queued - seen
      BY <1>2, FramesLeft DEF UDPIInv, UDPTypeOK, Places, Counters
    <3> QED
      BY <3>1, <3>2, <3>3, FS_EmptySet DEF FalseMeansMissing
  <2>2. CASE DeliverTrue
    BY <2>2 DEF DeliverTrue, Answer, FalseMeansMissing
  <2>3. CASE ~DeliverTrue /\ ~DeliverFalse
    BY <1>2, <2>3 DEF UDPNext, udpVars, Receive, CallDeliver, Look, LookAgain, SendOut, SendFails,
                      Close, Lose, Hand, Count, program, listener, FalseMeansMissing
  <2> QED
    BY <2>1, <2>2, <2>3
<1> QED
  BY <1>1, <1>2, IInvHolds, PTL DEF UDPSpec

\* Whatever Deliver tells is so, for any number of frames and any queue
\* (udp.go:187-208).
THEOREM DeliverTellsTheTruth == UDPSpec => []DeliverTells
BY DeliverIsTrueButForTheLate, DeliverIsFalseForAReason, PTL DEF DeliverTells

-----------------------------------------------------------------------------
(* What things are.                                                        *)

\* A frame on its way is not empty.
Frame == Seq(Nat) \ {<<>>}

Received == [value : Nat, endOfFrame : BOOLEAN]

\* What is written in a register here: its flags, or an address.
Flag == {"sdlc", "rx", "search", "tx", "external", "dcd", "rx first"} \union Nat

Channel ==
  [txFrame : Seq(Nat), txUnderrunEom : BOOLEAN,
   rxQueue : Seq(Frame), rxWire : Seq(Nat), rxPosition : Nat,
   rxAccepted : BOOLEAN, rxQuiet : BOOLEAN, rxFifo : Seq(Received),
   rxArmed : BOOLEAN, rxInterrupt : BOOLEAN, specialInterrupt : BOOLEAN,
   endOfFrame : BOOLEAN, overrun : BOOLEAN, lineQuiet : BOOLEAN,
   toLink : Seq(Nat), pointer : Nat,
   write : [Registers -> SUBSET Flag],
   dcd : BOOLEAN, dcdLatched : BOOLEAN, extInterrupt : BOOLEAN,
   txByte : Seq(Nat), txBuffer : Seq(Nat), txInterrupt : BOOLEAN,
   toSink : Seq(Nat)]

\* What a step of the chip leaves as it was.
SameSent(c, d) ==
  /\ d.txFrame = c.txFrame /\ d.txUnderrunEom = c.txUnderrunEom
  /\ d.txByte = c.txByte /\ d.txBuffer = c.txBuffer /\ d.toLink = c.toLink

SameWire(c, d) ==
  d.rxWire = c.rxWire /\ d.rxPosition = c.rxPosition /\ d.rxQuiet = c.rxQuiet

\* What is of the receiver's alone, and nothing the wire or the network sees.
Aside(c, d) ==
  /\ d \in Channel
  /\ SameSent(c, d) /\ SameWire(c, d)
  /\ d.write = c.write /\ d.rxQueue = c.rxQueue

LEMMA AsideAgain ==
  ASSUME NEW b, NEW c, NEW d, Aside(b, c), Aside(c, d)
  PROVE  Aside(b, d)
BY DEF Aside, SameSent, SameWire

-----------------------------------------------------------------------------
(* The chip.                                                               *)

LEMMA FreshIs ==
  /\ Fresh \in Channel
  /\ Fresh.txFrame = <<>> /\ Fresh.txUnderrunEom /\ Fresh.txBuffer = <<>>
  /\ Fresh.toLink = <<>> /\ Fresh.rxWire = <<>>
BY DEF Fresh, Channel

LEMMA ReceiveFrameIs ==
  ASSUME NEW c \in Channel, NEW f \in Seq(Nat)
  PROVE  LET d == ReceiveFrame(c, f) IN
         /\ d \in Channel /\ SameSent(c, d) /\ SameWire(c, d) /\ d.write = c.write
         /\ \/ d = c
            \/ /\ f # <<>>
               /\ d.rxQueue = Append(IF Len(c.rxQueue) >= MaxQueued THEN Tail(c.rxQueue)
                                     ELSE c.rxQueue, f)
<1> DEFINE q == Append(IF Len(c.rxQueue) >= MaxQueued THEN Tail(c.rxQueue) ELSE c.rxQueue, f)
<1>1. ASSUME f # <<>> PROVE q \in Seq(Frame)
  <2>1. c.rxQueue \in Seq(Frame) /\ f \in Frame
    BY <1>1 DEF Channel, Frame
  <2>2. Len(c.rxQueue) >= MaxQueued => c.rxQueue # <<>>
    BY <2>1, PortAssumption
  <2> QED BY <2>1, <2>2
<1>2. CASE ~IsSdlc(c) \/ f = <<>>
  BY <1>2 DEF ReceiveFrame, SameSent, SameWire
<1>3. CASE ~(~IsSdlc(c) \/ f = <<>>)
  <2>1. ReceiveFrame(c, f) = [c EXCEPT !.rxQueue = q]
    BY <1>3 DEF ReceiveFrame
  <2> HIDE DEF q
  <2>2. [c EXCEPT !.rxQueue = q] \in Channel
    BY <1>1, <1>3 DEF Channel
  <2> QED BY <1>3, <2>1, <2>2, ZenonT(30) DEF SameSent, SameWire, Channel, q
<1> QED BY <1>2, <1>3

LEMMA AnswerFrameIs ==
  ASSUME NEW c \in Channel, NEW f \in Seq(Nat)
  PROVE  LET d == AnswerFrame(c, f) IN
         /\ d \in Channel /\ SameSent(c, d) /\ d.write = c.write
         /\ d.rxWire = c.rxWire /\ d.rxPosition = c.rxPosition
         /\ IF IsSdlc(c) /\ f # <<>>
            THEN d.rxQueue = <<f>> \o c.rxQueue /\ ~d.rxQuiet
            ELSE d = c
<1> DEFINE q == <<f>> \o c.rxQueue
<1>1. ASSUME f # <<>> PROVE q \in Seq(Frame)
  <2>1. c.rxQueue \in Seq(Frame) /\ f \in Frame
    BY <1>1 DEF Channel, Frame
  <2> QED BY <2>1
<1>2. CASE ~IsSdlc(c) \/ f = <<>>
  BY <1>2 DEF AnswerFrame, SameSent
<1>3. CASE ~(~IsSdlc(c) \/ f = <<>>)
  <2>1. AnswerFrame(c, f) = [c EXCEPT !.rxQueue = q, !.rxQuiet = FALSE]
    BY <1>3 DEF AnswerFrame
  <2> HIDE DEF q
  <2>2. [c EXCEPT !.rxQueue = q, !.rxQuiet = FALSE] \in Channel
    BY <1>1, <1>3 DEF Channel
  <2> QED BY <1>3, <2>1, <2>2 DEF SameSent, Channel, q
<1> QED BY <1>2, <1>3

LEMMA FrameStartsIs ==
  ASSUME NEW c \in Channel, c.rxQueue # <<>>
  PROVE  LET d == FrameStarts(c) IN
         /\ d \in Channel /\ SameSent(c, d) /\ d.write = c.write
         /\ d.rxPosition < Len(d.rxWire)
<1> DEFINE q == Tail(c.rxQueue)
           w == c.rxQueue[1] \o Crc
<1>1. q \in Seq(Frame) /\ w \in Seq(Nat) /\ 0 < Len(w)
  <2>1. c.rxQueue \in Seq(Frame)
    BY DEF Channel
  <2>2. c.rxQueue[1] \in Seq(Nat)
    BY <2>1 DEF Frame
  <2>3. Crc \in Seq(Nat) /\ Len(Crc) = 2
    BY DEF Crc
  <2>4. ASSUME NEW f \in Seq(Nat), NEW g \in Seq(Nat)
        PROVE  f \o g \in Seq(Nat) /\ Len(f \o g) = Len(f) + Len(g)
    OBVIOUS
  <2> QED BY <2>1, <2>2, <2>3, <2>4
<1>2. FrameStarts(c) = [c EXCEPT !.rxQueue = q, !.rxWire = w, !.rxPosition = 0, !.lineQuiet = FALSE]
  BY DEF FrameStarts
<1> HIDE DEF q, w
<1> DEFINE d == [c EXCEPT !.rxQueue = q, !.rxWire = w, !.rxPosition = 0, !.lineQuiet = FALSE]
<1>3. d \in Channel
  BY <1>1 DEF Channel
<1>4. SameSent(c, d) /\ d.write = c.write
  BY DEF Channel, SameSent
<1>5. d.rxPosition = 0 /\ d.rxWire = w
  BY DEF Channel
<1> QED BY <1>1, <1>2, <1>3, <1>4, <1>5

LEMMA PushReceivedIs ==
  ASSUME NEW c \in Channel, NEW e \in Received
  PROVE  Aside(c, PushReceived(c, e))
<1> DEFINE over == c.overrun \/ Len(c.rxFifo) = FifoSize
           first == "rx first" \in c.write[1]
           all == "rx all" \in c.write[1]
           special == first \/ all \/ "rx special" \in c.write[1]
           fifo == IF Len(c.rxFifo) = FifoSize THEN c.rxFifo ELSE Append(c.rxFifo, e)
           i == c.rxInterrupt \/ all \/ (first /\ c.rxArmed)
           a == c.rxArmed /\ ~first
           s == c.specialInterrupt \/ (special /\ (e.endOfFrame \/ over))
           d == [c EXCEPT !.rxFifo = fifo, !.overrun = over, !.rxInterrupt = i,
                          !.rxArmed = a, !.specialInterrupt = s]
<1>1. PushReceived(c, e) = d
  BY DEF PushReceived
<1>2. fifo \in Seq(Received)
  BY DEF Channel
<1>3. over \in BOOLEAN /\ i \in BOOLEAN /\ a \in BOOLEAN /\ s \in BOOLEAN
  BY DEF Channel, Received
<1> HIDE DEF over, first, all, special, fifo, i, a, s
<1>4. d \in Channel
  BY <1>2, <1>3 DEF Channel
<1>5. SameSent(c, d) /\ SameWire(c, d) /\ d.write = c.write /\ d.rxQueue = c.rxQueue
  BY DEF Channel, SameSent, SameWire
<1> QED BY <1>1, <1>4, <1>5 DEF Aside

LEMMA ReceiveByteIs ==
  ASSUME NEW c \in Channel, c.rxPosition < Len(c.rxWire)
  PROVE  LET d == ReceiveByte(c) IN
         /\ d \in Channel /\ SameSent(c, d) /\ d.write = c.write /\ d.rxQueue = c.rxQueue
         /\ d.rxWire # <<>> => d.rxPosition < Len(d.rxWire)
<1> DEFINE position == c.rxPosition + 1
           value == c.rxWire[position]
           last == position = Len(c.rxWire)
           accepted == IF position = 1 THEN LetIn(c, value) ELSE c.rxAccepted
           taken == [c EXCEPT !.rxAccepted = accepted, !.rxPosition = position]
           entry == [value |-> value, endOfFrame |-> last]
           pushed == IF accepted /\ "rx" \in c.write[3] THEN PushReceived(taken, entry) ELSE taken
           ext == pushed.extInterrupt \/ ("abort" \in c.write[15] /\ "external" \in c.write[1])
           d == [pushed EXCEPT !.rxWire = <<>>, !.rxPosition = 0, !.rxAccepted = FALSE,
                               !.rxQuiet = TRUE, !.lineQuiet = TRUE, !.extInterrupt = ext]
<1>1. ReceiveByte(c) = IF ~last THEN pushed ELSE d
  BY DEF ReceiveByte
<1>2. position \in 1..Len(c.rxWire) /\ c.rxWire \in Seq(Nat) /\ value \in Nat
  BY SMTT(30) DEF Channel
<1>3. accepted \in BOOLEAN
  BY DEF LetIn, Channel
<1>4. entry \in Received
  BY <1>2 DEF Received
<1>5. taken \in Channel
  <2>1. position \in Nat
    BY DEF Channel
  <2> HIDE DEF accepted, position
  <2> QED BY <2>1, <1>3 DEF Channel
<1>6. /\ SameSent(c, taken) /\ taken.write = c.write /\ taken.rxQueue = c.rxQueue
      /\ taken.rxWire = c.rxWire /\ taken.rxPosition = position
  <2> HIDE DEF accepted, position
  <2> QED BY DEF Channel, SameSent
<1> HIDE DEF taken, accepted, entry
<1>7. /\ pushed \in Channel /\ SameSent(c, pushed) /\ pushed.write = c.write
      /\ pushed.rxQueue = c.rxQueue /\ pushed.rxWire = c.rxWire
      /\ pushed.rxPosition = position
  BY <1>4, <1>5, <1>6, PushReceivedIs DEF Aside, SameSent, SameWire
<1>8. ext \in BOOLEAN
  BY <1>7 DEF Channel
<1> HIDE DEF pushed, ext
<1>9. d \in Channel
  <2>1. <<>> \in Seq(Nat) /\ 0 \in Nat
    OBVIOUS
  <2> QED BY <1>7, <1>8, <2>1, ZenonT(30) DEF Channel
<1>10. SameSent(pushed, d) /\ d.write = pushed.write /\ d.rxQueue = pushed.rxQueue /\ d.rxWire = <<>>
  BY <1>7 DEF Channel, SameSent
<1>11. CASE ~last
  BY <1>1, <1>2, <1>7, <1>11
<1>12. CASE last
  <2> HIDE DEF d
  <2>1. ReceiveByte(c) = d
    BY <1>1, <1>12
  <2> QED BY <2>1, <1>7, <1>9, <1>10 DEF SameSent
<1> QED BY <1>11, <1>12

LEMMA ReadReceivedIs ==
  ASSUME NEW c \in Channel
  PROVE  Aside(c, ReadReceived(c))
<1>1. CASE ~IsSdlc(c) \/ c.rxFifo = <<>>
  BY <1>1 DEF ReadReceived, Aside, SameSent, SameWire
<1>2. CASE ~(~IsSdlc(c) \/ c.rxFifo = <<>>)
  <2> DEFINE rest == Tail(c.rxFifo)
             ended == c.endOfFrame \/ c.rxFifo[1].endOfFrame
             i == c.rxInterrupt /\ "rx first" \notin c.write[1] /\ rest # <<>>
             d == [c EXCEPT !.rxFifo = rest, !.endOfFrame = ended, !.rxInterrupt = i]
  <2>1. ReadReceived(c) = d
    BY <1>2 DEF ReadReceived
  <2>2. c.rxFifo \in Seq(Received) /\ c.rxFifo # <<>>
    BY <1>2 DEF Channel
  <2>3. rest \in Seq(Received) /\ c.rxFifo[1] \in Received
    BY <2>2
  <2>4. ended \in BOOLEAN /\ i \in BOOLEAN
    BY <2>3 DEF Channel, Received
  <2> HIDE DEF rest, ended, i
  <2>5. d \in Channel
    BY <2>3, <2>4 DEF Channel
  <2>6. SameSent(c, d) /\ SameWire(c, d) /\ d.write = c.write /\ d.rxQueue = c.rxQueue
    BY DEF Channel, SameSent, SameWire
  <2> QED BY <2>1, <2>5, <2>6 DEF Aside
<1> QED BY <1>1, <1>2

LEMMA ReceiverCommandIs ==
  ASSUME NEW c \in Channel, NEW command \in {"error reset", "enable rx next char"}
  PROVE  Aside(c, Command(c, command))
BY ZenonT(30) DEF Command, Channel, Aside, SameSent, SameWire

LEMMA DrainedIs ==
  ASSUME NEW c \in Channel
  PROVE  Aside(c, Drained(c))
<1> DEFINE b == [c EXCEPT !.rxFifo = <<>>, !.rxInterrupt = FALSE]
<1>1. Aside(c, b)
  <2>1. <<>> \in Seq(Received)
    OBVIOUS
  <2> QED BY <2>1 DEF Channel, Aside, SameSent, SameWire
<1> HIDE DEF b
<1>2. Drained(c) = Command(Command(b, "error reset"), "enable rx next char")
  BY DEF Drained, b
<1>3. Aside(b, Command(b, "error reset"))
  BY <1>1, ReceiverCommandIs DEF Aside
<1>4. Aside(Command(b, "error reset"), Command(Command(b, "error reset"), "enable rx next char"))
  BY <1>3, ReceiverCommandIs DEF Aside
<1> QED BY <1>1, <1>2, <1>3, <1>4, AsideAgain

LEMMA SetRegisterIs ==
  ASSUME NEW c \in Channel, NEW r \in Registers, NEW value \in SUBSET Flag
  PROVE  LET d == SetRegister(c, r, value) IN
         /\ d \in Channel /\ SameWire(c, d) /\ d.rxQueue = c.rxQueue
         /\ d.write = [c.write EXCEPT ![r] = value]
         /\ d.toLink = c.toLink /\ d.txByte = c.txByte /\ d.txBuffer = c.txBuffer
         /\ d.txUnderrunEom = c.txUnderrunEom
         /\ d.txFrame = IF r = 5 /\ "tx" \in c.write[5] /\ "tx" \notin value THEN <<>> ELSE c.txFrame
<1> DEFINE b == [c EXCEPT !.pointer = r]
           w == [c.write EXCEPT ![r] = value]
           set == [c EXCEPT !.pointer = 0, !.write = w]
<1>1. PointTo(c, r % 8, r >= 8) = b
  BY DEF PointTo, Registers
<1>2. b.pointer = r /\ b.write = c.write
  BY DEF Channel
<1>3. [b EXCEPT !.pointer = 0, !.write[b.pointer] = value] = set
  BY <1>2 DEF Channel
<1>4. w \in [Registers -> SUBSET Flag]
  BY DEF Channel
<1> DEFINE armed == [set EXCEPT !.rxArmed = TRUE]
         arms == r = 1 /\ "rx first" \in value /\ "rx first" \notin c.write[1]
         aborts == r = 5 /\ "tx" \in c.write[5] /\ "tx" \notin value
<1> HIDE DEF b, set, armed
<1>5. SetRegister(c, r, value) = CASE arms -> armed [] aborts -> Abort(set) [] OTHER -> set
  BY <1>1, <1>2, <1>3 DEF SetRegister, Written, armed
<1>6. ~(arms /\ aborts)
  <2>1. r # 1 \/ r # 5
    BY DEF Registers
  <2> QED BY <2>1, Zenon
<1> HIDE DEF arms, aborts
<1> HIDE DEF w
<1>7. /\ set \in Channel /\ SameSent(c, set) /\ SameWire(c, set)
      /\ set.rxQueue = c.rxQueue /\ set.write = w
  BY <1>4 DEF Channel, SameSent, SameWire, set
<1>8. CASE arms
  <2>1. SetRegister(c, r, value) = [set EXCEPT !.rxArmed = TRUE]
    BY <1>5, <1>6, <1>8 DEF armed
  <2>2. ~(r = 5 /\ "tx" \in c.write[5] /\ "tx" \notin value)
    BY <1>6, <1>8, Zenon DEF aborts
  <2> DEFINE d == SetRegister(c, r, value)
  <2>3. /\ d \in Channel /\ SameWire(c, d) /\ d.rxQueue = c.rxQueue /\ d.write = w
        /\ SameSent(c, d)
    BY <2>1, <1>7, ZenonT(30) DEF Channel, SameSent, SameWire
  <2> HIDE DEF d
  <2>4. d.txFrame = IF r = 5 /\ "tx" \in c.write[5] /\ "tx" \notin value THEN <<>> ELSE c.txFrame
    BY <2>2, <2>3, Zenon DEF SameSent
  <2>5. d.write = [c.write EXCEPT ![r] = value]
    BY <2>3, Zenon DEF w
  <2> QED BY <2>3, <2>4, <2>5, Zenon DEF SameSent, d
<1>9. CASE aborts
  <2>1. SetRegister(c, r, value) = [set EXCEPT !.txFrame = <<>>]
    BY <1>5, <1>6, <1>9 DEF Abort
  <2>2. <<>> \in Seq(Nat)
    OBVIOUS
  <2> DEFINE d == SetRegister(c, r, value)
  <2>3. /\ d \in Channel /\ SameWire(c, d) /\ d.rxQueue = c.rxQueue /\ d.write = w
        /\ d.toLink = c.toLink /\ d.txByte = c.txByte /\ d.txBuffer = c.txBuffer
        /\ d.txUnderrunEom = c.txUnderrunEom /\ d.txFrame = <<>>
    BY <2>1, <2>2, <1>7, ZenonT(30) DEF Channel, SameSent, SameWire
  <2> HIDE DEF d
  <2>4. d.txFrame = IF r = 5 /\ "tx" \in c.write[5] /\ "tx" \notin value THEN <<>> ELSE c.txFrame
    BY <1>9, <2>3, Zenon DEF aborts
  <2> QED BY <2>3, <2>4, Zenon DEF d, w
<1>10. CASE ~arms /\ ~aborts
  BY <1>5, <1>7, <1>10 DEF SameSent, w, aborts
<1> QED BY <1>8, <1>9, <1>10

LEMMA TransmitIs ==
  ASSUME NEW c \in Channel, NEW value \in Nat, ~Busy(c)
  PROVE  LET d == Transmit(c, value) IN
         /\ d \in Channel /\ SameWire(c, d) /\ d.rxQueue = c.rxQueue /\ d.write = c.write
         /\ d.toLink = c.toLink /\ d.txBuffer = c.txBuffer /\ d.txUnderrunEom = c.txUnderrunEom
         /\ d.txFrame = IF IsSdlc(c) /\ "tx" \in c.write[5] THEN Append(c.txFrame, value)
                        ELSE c.txFrame
<1> DEFINE f == IF IsSdlc(c) /\ "tx" \in c.write[5] THEN Append(c.txFrame, value) ELSE c.txFrame
<1>1. f \in Seq(Nat) /\ <<value>> \in Seq(Nat)
  BY DEF Channel
<1>2. Transmit(c, value) = [c EXCEPT !.txFrame = f, !.txByte = <<value>>]
  BY DEF Transmit, Channel, Busy
<1> HIDE DEF f
<1>3. [c EXCEPT !.txFrame = f, !.txByte = <<value>>] \in Channel
  BY <1>1 DEF Channel
<1> QED BY <1>2, <1>3 DEF Channel, SameWire, f

\* The transmitter runs dry.
LEMMA DryIs ==
  ASSUME NEW c \in Channel
  PROVE  LET d == Dry(c) IN
         /\ d \in Channel /\ d.write = c.write /\ d.rxQueue = c.rxQueue
         /\ d.rxWire = c.rxWire /\ d.rxPosition = c.rxPosition
         /\ d.txByte = c.txByte /\ d.txBuffer = c.txBuffer
         /\ IF c.txUnderrunEom THEN d = c
            ELSE /\ d.txUnderrunEom /\ d.txFrame = <<>> /\ d.toLink = c.txFrame
                 /\ c.txFrame = <<>> => d.rxQuiet = c.rxQuiet
<1>1. CASE c.txUnderrunEom
  BY <1>1 DEF Dry
<1>2. CASE ~c.txUnderrunEom
  <2> DEFINE quiet == c.rxQuiet \/ c.txFrame # <<>>
             d == [c EXCEPT !.txUnderrunEom = TRUE, !.txFrame = <<>>, !.rxQuiet = quiet,
                            !.toLink = c.txFrame]
  <2>1. Dry(c) = d
    BY <1>2 DEF Dry
  <2>2. quiet \in BOOLEAN /\ (c.txFrame = <<>> => quiet = c.rxQuiet)
    BY DEF Channel
  <2>3. <<>> \in Seq(Nat)
    OBVIOUS
  <2> HIDE DEF quiet
  <2>4. d \in Channel
    BY <2>2, <2>3 DEF Channel
  <2> QED BY <1>2, <2>1, <2>2, <2>4 DEF Channel
<1> QED BY <1>1, <1>2

\* The last byte of those on their way leaves.
LEMMA ByteGoneIs ==
  ASSUME NEW c \in Channel, c.txBuffer = <<>>
  PROVE  LET d == [ByteGone(c) EXCEPT !.toSink = <<>>] IN
         /\ d \in Channel /\ d.write = c.write /\ d.rxQueue = c.rxQueue
         /\ d.rxWire = c.rxWire /\ d.rxPosition = c.rxPosition
         /\ d.txByte = <<>> /\ d.txBuffer = <<>> /\ d.txUnderrunEom \in {TRUE, c.txUnderrunEom}
         /\ IF ~IsSdlc(c) \/ c.txUnderrunEom
            THEN /\ d.txFrame = c.txFrame /\ d.toLink = c.toLink /\ d.rxQuiet = c.rxQuiet
            ELSE /\ d.txUnderrunEom /\ d.txFrame = <<>> /\ d.toLink = c.txFrame
                 /\ c.txFrame = <<>> => d.rxQuiet = c.rxQuiet
<1> DEFINE sink == IF IsSdlc(c) THEN <<>> ELSE c.txByte
           i == c.txInterrupt \/ "txInterrupt" \in c.write[1]
           gone == [c EXCEPT !.toSink = sink, !.txInterrupt = i, !.txByte = c.txBuffer,
                             !.txBuffer = <<>>]
           e == IF IsSdlc(c) THEN Dry(gone) ELSE gone
           d == [e EXCEPT !.toSink = <<>>]
<1>0. <<>> \in Seq(Nat)
  OBVIOUS
<1>1. ByteGone(c) = e
  BY DEF ByteGone
<1>2. sink \in Seq(Nat) /\ i \in BOOLEAN
  BY DEF Channel
<1> HIDE DEF sink, i
<1>3. gone \in Channel
  BY <1>0, <1>2 DEF Channel
<1>4. /\ gone.write = c.write /\ gone.rxQueue = c.rxQueue /\ SameWire(c, gone)
      /\ gone.txByte = <<>> /\ gone.txBuffer = <<>> /\ gone.txUnderrunEom = c.txUnderrunEom
      /\ gone.txFrame = c.txFrame /\ gone.toLink = c.toLink
  BY DEF Channel, SameWire
<1> HIDE DEF gone
<1>5. /\ e \in Channel /\ e.write = gone.write /\ e.rxQueue = gone.rxQueue
      /\ e.rxWire = gone.rxWire /\ e.rxPosition = gone.rxPosition
      /\ e.txByte = gone.txByte /\ e.txBuffer = gone.txBuffer
      /\ IF ~IsSdlc(c) \/ c.txUnderrunEom THEN e = gone
         ELSE /\ e.txUnderrunEom /\ e.txFrame = <<>> /\ e.toLink = c.txFrame
              /\ c.txFrame = <<>> => e.rxQuiet = c.rxQuiet
  <2>1. CASE ~IsSdlc(c)
    BY <1>3, <2>1
  <2>2. CASE IsSdlc(c)
    <3>1. e = Dry(gone)
      BY <2>2
    <3> HIDE DEF e
    <3> QED BY <1>3, <1>4, <2>2, <3>1, DryIs DEF SameWire
  <2> QED BY <2>1, <2>2
<1> HIDE DEF e
<1>6. /\ d \in Channel /\ d.write = e.write /\ d.rxQueue = e.rxQueue /\ SameSent(e, d)
      /\ SameWire(e, d)
  BY <1>0, <1>5 DEF Channel, SameSent, SameWire
<1> HIDE DEF d
<1>7. /\ d \in Channel /\ d.write = c.write /\ d.rxQueue = c.rxQueue
      /\ d.rxWire = c.rxWire /\ d.rxPosition = c.rxPosition
      /\ d.txByte = <<>> /\ d.txBuffer = <<>>
  BY <1>4, <1>5, <1>6 DEF SameSent, SameWire
<1>8. [ByteGone(c) EXCEPT !.toSink = <<>>] = d
  BY <1>1 DEF d
<1>9. CASE ~IsSdlc(c) \/ c.txUnderrunEom
  BY <1>4, <1>5, <1>6, <1>7, <1>8, <1>9 DEF SameSent, SameWire
<1>10. CASE ~(~IsSdlc(c) \/ c.txUnderrunEom)
  BY <1>5, <1>6, <1>7, <1>8, <1>10 DEF SameSent, SameWire
<1> QED BY <1>9, <1>10

\* The latch is reset behind a frame: if its last byte is out it ends at once.
LEMMA ResetUnderrunIs ==
  ASSUME NEW c \in Channel, IsSdlc(c), c.txFrame # <<>>
  PROVE  LET d == Command(c, "reset tx underrun") IN
         /\ d \in Channel /\ d.write = c.write /\ d.rxQueue = c.rxQueue
         /\ d.rxWire = c.rxWire /\ d.rxPosition = c.rxPosition
         /\ d.txByte = c.txByte /\ d.txBuffer = c.txBuffer
         /\ IF Busy(c) THEN /\ ~d.txUnderrunEom /\ d.txFrame = c.txFrame /\ d.toLink = c.toLink
                            /\ d.rxQuiet = c.rxQuiet
            ELSE d.txUnderrunEom /\ d.txFrame = <<>> /\ d.toLink = c.txFrame
<1> DEFINE armed == [c EXCEPT !.txUnderrunEom = FALSE]
<1>1. Command(c, "reset tx underrun") = IF ~Busy(c) THEN Dry(armed) ELSE armed
  BY DEF Command
<1>2. /\ armed \in Channel /\ armed.write = c.write /\ armed.rxQueue = c.rxQueue
      /\ SameWire(c, armed) /\ armed.txByte = c.txByte /\ armed.txBuffer = c.txBuffer
      /\ ~armed.txUnderrunEom /\ armed.txFrame = c.txFrame /\ armed.toLink = c.toLink
  BY DEF Channel, SameWire
<1> HIDE DEF armed
<1>3. CASE Busy(c)
  BY <1>1, <1>2, <1>3 DEF SameWire
<1>4. CASE ~Busy(c)
  <2> DEFINE d == Dry(armed)
  <2>1. /\ d \in Channel /\ d.write = armed.write /\ d.rxQueue = armed.rxQueue
        /\ d.rxWire = armed.rxWire /\ d.rxPosition = armed.rxPosition
        /\ d.txByte = armed.txByte /\ d.txBuffer = armed.txBuffer
        /\ d.txUnderrunEom /\ d.txFrame = <<>> /\ d.toLink = armed.txFrame
    BY <1>2, DryIs
  <2>2. Command(c, "reset tx underrun") = d
    BY <1>1, <1>4
  <2> HIDE DEF d
  <2> QED BY <1>2, <1>4, <2>1, <2>2 DEF SameWire
<1> QED BY <1>3, <1>4

-----------------------------------------------------------------------------
(* Frames put on the wire one after another.                               *)

LEMMA LeastOf ==
  ASSUME NEW S, S \subseteq Nat, S # {}
  PROVE  \E i \in S : \A j \in S : i <= j
<1> DEFINE R == {pair \in Nat \X Nat : pair[1] < pair[2]}
<1>1. IsWellFoundedOn(R, Nat)
  BY NatLessThanWellFounded DEF OpToRel
<1>2. PICK i \in S : \A j \in S : <<j, i>> \notin R
  <2> HIDE DEF R
  <2> QED BY <1>1, WFMin
<1>3. \A j \in S : ~(j < i)
  BY <1>2
<1> QED BY <1>3

\* The fold over the first k frames, and over any of their places.
Folds(g, c, frames, k) ==
  g = [s \in SUBSET (1..k) |->
         IF s = {} THEN c ELSE OnTheWire(g[s \ {Max(s)}], frames[Max(s)])]

LEMMA LastIsMax ==
  ASSUME NEW k \in Nat \ {0}, NEW s \in SUBSET (1..k), k \in s
  PROVE  Max(s) = k
<1>1. \A x \in s : (\A y \in s : x >= y) <=> x = k
  OBVIOUS
<1> QED BY <1>1 DEF Max

LEMMA FoldExists ==
  ASSUME NEW c, NEW frames, NEW n \in Nat
  PROVE  \E g : Folds(g, c, frames, n)
<1> DEFINE Bad == {k \in Nat : ~\E g : Folds(g, c, frames, k)}
<1>1. SUFFICES ASSUME Bad # {} PROVE FALSE
  BY <1>1
<1>2. PICK k \in Bad : \A j \in Bad : k <= j
  <2> HIDE DEF Bad
  <2>1. Bad \subseteq Nat
    BY DEF Bad
  <2> QED BY <1>1, <2>1, LeastOf
<1>3. k # 0
  <2>1. Folds([s \in SUBSET (1..0) |-> c], c, frames, 0)
    <3>1. \A s \in SUBSET (1..0) : s = {}
      OBVIOUS
    <3> QED BY <3>1 DEF Folds
  <2> QED BY <2>1
<1>4. k - 1 \in Nat /\ k - 1 \notin Bad
  BY <1>2, <1>3
<1>5. PICK h : Folds(h, c, frames, k - 1)
  BY <1>4
<1> DEFINE g == [s \in SUBSET (1..k) |->
                   IF k \in s THEN OnTheWire(h[s \ {k}], frames[k]) ELSE h[s]]
<1>6. ASSUME NEW s \in SUBSET (1..k)
      PROVE  g[s] = IF s = {} THEN c ELSE OnTheWire(g[s \ {Max(s)}], frames[Max(s)])
  <2>1. CASE k \in s
    <3>1. Max(s) = k
      BY <2>1, <1>3, LastIsMax
    <3>2. s \ {k} \in SUBSET (1..k) /\ k \notin s \ {k}
      OBVIOUS
    <3> QED BY <2>1, <3>1, <3>2
  <2>2. CASE k \notin s
    <3>1. s \in SUBSET (1..k-1)
      BY <1>4, <2>2
    <3>2. h[s] = IF s = {} THEN c ELSE OnTheWire(h[s \ {Max(s)}], frames[Max(s)])
      BY <1>5, <3>1 DEF Folds
    <3>3. s \ {Max(s)} \in SUBSET (1..k) /\ k \notin s \ {Max(s)}
      BY <2>2
    <3> QED BY <2>2, <3>2, <3>3
  <2> QED BY <2>1, <2>2
<1>7. Folds(g, c, frames, k)
  BY <1>6 DEF Folds
<1> QED BY <1>2, <1>7

\* What a fold gives is the last of a sequence of channels, each the one
\* before it with the next frame put on its wire.
Steps(w, c, frames, n) ==
  /\ w[0] = c
  /\ \A k \in 1..n : w[k] = OnTheWire(w[k - 1], frames[k])
  /\ AllOnTheWire(c, frames) = w[n]

LEMMA FoldSteps ==
  ASSUME NEW c, NEW frames, NEW n \in Nat, DOMAIN frames = 1..n
  PROVE  \E w : Steps(w, c, frames, n)
<1> DEFINE g == CHOOSE g : Folds(g, c, frames, n)
           w == [k \in 0..n |-> g[1..k]]
<1>1. AllOnTheWire(c, frames) = g[1..n]
  BY DEF AllOnTheWire, FoldLeft, MapThenFoldSet, Folds
<1>2. Folds(g, c, frames, n)
  BY FoldExists
<1> HIDE DEF g
<1>3. ASSUME NEW s \in SUBSET (1..n)
      PROVE  g[s] = IF s = {} THEN c ELSE OnTheWire(g[s \ {Max(s)}], frames[Max(s)])
  BY <1>2 DEF Folds
<1>4. w[0] = c
  <2>1. 1..0 = {} /\ {} \in SUBSET (1..n) /\ 0 \in 0..n
    OBVIOUS
  <2>2. g[{}] = c
    BY <1>3, <2>1
  <2> QED BY <2>1, <2>2
<1>5. ASSUME NEW k \in 1..n PROVE w[k] = OnTheWire(w[k - 1], frames[k])
  <2>1. 1..k \in SUBSET (1..n) /\ 1..k # {} /\ k \in Nat \ {0}
    <3>1. k \in 1..k /\ 1..k \subseteq 1..n
      OBVIOUS
    <3> QED BY <3>1
  <2>2. Max(1..k) = k
    BY <2>1, LastIsMax
  <2>3. (1..k) \ {k} = 1..k-1
    OBVIOUS
  <2>4. g[1..k] = OnTheWire(g[1..k-1], frames[k])
    BY <1>3, <2>1, <2>2, <2>3
  <2> QED BY <2>4
<1>6. w[n] = g[1..n]
  OBVIOUS
<1> QED BY <1>1, <1>4, <1>5, <1>6 DEF Steps

\* What a frame from the network leaves of a channel.
Carried(c, d) ==
  /\ d \in Channel /\ SameSent(c, d) /\ d.write = c.write
  /\ d.rxWire = c.rxWire /\ d.rxPosition = c.rxPosition

\* The frame at the head of the queue stays there, behind no new quiet.
HeadKept(c, d, k) ==
  /\ d.rxQuiet = c.rxQuiet
  /\ d.rxQueue # <<>> /\ d.rxQueue[1] = c.rxQueue[1]
  /\ Len(d.rxQueue) <= Len(c.rxQueue) + k

LEMMA ReceiveKeeps ==
  ASSUME NEW c \in Channel, NEW f \in Seq(Nat)
  PROVE  /\ Carried(c, ReceiveFrame(c, f))
         /\ c.rxQueue # <<>> /\ Len(c.rxQueue) < MaxQueued => HeadKept(c, ReceiveFrame(c, f), 1)
<1> DEFINE d == ReceiveFrame(c, f)
<1>1. /\ Carried(c, d) /\ d.rxQuiet = c.rxQuiet
      /\ \/ d = c
         \/ d.rxQueue = Append(IF Len(c.rxQueue) >= MaxQueued THEN Tail(c.rxQueue)
                               ELSE c.rxQueue, f)
  BY ReceiveFrameIs DEF Carried, SameWire
<1> HIDE DEF d
<1>2. ASSUME c.rxQueue # <<>>, Len(c.rxQueue) < MaxQueued PROVE HeadKept(c, d, 1)
  <2>1. c.rxQueue \in Seq(Frame) /\ Len(c.rxQueue) \in Nat
    BY DEF Channel
  <2>2. ASSUME d.rxQueue = Append(c.rxQueue, f)
        PROVE  d.rxQueue # <<>> /\ d.rxQueue[1] = c.rxQueue[1] /\ Len(d.rxQueue) = Len(c.rxQueue) + 1
    <3>1. ASSUME NEW q \in Seq(Frame), q # <<>>
          PROVE  Append(q, f) # <<>> /\ Append(q, f)[1] = q[1] /\ Len(Append(q, f)) = Len(q) + 1
      BY <3>1
    <3> QED BY <1>2, <2>1, <2>2, <3>1
  <2>3. d = c \/ d.rxQueue = Append(c.rxQueue, f)
    BY <1>1, <1>2, <2>1, PortAssumption
  <2> QED BY <1>1, <1>2, <2>1, <2>2, <2>3 DEF HeadKept
<1> QED BY <1>1, <1>2 DEF d

LEMMA OnTheWireKeeps ==
  ASSUME NEW c \in Channel, NEW f \in Frame
  PROVE  /\ Carried(c, OnTheWire(c, f))
         /\ c.rxQueue # <<>> /\ Len(c.rxQueue) < MaxQueued /\ ~IsAck(f)
              => HeadKept(c, OnTheWire(c, f), 1)
<1>1. f \in Seq(Nat)
  BY DEF Frame
<1>2. CASE Len(f) < 3
  <2>1. OnTheWire(c, f) = c
    BY <1>1, <1>2 DEF OnTheWire, IsAck
  <2>2. Len(c.rxQueue) \in Nat
    BY DEF Channel
  <2> QED BY <2>1, <2>2 DEF Carried, HeadKept, SameSent
<1>3. CASE ~(Len(f) < 3) /\ IsAck(f)
  <2>1. OnTheWire(c, f) = AnswerFrame(c, f)
    BY <1>3 DEF OnTheWire
  <2> QED BY <1>1, <1>3, <2>1, AnswerFrameIs DEF Carried
<1>4. CASE ~(Len(f) < 3) /\ ~IsAck(f)
  <2>1. OnTheWire(c, f) = ReceiveFrame(c, f)
    BY <1>4 DEF OnTheWire
  <2> QED BY <1>1, <2>1, ReceiveKeeps
<1> QED BY <1>2, <1>3, <1>4

LEMMA CarriedAgain ==
  ASSUME NEW b, NEW c, NEW d, Carried(b, c), Carried(c, d)
  PROVE  Carried(b, d)
BY DEF Carried, SameSent

\* All that has arrived is put on the wire: unless an ack is among it or there
\* is no room for all of it, the head of the queue stays there.
LEMMA AllOnTheWireKeep ==
  ASSUME NEW c \in Channel, NEW frames \in Seq(Frame)
  PROVE  LET d == AllOnTheWire(c, frames) IN
         /\ Carried(c, d)
         /\ /\ c.rxQueue # <<>> /\ Len(c.rxQueue) + Len(frames) <= MaxQueued
            /\ \A i \in DOMAIN frames : ~IsAck(frames[i])
            => HeadKept(c, d, Len(frames))
<1> DEFINE n == Len(frames)
           Calm == /\ c.rxQueue # <<>> /\ Len(c.rxQueue) + n <= MaxQueued
                   /\ \A i \in 1..n : ~IsAck(frames[i])
<1>1. n \in Nat /\ DOMAIN frames = 1..n /\ \A i \in 1..n : frames[i] \in Frame
  OBVIOUS
<1> HIDE DEF n
<1>2. PICK w : Steps(w, c, frames, n)
  BY <1>1, FoldSteps
<1> DEFINE Good(k) == Carried(c, w[k]) /\ (Calm => HeadKept(c, w[k], k))
           Bad == {k \in 0..n : ~Good(k)}
<1>3. Len(c.rxQueue) \in Nat
  BY DEF Channel
<1>4. Good(0)
  BY <1>2, <1>3 DEF Steps, Carried, HeadKept, SameSent
<1>5. ASSUME NEW k \in 1..n, Good(k - 1) PROVE Good(k)
  <2> DEFINE b == w[k - 1]
             d == w[k]
  <2>1. d = OnTheWire(b, frames[k]) /\ frames[k] \in Frame
    BY <1>1, <1>2 DEF Steps
  <2>2. Carried(c, b) /\ b \in Channel /\ (Calm => HeadKept(c, b, k - 1))
    BY <1>5 DEF Carried
  <2> HIDE DEF b, d
  <2>3. Carried(b, d) /\ (b.rxQueue # <<>> /\ Len(b.rxQueue) < MaxQueued /\ ~IsAck(frames[k])
                            => HeadKept(b, d, 1))
    BY <2>1, <2>2, OnTheWireKeeps
  <2>4. Carried(c, d)
    BY <2>2, <2>3, CarriedAgain
  <2>5. ASSUME Calm PROVE HeadKept(c, d, k)
    <3>1. HeadKept(c, b, k - 1) /\ ~IsAck(frames[k])
      BY <2>2, <2>5
    <3>2. Len(b.rxQueue) \in Nat /\ Len(d.rxQueue) \in Nat
      <4>1. b.rxQueue \in Seq(Frame) /\ d.rxQueue \in Seq(Frame)
        BY <2>2, <2>3 DEF Carried, Channel
      <4> QED BY <4>1
    <3>3. b.rxQueue # <<>> /\ Len(b.rxQueue) < MaxQueued
      <4>1. b.rxQueue # <<>> /\ Len(b.rxQueue) <= Len(c.rxQueue) + (k - 1)
        BY <3>1 DEF HeadKept
      <4>2. Len(c.rxQueue) + n <= MaxQueued /\ MaxQueued \in Nat
        BY <2>5, PortAssumption
      <4> QED BY <1>1, <1>3, <3>2, <4>1, <4>2
    <3>4. HeadKept(b, d, 1)
      BY <2>3, <3>1, <3>3
    <3> QED BY <1>1, <1>3, <3>1, <3>2, <3>4 DEF HeadKept
  <2> QED BY <2>4, <2>5 DEF d
<1>6. Bad = {}
  <2>1. SUFFICES ASSUME Bad # {} PROVE FALSE
    BY <2>1
  <2>2. PICK k \in Bad : \A j \in Bad : k <= j
    <3>1. Bad \subseteq Nat
      BY <1>1
    <3> HIDE DEF Bad
    <3> QED BY <2>1, <3>1, LeastOf
  <2>3. k \in 1..n
    BY <1>1, <1>4, <2>2
  <2>4. k - 1 \in 0..n /\ k - 1 \notin Bad
    BY <1>1, <2>2, <2>3
  <2>5. Good(k - 1)
    BY <2>4
  <2> HIDE DEF Good
  <2> QED BY <1>5, <2>2, <2>3, <2>5
<1>7. Good(n)
  BY <1>1, <1>6
<1> QED BY <1>1, <1>2, <1>7 DEF n, Steps

-----------------------------------------------------------------------------
(* The registers.                                                          *)

\* What writing registers leaves of a channel, but for the registers.
Registered(c, d) ==
  d \in Channel /\ SameSent(c, d) /\ SameWire(c, d) /\ d.rxQueue = c.rxQueue

LEMMA RegisterKeeps ==
  ASSUME NEW c \in Channel, NEW r \in Registers, NEW value \in SUBSET Flag,
         r # 5 \/ "tx" \in value \/ c.txFrame = <<>>
  PROVE  LET d == SetRegister(c, r, value) IN
         /\ Registered(c, d)
         /\ d.write[r] = value /\ (r # 4 => (IsSdlc(d) <=> IsSdlc(c)))
<1> DEFINE d == SetRegister(c, r, value)
<1>1. /\ d \in Channel /\ SameWire(c, d) /\ d.rxQueue = c.rxQueue
      /\ d.write = [c.write EXCEPT ![r] = value]
      /\ d.toLink = c.toLink /\ d.txByte = c.txByte /\ d.txBuffer = c.txBuffer
      /\ d.txUnderrunEom = c.txUnderrunEom
      /\ d.txFrame = IF r = 5 /\ "tx" \in c.write[5] /\ "tx" \notin value THEN <<>> ELSE c.txFrame
  BY SetRegisterIs
<1> HIDE DEF d
<1>2. d.txFrame = c.txFrame
  BY <1>1, Zenon
<1>3. c.write \in [Registers -> SUBSET Flag] /\ 4 \in Registers
  BY DEF Channel, Registers
<1>4. d.write[r] = value /\ (r # 4 => d.write[4] = c.write[4])
  BY <1>1, <1>3
<1>5. Registered(c, d) /\ d.write[r] = value /\ (r # 4 => (IsSdlc(d) <=> IsSdlc(c)))
  BY <1>1, <1>2, <1>4 DEF Registered, SameSent, IsSdlc
<1> QED BY <1>5 DEF d

LEMMA RegisteredAgain ==
  ASSUME NEW b, NEW c, NEW d, Registered(b, c), Registered(c, d)
  PROVE  Registered(b, d)
BY DEF Registered, SameSent, SameWire

LEMMA ListenKeeps ==
  ASSUME NEW c \in Channel
  PROVE  Registered(c, Listen(c)) /\ (IsSdlc(Listen(c)) <=> IsSdlc(c))
<1>1. 3 \in Registers /\ {"rx", "search"} \in SUBSET Flag /\ 3 # 5 /\ 3 # 4
  BY DEF Registers, Flag
<1> QED BY <1>1, RegisterKeeps DEF Listen

LEMMA SendingSets ==
  ASSUME NEW b \in Channel
  PROVE  LET d == SetRegister(SetRegister(b, 3, {}), 5, {"tx"}) IN
         Registered(b, d) /\ "tx" \in d.write[5] /\ (IsSdlc(d) <=> IsSdlc(b))
<1> DEFINE c == SetRegister(b, 3, {})
           d == SetRegister(c, 5, {"tx"})
<1>1. /\ 3 \in Registers /\ {} \in SUBSET Flag /\ 3 # 5 /\ 3 # 4
      /\ 5 \in Registers /\ {"tx"} \in SUBSET Flag /\ 5 # 4 /\ "tx" \in {"tx"}
  BY DEF Registers, Flag
<1>2. Registered(b, c) /\ (IsSdlc(c) <=> IsSdlc(b))
  BY <1>1, RegisterKeeps
<1>3. c \in Channel
  BY <1>2 DEF Registered
<1> HIDE DEF c
<1>4. Registered(c, d) /\ d.write[5] = {"tx"} /\ (IsSdlc(d) <=> IsSdlc(c))
  BY <1>1, <1>3, RegisterKeeps
<1> HIDE DEF d
<1>5. Registered(b, d) /\ "tx" \in d.write[5] /\ (IsSdlc(d) <=> IsSdlc(b))
  BY <1>1, <1>2, <1>4, RegisteredAgain
<1> QED BY <1>5 DEF c, d

LEMMA TurnOnSets ==
  ASSUME NEW c \in Channel
  PROVE  LET mode == SetRegister(SetRegister(c, 4, {"sdlc"}), 6, {Node})
             external == SetRegister(Listen(mode), 15, {"dcd"})
             d == SetRegister(Drained(external), 1, {"external", "rx first"})
         IN  Registered(c, d) /\ IsSdlc(d)
<1> DEFINE a1 == SetRegister(c, 4, {"sdlc"})
           a2 == SetRegister(a1, 6, {Node})
           a3 == Listen(a2)
           a4 == SetRegister(a3, 15, {"dcd"})
           a5 == Drained(a4)
           a6 == SetRegister(a5, 1, {"external", "rx first"})
<1>1. /\ {4, 6, 15, 1} \subseteq Registers
      /\ 4 # 5 /\ 6 # 5 /\ 6 # 4 /\ 15 # 5 /\ 15 # 4 /\ 1 # 5 /\ 1 # 4
  BY DEF Registers
<1>2. /\ {"sdlc"} \in SUBSET Flag /\ {"dcd"} \in SUBSET Flag
      /\ {"external", "rx first"} \in SUBSET Flag /\ {Node} \in SUBSET Flag
  <2>1. Node \in Nat
    BY PortAssumption
  <2> QED BY <2>1 DEF Flag
<1>3. Registered(c, a1) /\ IsSdlc(a1)
  <2>1. 4 \in Registers /\ {"sdlc"} \in SUBSET Flag /\ 4 # 5
    BY <1>1, <1>2
  <2>2. Registered(c, a1) /\ a1.write[4] = {"sdlc"}
    BY <2>1, RegisterKeeps
  <2> QED BY <2>2 DEF IsSdlc
<1> HIDE DEF a1
<1>4. Registered(a1, a2) /\ IsSdlc(a2)
  BY <1>1, <1>2, <1>3, RegisterKeeps, ZenonT(30) DEF Registered
<1> HIDE DEF a2
<1>5. Registered(a2, a3) /\ IsSdlc(a3)
  BY <1>4, ListenKeeps DEF Registered
<1> HIDE DEF a3
<1>6. Registered(a3, a4) /\ IsSdlc(a4)
  BY <1>1, <1>2, <1>5, RegisterKeeps, ZenonT(30) DEF Registered
<1> HIDE DEF a4
<1>7. Registered(a4, a5) /\ IsSdlc(a5)
  BY <1>6, DrainedIs DEF Registered, Aside, IsSdlc
<1> HIDE DEF a5
<1>8. Registered(a5, a6) /\ IsSdlc(a6)
  BY <1>1, <1>2, <1>7, RegisterKeeps, ZenonT(30) DEF Registered
<1> HIDE DEF a6
<1>9. Registered(c, a6)
  BY <1>3, <1>4, <1>5, <1>6, <1>7, <1>8, RegisteredAgain
<1> QED BY <1>8, <1>9 DEF a1, a2, a3, a4, a5, a6

LEMMA TurnOffSets ==
  ASSUME NEW c \in Channel
  PROVE  Registered(c, SetRegister(SetRegister(c, 3, {}), 1, {}))
<1> DEFINE b == SetRegister(c, 3, {})
<1>1. {} \in SUBSET Flag /\ {1, 3} \subseteq Registers /\ 1 # 5 /\ 3 # 5
  BY DEF Registers
<1>2. Registered(c, b) /\ b \in Channel
  BY <1>1, RegisterKeeps DEF Registered
<1> HIDE DEF b
<1>3. Registered(b, SetRegister(b, 1, {}))
  BY <1>1, <1>2, RegisterKeeps
<1>4. Registered(c, SetRegister(b, 1, {}))
  BY <1>2, <1>3, RegisteredAgain
<1> QED BY <1>4 DEF b

LEMMA EndedSets ==
  ASSUME NEW c \in Channel, c.txFrame = <<>>
  PROVE  LET d == Listen(SetRegister(c, 5, {})) IN
         Registered(c, d) /\ (IsSdlc(d) <=> IsSdlc(c))
<1> DEFINE b == SetRegister(c, 5, {})
<1>1. {} \in SUBSET Flag /\ 5 \in Registers /\ 5 # 4
  BY DEF Registers
<1>2. Registered(c, b) /\ (IsSdlc(b) <=> IsSdlc(c)) /\ b \in Channel
  BY <1>1, RegisterKeeps DEF Registered
<1> HIDE DEF b
<1>3. Registered(b, Listen(b)) /\ (IsSdlc(Listen(b)) <=> IsSdlc(b))
  BY <1>2, ListenKeeps
<1>4. Registered(c, Listen(b))
  BY <1>2, <1>3, RegisteredAgain
<1> QED BY <1>2, <1>3, <1>4 DEF b

-----------------------------------------------------------------------------
(* The inductive invariant.                                                *)

\* A frame that the code looks into has three bytes.
Whole == {f \in Seq(Nat) : Len(f) >= 3}

TypeOK ==
  /\ chip \in Channel
  /\ port \in [offered : Whole \union {NoFrame}, offeredLines : Nat, offers : Nat]
  /\ incoming \in Seq(Frame)
  /\ mpp \in [doing : {"off", "listening", "sending", "ending", "reading"},
              in : Seq(Nat), out : Seq(Nat), frame : Seq(Nat),
              then : Whole \union {NoFrame}]
  /\ sent \in Seq(Seq(Nat)) /\ went \in Seq(Seq(Nat)) /\ took \in Seq(Seq(Nat))
  /\ answer \in [frame : Seq(Nat), alone : BOOLEAN]
  /\ counts \in [arrivals : Nat, on : Nat, resets : Nat]

\* The driver has the chip in the SDLC mode, and the wire is within a frame.
Ready ==
  /\ mpp.doing # "off" => IsSdlc(chip)
  /\ chip.rxWire # <<>> => chip.rxPosition < Len(chip.rxWire)

\* One byte is on its way at most and nothing is left to be handed over.
Small == chip.toLink = <<>> /\ chip.txBuffer = <<>>

\* The frame is open, and what is written of it and what is not make it whole.
Open ==
  /\ "tx" \in chip.write[5] /\ chip.txUnderrunEom /\ sent = went
  /\ mpp.frame \in Whole /\ chip.txFrame \o mpp.out = mpp.frame

Given == IF IsHandshake(mpp.frame) THEN went ELSE Append(went, mpp.frame)

\* It is written: its last byte is on the way, or the network has it.
WrittenOut ==
  /\ mpp.frame \in Whole
  /\ \/ /\ ~chip.txUnderrunEom /\ Busy(chip)
        /\ chip.txFrame = mpp.frame /\ sent = Given
     \/ chip.txUnderrunEom /\ chip.txFrame = <<>> /\ sent = went

Silent == chip.txUnderrunEom /\ chip.txFrame = <<>> /\ sent = went

Transmitter ==
  /\ Small
  /\ mpp.doing = "sending" => Open
  /\ mpp.doing = "ending" => WrittenOut
  /\ mpp.doing \notin {"sending", "ending"} => Silent

\* The answer is at the head of the queue, and nothing is before it.
Answered ==
  answer.frame # NoFrame =>
    /\ chip.rxQueue # <<>> /\ chip.rxQueue[1] = answer.frame
    /\ answer.alone => ~chip.rxQuiet /\ chip.rxWire = <<>>

IInv == TypeOK /\ Ready /\ Transmitter /\ Answered

Drivers ==
  [doing : {"off", "listening", "sending", "ending", "reading"},
   in : Seq(Nat), out : Seq(Nat), frame : Seq(Nat), then : Whole \union {NoFrame}]

-----------------------------------------------------------------------------
(* What the steps have in common.                                          *)

\* A step that leaves the transmitter and the driver as they are.
LEMMA SentKeeps ==
  ASSUME IInv, SameSent(chip, chip'), chip'.write = chip.write, UNCHANGED <<mpp, sent, went>>
  PROVE  Transmitter' /\ (mpp'.doing # "off" => IsSdlc(chip'))
<1> USE DEF IInv
<1>1. IsSdlc(chip') <=> IsSdlc(chip)
  BY DEF IsSdlc
<1>2. mpp' = mpp /\ sent' = sent /\ went' = went
  OBVIOUS
<1>3. Small'
  BY DEF SameSent, Small, Transmitter
<1>4. Silent' = Silent
  BY <1>2 DEF SameSent, Silent
<1>5. Open' = Open
  BY <1>2 DEF SameSent, Open
<1>6. WrittenOut' = WrittenOut
  BY <1>2 DEF SameSent, WrittenOut, Busy, Given
<1>7. Transmitter'
  BY <1>2, <1>3, <1>4, <1>5, <1>6 DEF Transmitter
<1> QED BY <1>1, <1>2, <1>7 DEF Ready

\* A step of the driver that only writes registers or reads what came, and
\* neither begins nor ends in the middle of a frame of its own.
LEMMA DriverKeeps ==
  ASSUME IInv, Registered(chip, chip'), mpp' \in Drivers, took' \in Seq(Seq(Nat)),
         counts' \in [arrivals : Nat, on : Nat, resets : Nat],
         UNCHANGED <<port, incoming, sent, went, answer>>,
         mpp'.doing # "off" => IsSdlc(chip'),
         Silent,
         mpp'.doing = "sending" =>
           "tx" \in chip'.write[5] /\ mpp'.frame \in Whole /\ mpp'.out = mpp'.frame,
         mpp'.doing # "ending"
  PROVE  IInv'
<1> USE DEF IInv
<1>1. TypeOK'
  BY DEF TypeOK, Registered, Drivers
<1>2. Ready'
  BY DEF Ready, Registered, SameWire
<1>3. Answered'
  BY DEF Answered, Registered, SameWire
<1>4. Small'
  BY DEF Small, Transmitter, Registered, SameSent
<1>5. Silent'
  BY DEF Silent, Registered, SameSent
<1>6. mpp'.doing = "sending" => Open'
  <2>1. ASSUME NEW f \in Seq(Nat) PROVE <<>> \o f = f
    BY <2>1
  <2>2. mpp'.out \in Seq(Nat)
    BY DEF Drivers
  <2> QED BY <1>5, <2>1, <2>2 DEF Open, Silent
<1>7. Transmitter'
  BY <1>4, <1>5, <1>6 DEF Transmitter
<1> QED BY <1>1, <1>2, <1>3, <1>7

\* The driver starts to send a frame.
LEMMA SendingIs ==
  ASSUME NEW b \in Channel, NEW frame \in Whole, NEW then \in Whole \union {NoFrame},
         Sending(b, frame, then)
  PROVE  /\ Registered(b, chip') /\ mpp' \in Drivers /\ (IsSdlc(chip') <=> IsSdlc(b))
         /\ mpp'.doing = "sending" /\ "tx" \in chip'.write[5]
         /\ mpp'.frame \in Whole /\ mpp'.out = mpp'.frame
<1>1. Registered(b, chip') /\ "tx" \in chip'.write[5] /\ (IsSdlc(chip') <=> IsSdlc(b))
  BY SendingSets DEF Sending
<1>2. mpp' = [doing |-> "sending", in |-> <<>>, out |-> frame, frame |-> frame, then |-> then]
  BY DEF Sending
<1>3. <<>> \in Seq(Nat) /\ frame \in Seq(Nat)
  BY DEF Whole
<1>4. mpp' \in Drivers
  BY <1>2, <1>3 DEF Drivers
<1> QED BY <1>1, <1>2, <1>4

\* A frame the channel b hands to the network gets there, and its answer is
\* the next on the wire.
LEMMA SendFrameIs ==
  ASSUME TypeOK, NEW b \in Channel, SendFrame(b),
         b.toLink # <<>> => IsSdlc(b) /\ b.toLink \in Whole
  PROVE  /\ chip' \in Channel /\ chip'.write = b.write
         /\ chip'.txFrame = b.txFrame /\ chip'.txUnderrunEom = b.txUnderrunEom
         /\ chip'.txByte = b.txByte /\ chip'.txBuffer = b.txBuffer /\ chip'.toLink = <<>>
         /\ chip'.rxWire = b.rxWire /\ chip'.rxPosition = b.rxPosition
         /\ port' \in [offered : Whole \union {NoFrame}, offeredLines : Nat, offers : Nat]
         /\ answer' \in [frame : Seq(Nat), alone : BOOLEAN]
         /\ b.toLink = <<>> =>
              /\ chip'.rxQueue = b.rxQueue /\ chip'.rxQuiet = b.rxQuiet
              /\ UNCHANGED <<port, went, answer>>
         /\ b.toLink # <<>> =>
              /\ went' = IF IsHandshake(b.toLink) THEN went ELSE Append(went, b.toLink)
              /\ answer'.frame # NoFrame =>
                   /\ chip'.rxQueue # <<>> /\ chip'.rxQueue[1] = answer'.frame
                   /\ ~chip'.rxQuiet
                   /\ answer'.alone => chip'.rxWire = <<>>
<1> DEFINE cleared == [b EXCEPT !.toLink = <<>>]
           frame == b.toLink
           reply == AnswerTo(frame, port.offered)
<1>1. /\ cleared \in Channel /\ SameWire(b, cleared) /\ cleared.write = b.write
      /\ cleared.rxQueue = b.rxQueue
      /\ cleared.txFrame = b.txFrame /\ cleared.txUnderrunEom = b.txUnderrunEom
      /\ cleared.txByte = b.txByte /\ cleared.txBuffer = b.txBuffer /\ cleared.toLink = <<>>
  <2>1. <<>> \in Seq(Nat)
    OBVIOUS
  <2> QED BY <2>1 DEF Channel, SameWire
<1>2. frame \in Seq(Nat)
  BY DEF Channel
<1>3. SendFrame(b) <=>
        IF Len(frame) < 3
        THEN /\ chip' = cleared
             /\ UNCHANGED <<port, went, answer>>
        ELSE /\ chip' = AnswerFrame(cleared, reply)
             /\ port' = [port EXCEPT !.offered = IF Taken(frame, @) THEN NoFrame ELSE @]
             /\ answer' = [frame |-> reply, alone |-> b.rxWire = <<>>]
             /\ went' = IF IsHandshake(frame) THEN went ELSE Append(went, frame)
  BY DEF SendFrame
<1> HIDE DEF cleared
<1>4. CASE frame = <<>>
  BY <1>1, <1>3, <1>4 DEF SameWire, TypeOK
<1>5. CASE frame # <<>>
  <2>1. /\ chip' = AnswerFrame(cleared, reply)
        /\ port' = [port EXCEPT !.offered = IF Taken(frame, @) THEN NoFrame ELSE @]
        /\ answer' = [frame |-> reply, alone |-> b.rxWire = <<>>]
        /\ went' = IF IsHandshake(frame) THEN went ELSE Append(went, frame)
    BY <1>2, <1>3, <1>5 DEF Whole
  <2>2. reply \in Seq(Nat)
    <3>1. frame[1] \in Nat /\ frame[2] \in Nat
      BY <1>2, <1>5 DEF Whole
    <3>2. <<frame[2], frame[1], lapCts>> \in Seq(Nat) /\ NoFrame \in Seq(Nat)
      BY <3>1 DEF lapCts, NoFrame
    <3>3. port.offered \in Seq(Nat)
      <4>1. port.offered \in Whole \/ port.offered = NoFrame
        BY DEF TypeOK
      <4> QED BY <3>2, <4>1 DEF Whole
    <3> HIDE DEF frame
    <3> QED BY <3>2, <3>3 DEF AnswerTo, From, To
  <2> HIDE DEF reply
  <2>3. port' \in [offered : Whole \union {NoFrame}, offeredLines : Nat, offers : Nat]
    BY <2>1 DEF TypeOK
  <2>4. answer' \in [frame : Seq(Nat), alone : BOOLEAN] /\ answer'.frame = reply
        /\ (answer'.alone => b.rxWire = <<>>)
    BY <2>1, <2>2
  <2>5. IsSdlc(cleared)
    BY <1>1, <1>5 DEF IsSdlc
  <2>6. /\ chip' \in Channel /\ SameSent(cleared, chip') /\ chip'.write = cleared.write
        /\ chip'.rxWire = cleared.rxWire /\ chip'.rxPosition = cleared.rxPosition
        /\ reply # <<>> => chip'.rxQueue = <<reply>> \o cleared.rxQueue /\ ~chip'.rxQuiet
    BY <1>1, <2>1, <2>2, <2>5, AnswerFrameIs
  <2>7. ASSUME reply # <<>> PROVE chip'.rxQueue # <<>> /\ chip'.rxQueue[1] = reply
    <3>1. reply \in Frame /\ cleared.rxQueue \in Seq(Frame)
      BY <1>1, <2>2, <2>7 DEF Channel, Frame
    <3> QED BY <2>6, <2>7, <3>1
  <2> QED BY <1>1, <1>5, <2>1, <2>3, <2>4, <2>6, <2>7 DEF SameSent, SameWire, NoFrame
<1> QED BY <1>4, <1>5

-----------------------------------------------------------------------------
(* The steps of the chip.                                                  *)

LEMMA InitKeeps == Init => IInv
<1> SUFFICES ASSUME Init PROVE IInv
  OBVIOUS
<1> USE DEF Init
<1>1. <<>> \in Seq(Nat) /\ <<>> \in Seq(Seq(Nat)) /\ <<>> \in Seq(Frame)
  OBVIOUS
<1>2. TypeOK
  BY <1>1, FreshIs DEF TypeOK, NothingOffered, Idle, NoAnswer, NoFrame
<1>3. Ready /\ Transmitter /\ Answered
  BY FreshIs DEF Ready, Transmitter, Small, Silent, Answered, Idle, NoAnswer
<1> QED BY <1>2, <1>3 DEF IInv

LEMMA ByteLeavesKeeps == ASSUME IInv, ByteLeaves PROVE IInv'
<1> DEFINE b == [ByteGone(chip) EXCEPT !.toSink = <<>>]
<1> USE DEF IInv
<1>1. SendFrame(b) /\ UNCHANGED <<incoming, mpp, sent, took, counts>>
  BY DEF ByteLeaves
<1>2. chip \in Channel /\ Small
  BY DEF TypeOK, Transmitter
<1>3. /\ b \in Channel /\ b.write = chip.write /\ b.rxQueue = chip.rxQueue
      /\ b.rxWire = chip.rxWire /\ b.rxPosition = chip.rxPosition
      /\ b.txByte = <<>> /\ b.txBuffer = <<>> /\ b.txUnderrunEom \in {TRUE, chip.txUnderrunEom}
      /\ IF ~IsSdlc(chip) \/ chip.txUnderrunEom
         THEN /\ b.txFrame = chip.txFrame /\ b.toLink = chip.toLink /\ b.rxQuiet = chip.rxQuiet
         ELSE /\ b.txUnderrunEom /\ b.txFrame = <<>> /\ b.toLink = chip.txFrame
              /\ chip.txFrame = <<>> => b.rxQuiet = chip.rxQuiet
  BY <1>2, ByteGoneIs DEF Small
<1> HIDE DEF b
<1>4. IsSdlc(b) <=> IsSdlc(chip)
  BY <1>3 DEF IsSdlc
<1>5. CASE chip.txUnderrunEom
  <2>1. b.toLink = <<>> /\ b.txFrame = chip.txFrame /\ b.rxQuiet = chip.rxQuiet /\ b.txUnderrunEom
    BY <1>2, <1>3, <1>5 DEF Small
  <2>2. /\ chip' \in Channel /\ SameSent(b, chip') /\ SameWire(b, chip')
        /\ chip'.write = b.write /\ chip'.rxQueue = b.rxQueue
        /\ UNCHANGED <<port, went, answer>>
    BY <1>1, <1>3, <2>1, SendFrameIs DEF SameSent, SameWire
  <2>3. TypeOK'
    BY <1>1, <2>2 DEF TypeOK
  <2>4. IsSdlc(chip') <=> IsSdlc(chip)
    BY <1>3, <2>2 DEF IsSdlc
  <2>5. Ready'
    BY <1>1, <1>3, <2>2, <2>4 DEF Ready, SameWire
  <2>6. Answered'
    BY <1>1, <1>3, <2>1, <2>2 DEF Answered, SameWire
  <2>7. Small' /\ chip'.txFrame = chip.txFrame /\ chip'.txUnderrunEom /\ chip'.write = chip.write
    BY <1>3, <2>1, <2>2 DEF Small, SameSent
  <2>8. Transmitter'
    BY <1>1, <1>5, <2>2, <2>7 DEF Transmitter, Open, WrittenOut, Silent, Given
  <2> QED BY <2>3, <2>5, <2>6, <2>8
<1>6. CASE ~chip.txUnderrunEom
  <2>1. /\ mpp.doing = "ending" /\ mpp.frame \in Whole /\ chip.txFrame = mpp.frame
        /\ sent = Given /\ IsSdlc(chip)
    BY <1>6 DEF Transmitter, Open, Silent, WrittenOut, Ready
  <2>2. b.txUnderrunEom /\ b.txFrame = <<>> /\ b.toLink = mpp.frame /\ mpp.frame # <<>>
    BY <1>3, <1>6, <2>1 DEF Whole
  <2>3. /\ chip' \in Channel /\ chip'.write = b.write
        /\ chip'.txFrame = <<>> /\ chip'.txUnderrunEom
        /\ chip'.txBuffer = <<>> /\ chip'.toLink = <<>>
        /\ chip'.rxWire = b.rxWire /\ chip'.rxPosition = b.rxPosition
        /\ port' \in [offered : Whole \union {NoFrame}, offeredLines : Nat, offers : Nat]
        /\ answer' \in [frame : Seq(Nat), alone : BOOLEAN]
        /\ went' = Given
        /\ answer'.frame # NoFrame =>
             /\ chip'.rxQueue # <<>> /\ chip'.rxQueue[1] = answer'.frame
             /\ ~chip'.rxQuiet
             /\ answer'.alone => chip'.rxWire = <<>>
    BY <1>1, <1>3, <1>4, <2>1, <2>2, SendFrameIs DEF Given
  <2>4. TypeOK'
    <3>1. went' \in Seq(Seq(Nat))
      BY <2>1, <2>3 DEF TypeOK
    <3> QED BY <1>1, <2>3, <3>1 DEF TypeOK
  <2>5. IsSdlc(chip')
    BY <1>3, <2>1, <2>3 DEF IsSdlc
  <2>6. Ready'
    BY <1>1, <1>3, <2>3, <2>5 DEF Ready
  <2>7. Answered'
    BY <2>3 DEF Answered
  <2>8. Transmitter'
    BY <1>1, <2>1, <2>3 DEF Transmitter, Small, WrittenOut
  <2> QED BY <2>4, <2>6, <2>7, <2>8
<1> QED BY <1>5, <1>6

LEMMA QuietPassesKeeps == ASSUME IInv, QuietPasses PROVE IInv'
<1> USE DEF IInv
<1>1. chip' = [chip EXCEPT !.rxQuiet = FALSE] /\ chip \in Channel
  BY DEF QuietPasses, TypeOK
<1>2. /\ chip' \in Channel /\ SameSent(chip, chip') /\ chip'.write = chip.write
      /\ chip'.rxQueue = chip.rxQueue /\ ~chip'.rxQuiet
      /\ chip'.rxWire = chip.rxWire /\ chip'.rxPosition = chip.rxPosition
  BY <1>1 DEF Channel, SameSent
<1>3. UNCHANGED <<port, incoming, mpp, sent, went, took, answer, counts>>
  BY DEF QuietPasses
<1>4. Transmitter' /\ (mpp'.doing # "off" => IsSdlc(chip'))
  BY <1>2, <1>3, SentKeeps
<1>5. TypeOK'
  BY <1>2, <1>3 DEF TypeOK
<1>6. Ready' /\ Answered'
  BY <1>2, <1>3, <1>4 DEF Ready, Answered
<1> QED BY <1>4, <1>5, <1>6

LEMMA StartsKeeps == ASSUME IInv, Starts PROVE IInv'
<1> USE DEF IInv
<1>1. chip \in Channel /\ chip.rxQueue # <<>> /\ chip' = FrameStarts(chip)
  BY DEF Starts, CanStart, TypeOK
<1>2. /\ chip' \in Channel /\ SameSent(chip, chip') /\ chip'.write = chip.write
      /\ chip'.rxPosition < Len(chip'.rxWire)
  BY <1>1, FrameStartsIs
<1>3. UNCHANGED <<port, incoming, mpp, sent, went, took, counts>> /\ answer' = NoAnswer
  BY DEF Starts
<1>4. Transmitter' /\ (mpp'.doing # "off" => IsSdlc(chip'))
  BY <1>2, <1>3, SentKeeps
<1>5. TypeOK'
  <2>1. NoAnswer \in [frame : Seq(Nat), alone : BOOLEAN]
    BY DEF NoAnswer, NoFrame
  <2> QED BY <1>2, <1>3, <2>1 DEF TypeOK
<1>6. Ready' /\ Answered'
  BY <1>2, <1>3, <1>4 DEF Ready, Answered, NoAnswer
<1> QED BY <1>4, <1>5, <1>6

LEMMA ReceivesKeeps == ASSUME IInv, Receives PROVE IInv'
<1> USE DEF IInv
<1>1. /\ chip \in Channel /\ chip.rxWire # <<>> /\ chip.rxPosition < Len(chip.rxWire)
      /\ chip' = ReceiveByte(chip)
  BY DEF Receives, TypeOK, Ready
<1>2. /\ chip' \in Channel /\ SameSent(chip, chip') /\ chip'.write = chip.write
      /\ chip'.rxQueue = chip.rxQueue
      /\ chip'.rxWire # <<>> => chip'.rxPosition < Len(chip'.rxWire)
  BY <1>1, ReceiveByteIs
<1>3. UNCHANGED <<port, incoming, mpp, sent, went, took, answer, counts>>
  BY DEF Receives
<1>4. Transmitter' /\ (mpp'.doing # "off" => IsSdlc(chip'))
  BY <1>2, <1>3, SentKeeps
<1>5. TypeOK'
  BY <1>2, <1>3 DEF TypeOK
<1>6. Answered'
  BY <1>1, <1>2, <1>3 DEF Answered
<1>7. Ready'
  BY <1>2, <1>4 DEF Ready
<1> QED BY <1>4, <1>5, <1>6, <1>7

-----------------------------------------------------------------------------
(* The steps of the driver.                                                *)

LEMMA IdleIs ==
  /\ Idle \in Drivers
  /\ \A then \in Whole \union {NoFrame} :
            /\ [Idle EXCEPT !.doing = "listening", !.then = then] \in Drivers
            /\ [Idle EXCEPT !.doing = "listening", !.then = then].doing = "listening"
<1>1. <<>> \in Seq(Nat)
  OBVIOUS
<1> QED BY <1>1 DEF Idle, Drivers, NoFrame

\* Whatever is not sending has nothing of its own on the way.
LEMMA NotSending ==
  ASSUME IInv, mpp.doing \notin {"sending", "ending"}
  PROVE  Silent /\ chip \in Channel /\ mpp \in Drivers
BY DEF IInv, Transmitter, TypeOK, Drivers

LEMMA TurnOnKeeps == ASSUME IInv, TurnOn PROVE IInv'
<1>1. Silent /\ chip \in Channel
  BY NotSending DEF TurnOn
<1>2. Registered(chip, chip') /\ IsSdlc(chip')
  BY <1>1, TurnOnSets DEF TurnOn
<1>3. mpp' \in Drivers /\ mpp'.doing = "listening"
  <2>1. mpp' = [Idle EXCEPT !.doing = "listening"]
    BY DEF TurnOn
  <2>2. <<>> \in Seq(Nat)
    OBVIOUS
  <2> QED BY <2>1, <2>2 DEF Idle, Drivers, NoFrame
<1>4. counts' \in [arrivals : Nat, on : Nat, resets : Nat]
  <2>1. counts \in [arrivals : Nat, on : Nat, resets : Nat]
    BY DEF IInv, TypeOK
  <2>2. counts' = [counts EXCEPT !.on = @ + 1]
    BY DEF TurnOn
  <2> QED BY <2>1, <2>2
<1>5. UNCHANGED <<port, incoming, sent, went, took, answer>> /\ took \in Seq(Seq(Nat))
  BY DEF TurnOn, IInv, TypeOK
<1> QED BY <1>1, <1>2, <1>3, <1>4, <1>5, DriverKeeps

LEMMA TurnOffKeeps == ASSUME IInv, TurnOff PROVE IInv'
<1>1. Silent /\ chip \in Channel
  BY NotSending DEF TurnOff
<1>2. Registered(chip, chip')
  BY <1>1, TurnOffSets DEF TurnOff
<1>3. mpp' \in Drivers /\ mpp'.doing = "off"
  BY IdleIs DEF TurnOff, Idle
<1>4. UNCHANGED <<port, incoming, sent, went, took, answer, counts>>
  BY DEF TurnOff
<1>5. took \in Seq(Seq(Nat)) /\ counts \in [arrivals : Nat, on : Nat, resets : Nat]
  BY DEF IInv, TypeOK
<1> QED BY <1>1, <1>2, <1>3, <1>4, <1>5, DriverKeeps

LEMMA RegisteredSame ==
  ASSUME NEW c \in Channel
  PROVE  Registered(c, c)
BY DEF Registered, SameSent, SameWire

LEMMA InterruptKeeps == ASSUME IInv, Interrupt PROVE IInv'
<1>1. Silent /\ chip \in Channel /\ mpp \in Drivers
  BY NotSending DEF Interrupt
<1>2. UNCHANGED <<chip, port, incoming, sent, went, took, answer, counts>>
  BY DEF Interrupt
<1>3. Registered(chip, chip') /\ (IsSdlc(chip') <=> IsSdlc(chip)) /\ IsSdlc(chip)
  BY <1>1, <1>2, RegisteredSame DEF Interrupt, IInv, Ready
<1>4. mpp' \in Drivers /\ mpp'.doing = "reading"
  BY <1>1 DEF Interrupt, Drivers
<1>5. took \in Seq(Seq(Nat)) /\ counts \in [arrivals : Nat, on : Nat, resets : Nat]
  BY DEF IInv, TypeOK
<1> QED BY <1>1, <1>2, <1>3, <1>4, <1>5, DriverKeeps

LEMMA CtsTimeoutKeeps == ASSUME IInv, CtsTimeout PROVE IInv'
<1>1. Silent /\ chip \in Channel /\ mpp \in Drivers
  BY NotSending DEF CtsTimeout
<1>2. UNCHANGED <<chip, port, incoming, sent, went, took, answer, counts>>
  BY DEF CtsTimeout
<1>3. Registered(chip, chip') /\ (IsSdlc(chip') <=> IsSdlc(chip)) /\ IsSdlc(chip)
  BY <1>1, <1>2, RegisteredSame DEF CtsTimeout, IInv, Ready
<1>4. mpp' \in Drivers /\ mpp'.doing = "listening"
  BY <1>1 DEF CtsTimeout, Drivers
<1>5. took \in Seq(Seq(Nat)) /\ counts \in [arrivals : Nat, on : Nat, resets : Nat]
  BY DEF IInv, TypeOK
<1> QED BY <1>1, <1>2, <1>3, <1>4, <1>5, DriverKeeps

LEMMA EndedKeeps == ASSUME IInv, Ended PROVE IInv'
<1>1. Silent /\ chip \in Channel /\ IsSdlc(chip)
  BY DEF Ended, IInv, Transmitter, WrittenOut, Silent, TypeOK, Ready
<1>2. Registered(chip, chip') /\ IsSdlc(chip')
  BY <1>1, EndedSets DEF Ended, Silent
<1>3. mpp' \in Drivers /\ mpp'.doing = "listening"
  <2>1. mpp.then \in Whole \union {NoFrame}
    BY DEF IInv, TypeOK
  <2> QED BY <2>1, IdleIs DEF Ended
<1>4. UNCHANGED <<port, incoming, sent, went, took, answer, counts>>
  BY DEF Ended
<1>5. took \in Seq(Seq(Nat)) /\ counts \in [arrivals : Nat, on : Nat, resets : Nat]
  BY DEF IInv, TypeOK
<1> QED BY <1>1, <1>2, <1>3, <1>4, <1>5, DriverKeeps

\* What the driver has to send has three bytes.
LEMMA UnsentIs ==
  ASSUME TypeOK, Unsent # <<>>
  PROVE  LET frame == Head(Unsent) IN
         /\ frame \in Whole
         /\ <<To(frame), From(frame), lapRts>> \in Whole
<1> DEFINE given == {i \in DOMAIN sent : Kind(sent[i]) # lapAck}
           k == Cardinality(given)
<1>1. k \in Nat
  <2>1. sent \in Seq(Seq(Nat))
    BY DEF TypeOK
  <2>2. DOMAIN sent = 1..Len(sent) /\ Len(sent) \in Nat
    BY <2>1
  <2>3. IsFiniteSet(1..Len(sent))
    BY <2>2, FS_Interval
  <2>4. IsFiniteSet(given)
    BY <2>2, <2>3, FS_Subset
  <2> HIDE DEF given
  <2> QED BY <2>4, FS_CardinalityType
<1>2. Unsent = SubSeq(Outgoing, k + 1, Len(Outgoing))
  BY DEF Unsent
<1> HIDE DEF k
<1>3. ASSUME NEW X, NEW q \in Seq(X), SubSeq(q, k + 1, Len(q)) # <<>>
      PROVE  Head(SubSeq(q, k + 1, Len(q))) \in X
  <2>1. k + 1 <= Len(q)
    BY <1>1, <1>3
  <2>2. Head(SubSeq(q, k + 1, Len(q))) = q[k + 1]
    BY <1>1, <2>1
  <2>3. k + 1 \in 1..Len(q)
    BY <1>1, <2>1
  <2> QED BY <2>2, <2>3
<1>4. PICK frame \in Nat \X Nat \X Nat : frame = Head(Unsent)
  BY <1>2, <1>3, PortAssumption
<1>5. frame = <<frame[1], frame[2], frame[3]>> /\ frame[1] \in Nat /\ frame[2] \in Nat /\ frame[3] \in Nat
  BY <1>4
<1>6. ASSUME NEW x \in Nat, NEW y \in Nat, NEW z \in Nat
      PROVE  <<x, y, z>> \in Whole
  BY DEF Whole
<1>7. lapRts \in Nat
  BY DEF lapRts
<1> QED BY <1>4, <1>5, <1>6, <1>7 DEF To, From

LEMMA SendKeeps == ASSUME IInv, Send PROVE IInv'
<1>1. Silent /\ chip \in Channel /\ IsSdlc(chip)
  BY NotSending DEF Send, IInv, Ready
<1>2. Head(Unsent) \in Whole /\ <<To(Head(Unsent)), From(Head(Unsent)), lapRts>> \in Whole
  BY UnsentIs DEF Send, IInv
<1>3. PICK frame \in Whole, then \in Whole \union {NoFrame} : Sending(chip, frame, then)
  BY <1>2 DEF Send
<1>4. /\ Registered(chip, chip') /\ mpp' \in Drivers /\ IsSdlc(chip')
      /\ mpp'.doing = "sending" /\ "tx" \in chip'.write[5]
      /\ mpp'.frame \in Whole /\ mpp'.out = mpp'.frame
  BY <1>1, <1>3, SendingIs
<1>5. UNCHANGED <<port, incoming, sent, went, took, answer, counts>>
  BY DEF Send
<1>6. took \in Seq(Seq(Nat)) /\ counts \in [arrivals : Nat, on : Nat, resets : Nat]
  BY DEF IInv, TypeOK
<1> QED BY <1>1, <1>4, <1>5, <1>6, DriverKeeps

LEMMA NextByteMoves ==
  ASSUME NEW f \in Seq(Nat), NEW o \in Seq(Nat), o # <<>>
  PROVE  /\ Head(o) \in Nat /\ Tail(o) \in Seq(Nat)
         /\ Append(f, Head(o)) \o Tail(o) = f \o o
<1>1. Head(o) \in Nat /\ Tail(o) \in Seq(Nat) /\ Len(o) \in Nat \ {0}
  OBVIOUS
<1> DEFINE p == Append(f, Head(o)) \o Tail(o)
           q == f \o o
<1>2. p \in Seq(Nat) /\ q \in Seq(Nat)
  BY <1>1
<1>3. Len(p) = Len(f) + Len(o) /\ Len(q) = Len(f) + Len(o)
  BY <1>1
<1>4. ASSUME NEW i \in 1..Len(p) PROVE p[i] = q[i]
  <2>1. CASE i <= Len(f)
    BY <2>1, <1>1, <1>3
  <2>2. CASE i = Len(f) + 1
    BY <2>2, <1>1, <1>3
  <2>3. CASE i > Len(f) + 1
    BY <2>3, <1>1, <1>3
  <2> QED BY <2>1, <2>2, <2>3, <1>3
<1>5. p = q
  <2> HIDE DEF p, q
  <2> QED BY <1>2, <1>3, <1>4, SeqEqual
<1> QED BY <1>1, <1>5

LEMMA WriteByteKeeps == ASSUME IInv, WriteByte PROVE IInv'
<1> USE DEF IInv
<1>1. /\ mpp.doing = "sending" /\ mpp.out # <<>> /\ ~Busy(chip)
      /\ chip' = Transmit(chip, Head(mpp.out))
      /\ mpp' = [mpp EXCEPT !.out = Tail(@)]
      /\ UNCHANGED <<port, incoming, sent, went, took, answer, counts>>
  BY DEF WriteByte, TxBufferEmpty
<1>2. /\ chip \in Channel /\ IsSdlc(chip) /\ Small /\ Open
      /\ mpp \in Drivers /\ mpp.out \in Seq(Nat) /\ chip.txFrame \in Seq(Nat)
  BY <1>1 DEF TypeOK, Ready, Transmitter, Drivers, Channel
<1>3. /\ Head(mpp.out) \in Nat /\ Tail(mpp.out) \in Seq(Nat)
      /\ Append(chip.txFrame, Head(mpp.out)) \o Tail(mpp.out) = chip.txFrame \o mpp.out
  BY <1>1, <1>2, NextByteMoves
<1>4. /\ chip' \in Channel /\ SameWire(chip, chip') /\ chip'.rxQueue = chip.rxQueue
      /\ chip'.write = chip.write /\ chip'.toLink = chip.toLink
      /\ chip'.txBuffer = chip.txBuffer /\ chip'.txUnderrunEom = chip.txUnderrunEom
      /\ chip'.txFrame = Append(chip.txFrame, Head(mpp.out))
  BY <1>1, <1>2, <1>3, TransmitIs DEF Open
<1>5. /\ mpp' \in Drivers /\ mpp'.doing = mpp.doing /\ mpp'.out = Tail(mpp.out)
      /\ mpp'.frame = mpp.frame
  <2> DEFINE o == Tail(mpp.out)
  <2>1. o \in Seq(Nat)
    BY <1>3
  <2>2. mpp' = [mpp EXCEPT !.out = o]
    BY <1>1
  <2> HIDE DEF o
  <2>3. mpp' \in Drivers /\ mpp'.doing = mpp.doing /\ mpp'.out = o /\ mpp'.frame = mpp.frame
    BY <1>2, <2>1, <2>2 DEF Drivers
  <2> QED BY <2>3 DEF o
<1>6. TypeOK'
  BY <1>1, <1>4, <1>5 DEF TypeOK, Drivers
<1>7. Ready' /\ Answered'
  BY <1>1, <1>2, <1>4 DEF Ready, Answered, SameWire, IsSdlc
<1>8. Open' /\ Small'
  BY <1>1, <1>2, <1>3, <1>4, <1>5 DEF Open, Small
<1>9. Transmitter'
  BY <1>1, <1>5, <1>8 DEF Transmitter
<1> QED BY <1>6, <1>7, <1>9

LEMMA ResetEomKeeps == ASSUME IInv, ResetEom PROVE IInv'
<1> USE DEF IInv
<1> DEFINE b == Command(chip, "reset tx underrun")
<1>1. /\ mpp.doing = "sending" /\ mpp.out = <<>> /\ SendFrame(b)
      /\ mpp' = [mpp EXCEPT !.doing = "ending"]
      /\ sent' = IF IsHandshake(mpp.frame) THEN sent ELSE Append(sent, mpp.frame)
      /\ UNCHANGED <<incoming, took, counts>>
  BY DEF ResetEom
<1>2. chip \in Channel /\ IsSdlc(chip) /\ Small /\ Open /\ mpp \in Drivers
  BY <1>1 DEF TypeOK, Ready, Transmitter, Drivers
<1>3. chip.txFrame = mpp.frame /\ mpp.frame \in Whole /\ mpp.frame # <<>>
  <2>1. chip.txFrame \in Seq(Nat) /\ mpp.frame \in Whole /\ chip.txFrame \o <<>> = mpp.frame
    BY <1>1, <1>2 DEF Open, Channel
  <2>2. ASSUME NEW f \in Seq(Nat) PROVE f \o <<>> = f
    BY ConcatEmptySeq
  <2> QED BY <2>1, <2>2 DEF Whole
<1>4. /\ mpp' \in Drivers /\ mpp'.doing = "ending" /\ mpp'.frame = mpp.frame
  BY <1>1, <1>2 DEF Drivers
<1>5. sent' = Given /\ Given \in Seq(Seq(Nat)) /\ sent = went
  <2>1. sent = went /\ went \in Seq(Seq(Nat)) /\ mpp.frame \in Seq(Nat)
    BY <1>2, <1>3 DEF Open, TypeOK, Whole
  <2>2. Append(went, mpp.frame) \in Seq(Seq(Nat))
    BY <2>1
  <2> QED BY <1>1, <2>1, <2>2, Zenon DEF Given
<1>6. /\ b \in Channel /\ b.write = chip.write /\ b.rxQueue = chip.rxQueue
      /\ b.rxWire = chip.rxWire /\ b.rxPosition = chip.rxPosition
      /\ b.txByte = chip.txByte /\ b.txBuffer = chip.txBuffer
      /\ IF Busy(chip)
         THEN /\ ~b.txUnderrunEom /\ b.txFrame = chip.txFrame /\ b.toLink = chip.toLink
              /\ b.rxQuiet = chip.rxQuiet
         ELSE b.txUnderrunEom /\ b.txFrame = <<>> /\ b.toLink = chip.txFrame
  BY <1>2, <1>3, ResetUnderrunIs
<1> HIDE DEF b
<1>7. IsSdlc(b)
  BY <1>2, <1>6 DEF IsSdlc
<1>8. CASE Busy(chip)
  <2>1. b.toLink = <<>>
    BY <1>2, <1>6, <1>8 DEF Small
  <2>2. /\ chip' \in Channel /\ chip'.write = b.write
        /\ chip'.txFrame = b.txFrame /\ chip'.txUnderrunEom = b.txUnderrunEom
        /\ chip'.txByte = b.txByte /\ chip'.txBuffer = b.txBuffer /\ chip'.toLink = <<>>
        /\ SameWire(b, chip') /\ chip'.rxQueue = b.rxQueue
        /\ UNCHANGED <<port, went, answer>>
    BY <1>1, <1>6, <2>1, SendFrameIs DEF SameWire
  <2>3. TypeOK'
    BY <1>1, <1>4, <1>5, <2>2 DEF TypeOK, Drivers
  <2>4. Ready' /\ Answered'
    BY <1>6, <1>7, <1>8, <2>2 DEF Ready, Answered, SameWire, IsSdlc
  <2>5. Small'
    BY <1>2, <1>6, <2>2 DEF Small
  <2>6. WrittenOut'
    <3>1. Busy(chip')
      BY <1>6, <1>8, <2>2 DEF Busy
    <3>2. Given' = Given
      BY <1>4, <2>2 DEF Given
    <3>3. ~chip'.txUnderrunEom /\ chip'.txFrame = mpp'.frame
      BY <1>3, <1>4, <1>6, <1>8, <2>2
    <3> QED BY <1>3, <1>4, <1>5, <3>1, <3>2, <3>3 DEF WrittenOut
  <2>7. Transmitter'
    BY <1>4, <2>5, <2>6 DEF Transmitter
  <2> QED BY <2>3, <2>4, <2>7
<1>9. CASE ~Busy(chip)
  <2>1. b.toLink = mpp.frame /\ b.txFrame = <<>> /\ b.txUnderrunEom
    BY <1>3, <1>6, <1>9
  <2>2. /\ chip' \in Channel /\ chip'.write = b.write
        /\ chip'.txFrame = <<>> /\ chip'.txUnderrunEom
        /\ chip'.txBuffer = b.txBuffer /\ chip'.toLink = <<>>
        /\ chip'.rxWire = b.rxWire /\ chip'.rxPosition = b.rxPosition
        /\ port' \in [offered : Whole \union {NoFrame}, offeredLines : Nat, offers : Nat]
        /\ answer' \in [frame : Seq(Nat), alone : BOOLEAN]
        /\ went' = Given
        /\ answer'.frame # NoFrame =>
             /\ chip'.rxQueue # <<>> /\ chip'.rxQueue[1] = answer'.frame
             /\ ~chip'.rxQuiet
             /\ answer'.alone => chip'.rxWire = <<>>
    BY <1>1, <1>3, <1>6, <1>7, <2>1, SendFrameIs DEF Given
  <2>3. TypeOK'
    BY <1>1, <1>4, <1>5, <2>2 DEF TypeOK, Drivers
  <2>4. Ready' /\ Answered'
    BY <1>6, <1>7, <2>2 DEF Ready, Answered, IsSdlc
  <2>5. Small'
    BY <1>2, <1>6, <2>2 DEF Small
  <2>6. WrittenOut'
    BY <1>3, <1>4, <1>5, <2>2 DEF WrittenOut
  <2>7. Transmitter'
    BY <1>4, <2>5, <2>6 DEF Transmitter
  <2> QED BY <2>3, <2>4, <2>7
<1> QED BY <1>8, <1>9

LEMMA ResetKeeps == ASSUME IInv, Reset PROVE IInv'
<1> USE DEF IInv
<1>1. /\ chip' = Fresh /\ mpp' = Idle /\ answer' = NoAnswer /\ sent' = went
      /\ UNCHANGED <<port, incoming, went, took>>
      /\ counts' = [counts EXCEPT !.resets = @ + 1]
  BY DEF Reset
<1>2. counts' \in [arrivals : Nat, on : Nat, resets : Nat]
  <2>1. counts \in [arrivals : Nat, on : Nat, resets : Nat]
    BY DEF TypeOK
  <2> QED BY <1>1, <2>1
<1>3. NoAnswer \in [frame : Seq(Nat), alone : BOOLEAN] /\ NoAnswer.frame = NoFrame
  BY DEF NoAnswer, NoFrame
<1>4. TypeOK'
  BY <1>1, <1>2, <1>3, FreshIs, IdleIs DEF TypeOK, Drivers
<1>5. Ready' /\ Answered'
  BY <1>1, <1>3, FreshIs DEF Ready, Answered, Idle
<1>6. Transmitter'
  BY <1>1, FreshIs DEF Transmitter, Small, Silent, Idle
<1> QED BY <1>4, <1>5, <1>6

\* What the receiver holds is read: the rest is as it was.
LEMMA ReadKeeps ==
  ASSUME IInv, mpp.doing = "reading", NEW b, Aside(chip, b)
  PROVE  Registered(chip, b) /\ IsSdlc(b) /\ b \in Channel
BY DEF IInv, Ready, Aside, Registered, IsSdlc

LEMMA ActIs ==
  ASSUME IInv, NEW b \in Channel, IsSdlc(b), NEW frame \in Whole, Act(b, frame)
  PROVE  /\ Registered(b, chip') /\ mpp' \in Drivers /\ IsSdlc(chip')
         /\ mpp'.doing \in {"sending", "listening"}
         /\ mpp'.doing = "sending" =>
              "tx" \in chip'.write[5] /\ mpp'.frame \in Whole /\ mpp'.out = mpp'.frame
         /\ took' \in Seq(Seq(Nat))
<1> DEFINE listening == [Idle EXCEPT !.doing = "listening", !.then = mpp.then]
           cts == <<From(frame), Node, lapCts>>
           ack == [cts EXCEPT ![3] = lapAck]
<1>1. cts \in Whole /\ ack \in Whole
  <2>1. From(frame) \in Nat /\ Node \in Nat /\ lapCts \in Nat /\ lapAck \in Nat
    BY PortAssumption, SMTT(30) DEF From, Whole, lapCts, lapAck
  <2>2. ack = <<From(frame), Node, lapAck>>
    OBVIOUS
  <2>3. ASSUME NEW x \in Nat, NEW y \in Nat, NEW z \in Nat
        PROVE  <<x, y, z>> \in Whole
    BY DEF Whole
  <2> HIDE DEF ack
  <2> QED BY <2>1, <2>2, <2>3
<1>2. mpp.then \in Whole \union {NoFrame} /\ NoFrame \in Whole \union {NoFrame}
  BY DEF IInv, TypeOK
<1>3. took \in Seq(Seq(Nat)) /\ frame \in Seq(Nat)
  BY DEF IInv, TypeOK, Whole
<1>4. \/ Sending(b, cts, NoFrame) /\ UNCHANGED took
      \/ Sending(b, ack, NoFrame) /\ UNCHANGED took
      \/ Sending(b, mpp.then, NoFrame) /\ mpp.then # NoFrame /\ UNCHANGED took
      \/ /\ chip' = b /\ mpp' = listening
         /\ took' = IF IsData(frame) THEN Append(took, frame) ELSE took
  BY DEF Act
<1>5. ASSUME NEW f \in Whole, Sending(b, f, NoFrame), UNCHANGED took
      PROVE  /\ Registered(b, chip') /\ mpp' \in Drivers /\ IsSdlc(chip')
             /\ mpp'.doing = "sending" /\ "tx" \in chip'.write[5]
             /\ mpp'.frame \in Whole /\ mpp'.out = mpp'.frame
             /\ took' \in Seq(Seq(Nat))
  BY <1>2, <1>3, <1>5, SendingIs
<1>6. ASSUME chip' = b, mpp' = listening,
             took' = IF IsData(frame) THEN Append(took, frame) ELSE took
      PROVE  /\ Registered(b, chip') /\ mpp' \in Drivers /\ IsSdlc(chip')
             /\ mpp'.doing = "listening"
             /\ took' \in Seq(Seq(Nat))
  <2>1. mpp' \in Drivers /\ mpp'.doing = "listening"
    BY <1>2, <1>6, IdleIs
  <2>2. Append(took, frame) \in Seq(Seq(Nat))
    BY <1>3
  <2>3. took' \in Seq(Seq(Nat))
    BY <1>3, <1>6, <2>2, Zenon
  <2> QED BY <1>6, <2>1, <2>3, RegisteredSame
<1> HIDE DEF cts, ack, listening
<1> QED BY <1>1, <1>2, <1>4, <1>5, <1>6

LEMMA WithoutTheCrc ==
  ASSUME NEW bytes \in Seq(Nat), Len(bytes) = 5
  PROVE  SubSeq(bytes, 1, 3) \in Whole
<1>1. ASSUME NEW i \in 1..3 PROVE bytes[i] \in Nat
  <2>1. i \in 1..Len(bytes)
    OBVIOUS
  <2> QED BY <2>1, ElementOfSeq
<1>2. SubSeq(bytes, 1, 3) \in Seq(Nat) /\ Len(SubSeq(bytes, 1, 3)) = 3
  BY <1>1, SubSeqProperties
<1> QED BY <1>2 DEF Whole

LEMMA ReadByteKeeps == ASSUME IInv, ReadByte PROVE IInv'
<1> DEFINE b == Command(Command(ReadReceived(chip), "error reset"), "enable rx next char")
           bytes == Append(mpp.in, chip.rxFifo[1].value)
           dropped == [mpp EXCEPT !.doing = "listening", !.in = <<>>]
           further == [mpp EXCEPT !.in = bytes]
<1>1. Silent /\ chip \in Channel /\ mpp \in Drivers /\ IsSdlc(chip) /\ mpp.doing = "reading"
  BY NotSending DEF ReadByte, IInv, Ready
<1>2. UNCHANGED <<port, incoming, sent, went, answer, counts>>
  BY DEF ReadByte
<1>3. took \in Seq(Seq(Nat)) /\ counts \in [arrivals : Nat, on : Nat, resets : Nat]
  BY DEF IInv, TypeOK
<1>4. dropped \in Drivers /\ dropped.doing = "listening"
  <2>1. <<>> \in Seq(Nat)
    OBVIOUS
  <2> QED BY <1>1, <2>1 DEF Drivers
<1>5. Aside(chip, Drained(chip)) /\ Aside(chip, ReadReceived(chip))
  BY <1>1, DrainedIs, ReadReceivedIs
<1>6. Aside(chip, b)
  <2> DEFINE c == ReadReceived(chip)
             d == Command(c, "error reset")
  <2>1. c \in Channel
    BY <1>5 DEF Aside
  <2> HIDE DEF c
  <2>2. Aside(c, d) /\ d \in Channel
    BY <2>1, ReceiverCommandIs DEF Aside
  <2> HIDE DEF d
  <2>3. Aside(d, Command(d, "enable rx next char"))
    BY <2>2, ReceiverCommandIs
  <2>4. Aside(chip, Command(d, "enable rx next char"))
    BY <1>5, <2>2, <2>3, AsideAgain DEF c
  <2> QED BY <2>4 DEF c, d
<1>7. ASSUME chip.rxFifo # <<>> PROVE bytes \in Seq(Nat)
  <2>1. chip.rxFifo \in Seq(Received) /\ mpp.in \in Seq(Nat)
    BY <1>1 DEF Channel, Drivers
  <2>2. chip.rxFifo[1] \in Received
    BY <1>7, <2>1
  <2>3. chip.rxFifo[1].value \in Nat
    BY <2>2 DEF Received
  <2> QED BY <2>1, <2>3
<1>8. \/ mpp' = dropped /\ chip' = Drained(chip) /\ UNCHANGED took
      \/ /\ chip.rxFifo # <<>>
         /\ \/ mpp' = further /\ chip' = ReadReceived(chip) /\ UNCHANGED took
            \/ Len(bytes) = 5 /\ Act(b, SubSeq(bytes, 1, 3))
            \/ mpp' = dropped /\ chip' = b /\ UNCHANGED took
  BY DEF ReadByte, RxCharAvailable
<1> HIDE DEF b, bytes, dropped, further
<1>9. ASSUME NEW d, Aside(chip, d), mpp' = dropped, chip' = d, UNCHANGED took PROVE IInv'
  <2>1. Registered(chip, chip') /\ IsSdlc(chip')
    BY <1>1, <1>9, ReadKeeps
  <2> QED BY <1>1, <1>2, <1>3, <1>4, <1>9, <2>1, DriverKeeps
<1>10. ASSUME chip.rxFifo # <<>>, mpp' = further, chip' = ReadReceived(chip), UNCHANGED took
       PROVE  IInv'
  <2>1. Registered(chip, chip') /\ IsSdlc(chip')
    BY <1>1, <1>5, <1>10, ReadKeeps
  <2>2. mpp' \in Drivers /\ mpp'.doing = "reading"
    BY <1>1, <1>7, <1>10 DEF further, Drivers
  <2> QED BY <1>1, <1>2, <1>3, <1>10, <2>1, <2>2, DriverKeeps
<1>11. ASSUME chip.rxFifo # <<>>, Len(bytes) = 5, Act(b, SubSeq(bytes, 1, 3)) PROVE IInv'
  <2>1. Registered(chip, b) /\ IsSdlc(b) /\ b \in Channel
    BY <1>1, <1>6, ReadKeeps
  <2> DEFINE frame == SubSeq(bytes, 1, 3)
  <2>2. frame \in Whole
    <3>1. bytes \in Seq(Nat) /\ Len(bytes) = 5
      BY <1>7, <1>11
    <3> QED BY <3>1, WithoutTheCrc
  <2>3. Act(b, frame)
    BY <1>11
  <2> HIDE DEF frame
  <2>4. /\ Registered(b, chip') /\ mpp' \in Drivers /\ IsSdlc(chip')
        /\ mpp'.doing \in {"sending", "listening"}
        /\ mpp'.doing = "sending" =>
             "tx" \in chip'.write[5] /\ mpp'.frame \in Whole /\ mpp'.out = mpp'.frame
        /\ took' \in Seq(Seq(Nat))
    BY <2>1, <2>2, <2>3, ActIs
  <2>5. Registered(chip, chip')
    BY <2>1, <2>4, RegisteredAgain
  <2>6. mpp'.doing # "ending" /\ counts' \in [arrivals : Nat, on : Nat, resets : Nat]
    BY <1>2, <1>3, <2>4
  <2> QED BY <1>1, <1>2, <2>4, <2>5, <2>6, DriverKeeps
<1> QED BY <1>5, <1>6, <1>8, <1>9, <1>10, <1>11

-----------------------------------------------------------------------------
(* The network.                                                            *)

LEMMA ArrivalIs ==
  ASSUME TypeOK, NEW kind
  PROVE  Arrival(kind) \in Frame
<1>1. counts.arrivals + 1 \in Nat
  BY DEF TypeOK
<1>2. {Node, Server, Server + 1, Broadcast, lapEnq, lapAck} \subseteq Nat
  BY PortAssumption DEF Broadcast, lapEnq, lapAck
<1>3. ASSUME NEW x \in Nat, NEW y \in Nat, NEW z \in Nat
      PROVE  <<x, y, z>> \in Frame /\ <<x>> \in Frame
  BY DEF Frame
<1> QED BY <1>1, <1>2, <1>3 DEF Arrival

LEMMA DeliverKeeps == ASSUME IInv, Deliver PROVE IInv'
<1> USE DEF IInv
<1>1. /\ incoming \in Seq(Frame) /\ chip \in Channel
      /\ counts \in [arrivals : Nat, on : Nat, resets : Nat]
  BY DEF TypeOK
<1>2. UNCHANGED <<chip, port, mpp, sent, went, took, answer>>
      /\ counts' = [counts EXCEPT !.arrivals = @ + 1]
  BY DEF Deliver
<1>3. counts' \in [arrivals : Nat, on : Nat, resets : Nat]
  BY <1>1, <1>2
<1>4. PICK kind : incoming' = IF Len(incoming) < MaxIncoming
                              THEN Append(incoming, Arrival(kind)) ELSE incoming
  BY DEF Deliver
<1>5. Append(incoming, Arrival(kind)) \in Seq(Frame)
  <2>1. Arrival(kind) \in Frame
    BY ArrivalIs
  <2> QED BY <1>1, <2>1
<1>6. incoming' \in Seq(Frame)
  BY <1>1, <1>4, <1>5, Zenon
<1>7. TypeOK'
  BY <1>2, <1>3, <1>6 DEF TypeOK
<1>8. Transmitter'
  BY <1>2, SentKeeps DEF SameSent
<1>9. Ready' /\ Answered'
  BY <1>2 DEF Ready, Answered, IsSdlc
<1> QED BY <1>7, <1>8, <1>9

\* The wire gets more frames, and the answer that is due stays the next.
LEMMA PollKeeps ==
  ASSUME IInv, Poll, Carried(chip, chip'),
         port' \in [offered : Whole \union {NoFrame}, offeredLines : Nat, offers : Nat],
         incoming' \in Seq(Frame), answer' \in {NoAnswer, answer},
         answer'.frame # NoFrame =>
           \/ chip' = chip
           \/ /\ chip'.rxQuiet = chip.rxQuiet
              /\ chip'.rxQueue # <<>> /\ chip'.rxQueue[1] = chip.rxQueue[1]
  PROVE  IInv'
<1> USE DEF IInv
<1>1. UNCHANGED <<mpp, sent, went, took, counts>>
  BY DEF Poll
<1>2. NoAnswer \in [frame : Seq(Nat), alone : BOOLEAN] /\ NoAnswer.frame = NoFrame
  BY DEF NoAnswer, NoFrame
<1>3. TypeOK'
  BY <1>1, <1>2 DEF TypeOK, Carried
<1>4. Transmitter' /\ (mpp'.doing # "off" => IsSdlc(chip'))
  BY <1>1, SentKeeps DEF Carried
<1>5. Ready'
  BY <1>4 DEF Ready, Carried
<1>6. Answered'
  BY <1>2 DEF Answered, Carried
<1> QED BY <1>3, <1>4, <1>5, <1>6

LEMMA PollWaitsKeeps == ASSUME IInv, Poll, PollWaits PROVE IInv'
<1>1. UNCHANGED <<chip, incoming, answer>>
  BY DEF PollWaits
<1>2. /\ chip \in Channel /\ incoming \in Seq(Frame)
      /\ port \in [offered : Whole \union {NoFrame}, offeredLines : Nat, offers : Nat]
  BY DEF IInv, TypeOK
<1>3. port' \in [offered : Whole \union {NoFrame}, offeredLines : Nat, offers : Nat]
  BY <1>2 DEF PollWaits
<1>4. Carried(chip, chip')
  BY <1>1, <1>2 DEF Carried, SameSent
<1> QED BY <1>1, <1>2, <1>3, <1>4, PollKeeps

LEMMA OfferIs ==
  ASSUME NEW c \in Channel, NEW f \in Whole
  PROVE  /\ Carried(c, Offer(c, f))
         /\ c.rxQueue # <<>> /\ Len(c.rxQueue) < MaxQueued => HeadKept(c, Offer(c, f), 1)
<1>1. f[1] \in Nat /\ f[2] \in Nat
  BY DEF Whole
<1>2. <<To(f), From(f), lapRts>> \in Seq(Nat)
  BY <1>1 DEF To, From, lapRts
<1> QED BY <1>2, ReceiveKeeps DEF Offer

LEMMA PollOffersAgainKeeps == ASSUME IInv, Poll, PollOffersAgain PROVE IInv'
<1>1. /\ port.offered # NoFrame /\ ~StillWaiting
      /\ port' = OfferedAgain(port) /\ chip' = Offer(chip, port.offered)
      /\ UNCHANGED <<incoming, answer>>
  BY DEF PollOffersAgain
<1>2. /\ chip \in Channel /\ incoming \in Seq(Frame)
      /\ port \in [offered : Whole \union {NoFrame}, offeredLines : Nat, offers : Nat]
  BY DEF IInv, TypeOK
<1>3. port' \in [offered : Whole \union {NoFrame}, offeredLines : Nat, offers : Nat]
  <2>1. port.offers + 1 \in Nat /\ 0 \in Nat
    BY <1>2
  <2>2. port' = [port EXCEPT !.offers = port.offers + 1, !.offeredLines = 0]
    BY <1>1, <1>2 DEF OfferedAgain
  <2> QED BY <1>2, <2>1, <2>2
<1>4. port.offered \in Whole
  BY <1>1, <1>2
<1>5. Carried(chip, chip')
  BY <1>1, <1>2, <1>4, OfferIs
<1>6. chip.rxQueue = <<>>
  <2>1. chip.rxQueue \in Seq(Frame)
    BY <1>2 DEF Channel
  <2>2. ~(FramesWaiting(chip) > 0)
    BY <1>1 DEF StillWaiting
  <2>3. ASSUME NEW q \in Seq(Frame), NEW n \in {0, 1}, ~(Len(q) + n > 0)
        PROVE  q = <<>>
    BY <2>3
  <2> QED BY <2>1, <2>2, <2>3 DEF FramesWaiting
<1>7. answer.frame = NoFrame
  BY <1>6 DEF IInv, Answered
<1> QED BY <1>1, <1>2, <1>3, <1>5, <1>7, PollKeeps

LEMMA FirstIs ==
  ASSUME NEW q \in Seq(Frame)
  PROVE  LET first == SelectInSeq(q, HasToBeOffered)
         IN  first = 0 \/ (first \in 1..Len(q) /\ HasToBeOffered(q[first]))
<1> DEFINE I == {i \in 1..Len(q) : HasToBeOffered(q[i])}
<1>1. SelectInSeq(q, HasToBeOffered) = IF I # {} THEN Min(I) ELSE 0
  BY DEF SelectInSeq
<1>2. I \subseteq Nat
  OBVIOUS
<1>3. ASSUME I # {} PROVE Min(I) \in I
  <2> HIDE DEF I
  <2>1. \E i \in I : \A j \in I : i <= j
    BY <1>2, <1>3, LeastOf
  <2> QED BY <2>1 DEF Min
<1>4. CASE I = {}
  BY <1>1, <1>4
<1>5. CASE I # {}
  <2>1. SelectInSeq(q, HasToBeOffered) \in I
    <3> HIDE DEF I
    <3> QED BY <1>1, <1>3, <1>5
  <2> QED BY <2>1
<1> QED BY <1>4, <1>5

LEMMA NothingOnTheWire ==
  ASSUME NEW c
  PROVE  AllOnTheWire(c, <<>>) = c
<1>1. DOMAIN <<>> = 1..0 /\ 0 \in Nat
  OBVIOUS
<1>2. PICK w : Steps(w, c, <<>>, 0)
  BY <1>1, FoldSteps
<1> QED BY <1>2 DEF Steps

LEMMA PollTakesKeeps == ASSUME IInv, Poll, PollTakes PROVE IInv'
<1> DEFINE first == SelectInSeq(incoming, HasToBeOffered)
           through == IF first = 0 THEN incoming ELSE SubSeq(incoming, 1, first - 1)
           wired == AllOnTheWire(chip, through)
           full == incoming # <<>> /\ Len(chip.rxQueue) + Len(incoming) > MaxQueued
           acks == \E i \in DOMAIN through : IsAck(through[i])
<1>1. /\ chip \in Channel /\ incoming \in Seq(Frame) /\ chip.rxQueue \in Seq(Frame)
      /\ port \in [offered : Whole \union {NoFrame}, offeredLines : Nat, offers : Nat]
  BY DEF IInv, TypeOK, Channel
<1>2. /\ IF first = 0
         THEN /\ port' = [port EXCEPT !.offered = NoFrame]
              /\ chip' = wired
              /\ incoming' = <<>>
         ELSE /\ port' = [offered |-> incoming[first], offeredLines |-> 0, offers |-> 1]
              /\ chip' = Offer(wired, incoming[first])
              /\ incoming' = SubSeq(incoming, first + 1, Len(incoming))
      /\ answer' = IF full \/ acks THEN NoAnswer ELSE answer
  BY DEF PollTakes
<1>3. first = 0 \/ (first \in 1..Len(incoming) /\ HasToBeOffered(incoming[first]))
  BY <1>1, FirstIs
<1> HIDE DEF first
<1>4. ASSUME NEW q \in Seq(Frame), NEW i \in 1..Len(q)
      PROVE  /\ SubSeq(q, 1, i - 1) \in Seq(Frame) /\ Len(SubSeq(q, 1, i - 1)) = i - 1
             /\ SubSeq(q, i + 1, Len(q)) \in Seq(Frame) /\ q[i] \in Frame
  OBVIOUS
<1>5. /\ through \in Seq(Frame) /\ Len(through) <= Len(incoming)
      /\ first # 0 => Len(through) < Len(incoming)
  BY <1>1, <1>3, <1>4
<1>6. ASSUME first # 0 PROVE incoming[first] \in Whole
  <2>1. incoming[first] \in Frame
    BY <1>1, <1>3, <1>4, <1>6
  <2> QED BY <1>3, <1>6, <2>1 DEF Frame, Whole, HasToBeOffered
<1>7. incoming' \in Seq(Frame)
  <2>1. <<>> \in Seq(Frame)
    OBVIOUS
  <2> QED BY <1>1, <1>2, <1>3, <1>4, <2>1
<1>8. port' \in [offered : Whole \union {NoFrame}, offeredLines : Nat, offers : Nat]
  BY <1>1, <1>2, <1>6
<1> HIDE DEF through
<1> DEFINE Calm == /\ chip.rxQueue # <<>> /\ Len(chip.rxQueue) + Len(through) <= MaxQueued
                   /\ ~acks
<1>9. /\ Carried(chip, wired) /\ wired \in Channel
      /\ Calm => HeadKept(chip, wired, Len(through))
  BY <1>1, <1>5, AllOnTheWireKeep DEF Carried
<1>10. incoming = <<>> => first = 0 /\ wired = chip
  <2>1. ASSUME incoming = <<>> PROVE first = 0 /\ through = <<>>
    BY <1>3, <2>1 DEF through
  <2> QED BY <2>1, NothingOnTheWire
<1> HIDE DEF wired, acks
<1>11. Carried(chip, chip')
  <2>1. CASE first = 0
    BY <1>2, <1>9, <2>1
  <2>2. CASE first # 0
    <3>1. Carried(wired, chip')
      BY <1>2, <1>6, <1>9, <2>2, OfferIs
    <3> QED BY <1>9, <3>1, CarriedAgain
  <2> QED BY <2>1, <2>2
<1>12. ASSUME answer'.frame # NoFrame
       PROVE  \/ chip' = chip
              \/ /\ chip'.rxQuiet = chip.rxQuiet
                 /\ chip'.rxQueue # <<>> /\ chip'.rxQueue[1] = chip.rxQueue[1]
  <2>1. ~full /\ ~acks /\ answer' = answer
    BY <1>2, <1>12 DEF NoAnswer
  <2>2. chip.rxQueue # <<>>
    BY <1>12, <2>1 DEF IInv, Answered
  <2>3. CASE incoming = <<>>
    BY <1>2, <1>10, <2>3
  <2>4. CASE incoming # <<>>
    <3>1. /\ Len(chip.rxQueue) \in Nat /\ Len(incoming) \in Nat /\ Len(through) \in Nat
          /\ MaxQueued \in Nat
      BY <1>1, <1>5, PortAssumption
    <3>2. Len(chip.rxQueue) + Len(incoming) <= MaxQueued
      BY <2>1, <2>4, <3>1
    <3>3. HeadKept(chip, wired, Len(through))
      BY <1>5, <1>9, <2>1, <2>2, <3>1, <3>2
    <3>4. CASE first = 0
      BY <1>2, <3>3, <3>4 DEF HeadKept
    <3>5. CASE first # 0
      <4>1. /\ wired.rxQueue # <<>> /\ wired.rxQueue[1] = chip.rxQueue[1]
            /\ wired.rxQuiet = chip.rxQuiet
            /\ Len(wired.rxQueue) <= Len(chip.rxQueue) + Len(through)
        BY <3>3 DEF HeadKept
      <4>2. Len(wired.rxQueue) \in Nat
        <5>1. wired.rxQueue \in Seq(Frame)
          BY <1>9 DEF Channel
        <5> QED BY <5>1
      <4>3. Len(wired.rxQueue) < MaxQueued
        BY <1>5, <3>1, <3>2, <3>5, <4>1, <4>2
      <4>4. HeadKept(wired, chip', 1)
        BY <1>2, <1>6, <1>9, <3>5, <4>1, <4>3, OfferIs
      <4> QED BY <4>1, <4>4 DEF HeadKept
    <3> QED BY <3>4, <3>5
  <2> QED BY <2>3, <2>4
<1>13. answer' \in {NoAnswer, answer}
  BY <1>2
<1> QED BY <1>7, <1>8, <1>11, <1>12, <1>13, PollKeeps

-----------------------------------------------------------------------------
(* Every step.                                                             *)

LEMMA StutterKeeps == ASSUME IInv, UNCHANGED vars PROVE IInv'
<1>1. TypeOK' /\ Ready' /\ Answered'
  BY DEF IInv, vars, TypeOK, Ready, Answered, IsSdlc
<1>2. Transmitter'
  BY SentKeeps DEF IInv, vars, SameSent
<1> QED BY <1>1, <1>2 DEF IInv

LEMMA NextKeeps == ASSUME IInv, [Next]_vars PROVE IInv'
<1>1. CASE Poll
  BY <1>1, PollWaitsKeeps, PollOffersAgainKeeps, PollTakesKeeps DEF Poll
<1>2. CASE Chip
  BY <1>2, ByteLeavesKeeps, QuietPassesKeeps, StartsKeeps, ReceivesKeeps DEF Chip
<1>3. CASE Driver
  BY <1>3, TurnOnKeeps, SendKeeps, WriteByteKeeps, ResetEomKeeps, EndedKeeps,
     InterruptKeeps, ReadByteKeeps DEF Driver
<1>4. CASE Deliver \/ TurnOff \/ CtsTimeout \/ Reset
  BY <1>4, DeliverKeeps, TurnOffKeeps, CtsTimeoutKeeps, ResetKeeps
<1>5. CASE UNCHANGED vars
  BY <1>5, StutterKeeps
<1> QED BY <1>1, <1>2, <1>3, <1>4, <1>5 DEF Next

THEOREM Invariance == Spec => []IInv
<1>1. Init => IInv
  BY InitKeeps
<1>2. IInv /\ [Next]_vars => IInv'
  BY NextKeeps
<1> QED BY <1>1, <1>2, PTL DEF Spec

\* Every variable keeps its type, whatever is sent: a frame that is looked
\* into has the three bytes the code looks at, in the port (SendFrame, poll
\* and offer of src/appletalk.go) and in the driver.
THEOREM TypeCorrect == Spec => []TypeOK
<1>1. IInv => TypeOK
  BY DEF IInv
<1> QED BY <1>1, Invariance, PTL

\* The frames of the driver reach the network whole, in order and once, for
\* every list of frames it has to send and every interleaving of the network,
\* of its receiver and of resets: a byte that leaves with nothing behind it
\* leaves the frame open until the latch is reset (transmit, tick and
\* transmitterDry of the SCC, SendFrame of src/appletalk.go).
THEOREM FramesGetOutWhole == Spec => []SentAsWritten
<1>1. IInv => SentAsWritten
  BY DEF IInv, Transmitter, Open, WrittenOut, Silent, Given, SentAsWritten
<1> QED BY <1>1, Invariance, PTL

\* The answer to a lapRTS or a lapCTS of the machine is the next frame on the
\* wire, with no quiet before it that was not there for a frame on the wire
\* already.  That is promised until a lapACK goes ahead or the queue of the
\* receiver, full of what has arrived, drops its head; either ends it
\* (AnswerFrame of src/component/scc8530Sdlc.go).
THEOREM AnswersAreNext == Spec => []AnswersComeNext
<1>1. IInv => AnswersComeNext
  BY DEF IInv, Answered, AnswersComeNext
<1> QED BY <1>1, Invariance, PTL

-----------------------------------------------------------------------------
(* The order in which the driver takes the data frames of the network.     *)

\* A data frame, which its number tells from every other, one for this machine
\* or station alone, and a lapRTS.
Numbered(f) == Len(f) >= 3 /\ IsData(f)
Directed(f) == Numbered(f) /\ To(f) # Broadcast
Calls(f) == Kind(f) = lapRts

\* Of two frames: not the same one and not both for one station, or the first
\* is the older one then.
Apart(f, g) ==
  Numbered(f) /\ Numbered(g) => Kind(f) # Kind(g) /\ ~(Directed(f) /\ Directed(g))
Before(f, g) ==
  Numbered(f) /\ Numbered(g) =>
    Kind(f) # Kind(g) /\ (Directed(f) /\ Directed(g) => Kind(f) < Kind(g))

Among(s) == {s[i] : i \in 1..Len(s)}
AllApart(X, Y) == \A f \in X, g \in Y : Apart(f, g)
AllBefore(X, Y) == \A f \in X, g \in Y : Before(f, g)
EachApart(s) == \A i, j \in 1..Len(s) : i # j => Apart(s[i], s[j])
EachBefore(s) == \A i, j \in 1..Len(s) : i < j => Before(s[i], s[j])

\* The frame without what the receiver adds to it.
Top(s) == <<s[1], s[2], s[3]>>

\* The driver has a whole frame but for its last byte, which is the next.
Complete ==
  /\ mpp.doing = "reading" /\ ~chip.overrun
  /\ Len(mpp.in) = 4 /\ Len(chip.rxFifo) = 1 /\ chip.rxFifo[1].endOfFrame

\* Where a frame can be: with the driver, on the wire, on offer.
Read == IF Complete THEN {Top(mpp.in)} ELSE {}
OnWire == IF chip.rxWire = <<>> THEN {} ELSE {Top(chip.rxWire)}
Offers == IF port.offered = NoFrame THEN {} ELSE {port.offered}

\* What was taken is older than what is on its way, that than the frame on
\* offer, and that than what is yet to come; a is the last number given.
Order(t, R, W, q, O, next, a) ==
  /\ EachBefore(t) /\ EachBefore(next) /\ EachApart(q)
  /\ \A f \in Among(t) : Numbered(f)
  /\ AllBefore(Among(t), R \union W \union Among(q) \union O \union Among(next))
  /\ AllBefore(R \union W \union Among(q), O \union Among(next))
  /\ AllBefore(O, Among(next))
  /\ AllApart(R, W) /\ AllApart(R, Among(q)) /\ AllApart(W, Among(q))
  /\ \A f \in Among(t) \union R \union W \union Among(q) \union O \union Among(next) :
       Numbered(f) => Kind(f) <= a

\* The lapRTS of the queue: none, one and two at most, and nothing for one
\* station behind one of them.
NoCall(q) == \A i \in 1..Len(q) : ~Calls(q[i])
OneCall(q) == \A i, j \in 1..Len(q) : i < j => ~(Calls(q[i]) /\ Calls(q[j]))
TwoCalls(q) ==
  \A i, j, k \in 1..Len(q) : i < j /\ j < k => ~(Calls(q[i]) /\ Calls(q[j]) /\ Calls(q[k]))
CallsLast(q) == \A i, j \in 1..Len(q) : i < j /\ Calls(q[i]) => ~Directed(q[j])

\* A lapRTS has the machine's attention from when it is read until the lapCTS
\* is out (heeded), and there is one more at most than there is to offer; when
\* the quiet behind the one being read is cut short it is for something else.
Turn(W, q, O, heeded, called, quiet) ==
  LET taken == heeded \/ \E f \in W : Calls(f)
  IN  /\ CallsLast(q)
      /\ taken => \A f \in Among(q) : ~Directed(f)
      /\ heeded => \A f \in W : ~Directed(f) /\ ~Calls(f)
      /\ called /\ ~quiet /\ W = {} => q # <<>> /\ ~Calls(q[1])
      /\ IF O = {} THEN OneCall(q) /\ (taken => NoCall(q))
                   ELSE TwoCalls(q) /\ (taken => OneCall(q))

Called == \E f \in Read : Calls(f)
Answering ==
  /\ mpp.doing \in {"sending", "ending"} /\ Kind(mpp.frame) = lapCts
  /\ mpp.doing = "ending" => ~chip.txUnderrunEom

InOrder ==
  /\ Order(took, Read, OnWire, chip.rxQueue, Offers, incoming, counts.arrivals)
  /\ Turn(OnWire, chip.rxQueue, Offers, Called \/ Answering, Called, chip.rxQuiet)

\* Every frame has the three bytes that are modelled.
Threes ==
  /\ \A i \in 1..Len(chip.rxQueue) : Len(chip.rxQueue[i]) = 3
  /\ chip.rxWire # <<>> => Len(chip.rxWire) = 5
  /\ chip.rxWire = <<>> => chip.rxPosition = 0
  /\ port.offered # NoFrame => Len(port.offered) = 3 /\ Directed(port.offered)
  /\ \A i \in 1..Len(incoming) : Len(incoming[i]) >= 3 =>
       Len(incoming[i]) = 3 /\ ~IsHandshake(incoming[i])

\* What the driver is doing shows in the chip.
Driven ==
  /\ mpp.doing # "reading" => mpp.in = <<>>
  /\ mpp.doing \in {"listening", "reading"} => "rx" \in chip.write[3]
  /\ mpp.doing \in {"sending", "ending"} => "rx" \notin chip.write[3]
  /\ mpp.then # NoFrame => IsData(mpp.then)
  /\ ~chip.endOfFrame

\* Behind the first e bytes of the receiver, the last of which ends a frame,
\* it holds the last that came of the frame on the wire, and so does the driver
\* before them if it has begun with that one.
Held(e, in, fifo, wire, position, accepted) ==
  LET n == Len(in)
      m == Len(fifo)
  IN  /\ e = 0 \/ fifo[e].endOfFrame
      /\ m - e <= position
      /\ \A i \in e+1..m : ~fifo[i].endOfFrame /\ fifo[i].value = wire[(position + i) - m]
      /\ e = 0 => n + m <= position /\ \A k \in 1..n : in[k] = wire[(position + k) - (n + m)]
      /\ m > e \/ (e = 0 /\ n > 0) => accepted

Behind(e) ==
  /\ Held(e, mpp.in, chip.rxFifo, chip.rxWire, chip.rxPosition, chip.rxAccepted)
  /\ e > 0 => Complete \/ Len(mpp.in) + Len(chip.rxFifo) <= 4
  /\ "rx" \notin chip.write[3] => e = Len(chip.rxFifo) /\ mpp.in = <<>>

Stream ==
  mpp.doing # "off" /\ ~chip.overrun =>
    /\ Len(chip.rxFifo) <= FifoSize
    /\ \E e \in 0..Len(chip.rxFifo) : Behind(e)

-----------------------------------------------------------------------------
(* Frames among others.                                                    *)

LEMMA AmongIs ==
  ASSUME NEW S, NEW q \in Seq(S), NEW f
  PROVE  /\ Among(<<>>) = {}
         /\ Among(Append(q, f)) = Among(q) \union {f}
         /\ Among(<<f>> \o q) = Among(q) \union {f}
         /\ q # <<>> => q[1] \in Among(q) /\ Among(Tail(q)) \subseteq Among(q)
<1>1. Among(<<>>) = {}
  BY DEF Among
<1>2. Among(Append(q, f)) = Among(q) \union {f}
  <2> DEFINE s == Append(q, f)
  <2>1. Len(s) = Len(q) + 1 /\ (\A i \in 1..Len(q) : s[i] = q[i]) /\ s[Len(q) + 1] = f /\ Len(q) \in Nat
    OBVIOUS
  <2> HIDE DEF s
  <2>2. 1..Len(s) = (1..Len(q)) \union {Len(q) + 1}
    BY <2>1
  <2> QED BY <2>1, <2>2 DEF s, Among
<1>3. Among(<<f>> \o q) = Among(q) \union {f}
  <2> DEFINE s == <<f>> \o q
  <2>1. Len(s) = Len(q) + 1 /\ (\A i \in 1..Len(q) : s[i + 1] = q[i]) /\ s[1] = f /\ Len(q) \in Nat
    OBVIOUS
  <2> HIDE DEF s
  <2>2. \A i \in 1..Len(s) : i = 1 \/ (i - 1 \in 1..Len(q) /\ s[i] = q[i - 1])
    <3>1. ASSUME NEW i \in 1..Len(s), i # 1 PROVE i - 1 \in 1..Len(q) /\ s[i] = q[i - 1]
      BY <2>1, <3>1
    <3> QED BY <3>1
  <2>3. \A i \in 1..Len(q) : i + 1 \in 1..Len(s)
    BY <2>1
  <2>4. Among(s) \subseteq Among(q) \union {f}
    BY <2>1, <2>2 DEF Among
  <2>5. f \in Among(s)
    BY <2>1 DEF Among
  <2>6. Among(q) \subseteq Among(s)
    BY <2>1, <2>3 DEF Among
  <2> QED BY <2>4, <2>5, <2>6 DEF s
<1>4. ASSUME q # <<>> PROVE q[1] \in Among(q) /\ Among(Tail(q)) \subseteq Among(q)
  <2>1. Len(q) \in Nat \ {0} /\ Len(Tail(q)) = Len(q) - 1
        /\ \A i \in 1..Len(Tail(q)) : Tail(q)[i] = q[i + 1] /\ i + 1 \in 1..Len(q)
    BY <1>4
  <2>2. 1 \in 1..Len(q)
    BY <2>1
  <2> QED BY <2>1, <2>2 DEF Among
<1> QED BY <1>1, <1>2, <1>3, <1>4

LEMMA ApartBothWays ==
  ASSUME NEW f, NEW g
  PROVE  /\ Apart(f, g) => Apart(g, f) /\ Before(f, g)
         /\ Before(f, g) /\ (~Directed(f) \/ ~Directed(g)) => Apart(f, g) /\ Apart(g, f)
         /\ ~Numbered(f) \/ ~Numbered(g) => Apart(f, g) /\ Before(f, g)
BY DEF Apart, Before

LEMMA EachOf ==
  ASSUME NEW S, NEW q \in Seq(S), NEW f
  PROVE  /\ EachApart(<<>>) /\ EachBefore(<<>>)
         /\ EachApart(q) /\ AllApart({f}, Among(q)) =>
              EachApart(Append(q, f)) /\ EachApart(<<f>> \o q)
         /\ EachBefore(q) /\ AllBefore(Among(q), {f}) => EachBefore(Append(q, f))
         /\ q # <<>> /\ EachApart(q) => EachApart(Tail(q)) /\ AllApart({q[1]}, Among(Tail(q)))
         /\ q # <<>> /\ EachBefore(q) => EachBefore(Tail(q)) /\ AllBefore({q[1]}, Among(Tail(q)))
<1>1. EachApart(<<>>) /\ EachBefore(<<>>)
  BY DEF EachApart, EachBefore
<1> DEFINE s == Append(q, f)
           r == <<f>> \o q
<1>2. /\ Len(q) \in Nat
      /\ Len(s) = Len(q) + 1 /\ (\A i \in 1..Len(q) : s[i] = q[i]) /\ s[Len(q) + 1] = f
      /\ Len(r) = Len(q) + 1 /\ (\A i \in 1..Len(q) : r[i + 1] = q[i]) /\ r[1] = f
  OBVIOUS
<1> HIDE DEF s, r
<1>3. /\ \A i \in 1..Len(s) : i = Len(q) + 1 \/ (i \in 1..Len(q) /\ s[i] = q[i])
      /\ \A i \in 1..Len(r) : i = 1 \/ (i - 1 \in 1..Len(q) /\ r[i] = q[i - 1])
  <2>1. ASSUME NEW i \in 1..Len(r), i # 1 PROVE i - 1 \in 1..Len(q) /\ r[i] = q[i - 1]
    BY <1>2, <2>1
  <2> QED BY <1>2, <2>1
<1>4. ASSUME EachApart(q), AllApart({f}, Among(q))
      PROVE  EachApart(s) /\ EachApart(r)
  <2>1. \A i \in 1..Len(q) : Apart(f, q[i]) /\ Apart(q[i], f)
    BY <1>4, ApartBothWays DEF AllApart, Among
  <2>2. ASSUME NEW i \in 1..Len(s), NEW j \in 1..Len(s), i # j PROVE Apart(s[i], s[j])
    BY <1>2, <1>3, <1>4, <2>1, <2>2 DEF EachApart
  <2>3. ASSUME NEW i \in 1..Len(r), NEW j \in 1..Len(r), i # j PROVE Apart(r[i], r[j])
    <3>1. CASE i = 1 \/ j = 1
      BY <1>2, <1>3, <2>1, <2>3, <3>1
    <3>2. CASE i # 1 /\ j # 1
      <4>1. i - 1 \in 1..Len(q) /\ j - 1 \in 1..Len(q) /\ i - 1 # j - 1
        BY <1>3, <2>3, <3>2
      <4> QED BY <1>3, <1>4, <3>2, <4>1 DEF EachApart
    <3> QED BY <3>1, <3>2
  <2> QED BY <2>2, <2>3 DEF EachApart
<1>5. ASSUME EachBefore(q), AllBefore(Among(q), {f}) PROVE EachBefore(s)
  <2>1. \A i \in 1..Len(q) : Before(q[i], f)
    BY <1>5 DEF AllBefore, Among
  <2>2. ASSUME NEW i \in 1..Len(s), NEW j \in 1..Len(s), i < j PROVE Before(s[i], s[j])
    <3>1. i \in 1..Len(q) /\ s[i] = q[i]
      BY <1>2, <1>3, <2>2
    <3>2. CASE j = Len(q) + 1
      BY <1>2, <2>1, <3>1, <3>2
    <3>3. CASE j \in 1..Len(q)
      BY <1>2, <1>5, <2>2, <3>1, <3>3 DEF EachBefore
    <3> QED BY <1>3, <3>2, <3>3
  <2> QED BY <2>2 DEF EachBefore
<1>6. ASSUME q # <<>>
      PROVE  /\ Len(q) \in Nat \ {0} /\ Len(Tail(q)) = Len(q) - 1
             /\ \A i \in 1..Len(Tail(q)) :
                  Tail(q)[i] = q[i + 1] /\ i + 1 \in 1..Len(q) /\ i + 1 # 1 /\ 1 < i + 1
             /\ 1 \in 1..Len(q)
  BY <1>6
<1>7. ASSUME q # <<>>, EachApart(q)
      PROVE  EachApart(Tail(q)) /\ AllApart({q[1]}, Among(Tail(q)))
  <2> DEFINE u == Tail(q)
  <2>1. /\ Len(u) = Len(q) - 1 /\ 1 \in 1..Len(q)
        /\ \A i \in 1..Len(u) : u[i] = q[i + 1] /\ i + 1 \in 1..Len(q) /\ i + 1 # 1
    BY <1>6, <1>7
  <2> HIDE DEF u
  <2>2. ASSUME NEW i \in 1..Len(u), NEW j \in 1..Len(u), i # j PROVE Apart(u[i], u[j])
    BY <1>7, <2>1, <2>2 DEF EachApart
  <2>3. ASSUME NEW i \in 1..Len(u) PROVE Apart(q[1], u[i])
    BY <1>7, <2>1 DEF EachApart
  <2>4. AllApart({q[1]}, Among(u))
    BY <2>3 DEF AllApart, Among
  <2> QED BY <2>2, <2>4 DEF EachApart, u
<1>8. ASSUME q # <<>>, EachBefore(q)
      PROVE  EachBefore(Tail(q)) /\ AllBefore({q[1]}, Among(Tail(q)))
  <2> DEFINE u == Tail(q)
  <2>1. /\ Len(u) = Len(q) - 1 /\ 1 \in 1..Len(q)
        /\ \A i \in 1..Len(u) : u[i] = q[i + 1] /\ i + 1 \in 1..Len(q) /\ 1 < i + 1
    BY <1>6, <1>8
  <2> HIDE DEF u
  <2>2. ASSUME NEW i \in 1..Len(u), NEW j \in 1..Len(u), i < j PROVE Before(u[i], u[j])
    <3>1. i + 1 < j + 1
      BY <2>2
    <3> QED BY <1>8, <2>1, <3>1 DEF EachBefore
  <2>3. ASSUME NEW i \in 1..Len(u) PROVE Before(q[1], u[i])
    BY <1>8, <2>1 DEF EachBefore
  <2>4. AllBefore({q[1]}, Among(u))
    BY <2>3 DEF AllBefore, Among
  <2> QED BY <2>2, <2>4 DEF EachBefore, u
<1> QED BY <1>1, <1>4, <1>5, <1>7, <1>8 DEF s, r

\* Frames that are no longer there disturb nothing.
LEMMA OrderOfLess ==
  ASSUME NEW t, NEW R, NEW W, NEW q, NEW O, NEW next, NEW a, Order(t, R, W, q, O, next, a),
         NEW P \in SUBSET R, NEW V \in SUBSET W, NEW N \in SUBSET O,
         NEW r, Among(r) \subseteq Among(q), EachApart(r),
         NEW rest, Among(rest) \subseteq Among(next), EachBefore(rest)
  PROVE  Order(t, P, V, r, N, rest, a)
<1>1. /\ EachBefore(t) /\ (\A f \in Among(t) : Numbered(f))
      /\ AllBefore(Among(t), P \union V \union Among(r) \union N \union Among(rest))
  BY DEF Order, AllBefore
<1>2. /\ AllBefore(P \union V \union Among(r), N \union Among(rest))
      /\ AllBefore(N, Among(rest))
  BY DEF Order, AllBefore
<1>3. AllApart(P, V) /\ AllApart(P, Among(r)) /\ AllApart(V, Among(r))
  BY DEF Order, AllApart
<1>4. \A f \in Among(t) \union P \union V \union Among(r) \union N \union Among(rest) :
        Numbered(f) => Kind(f) <= a
  BY DEF Order
<1> QED BY <1>1, <1>2, <1>3, <1>4 DEF Order

\* The first of the queue goes on the wire.
LEMMA OrderOfStart ==
  ASSUME NEW t, NEW R, NEW S, NEW q \in Seq(S), NEW O, NEW next, NEW a,
         Order(t, R, {}, q, O, next, a), q # <<>>
  PROVE  Order(t, R, {q[1]}, Tail(q), O, next, a)
<1>1. /\ q[1] \in Among(q) /\ Among(Tail(q)) \subseteq Among(q)
      /\ EachApart(Tail(q)) /\ AllApart({q[1]}, Among(Tail(q)))
  BY AmongIs, EachOf DEF Order
<1>2. /\ EachBefore(t) /\ EachBefore(next) /\ (\A f \in Among(t) : Numbered(f))
      /\ AllBefore(Among(t), R \union {q[1]} \union Among(Tail(q)) \union O \union Among(next))
  BY <1>1 DEF Order, AllBefore
<1>3. /\ AllBefore(R \union {q[1]} \union Among(Tail(q)), O \union Among(next))
      /\ AllBefore(O, Among(next))
  BY <1>1 DEF Order, AllBefore
<1>4. AllApart(R, {q[1]}) /\ AllApart(R, Among(Tail(q)))
  BY <1>1 DEF Order, AllApart
<1>5. \A f \in Among(t) \union R \union {q[1]} \union Among(Tail(q)) \union O \union Among(next) :
        Numbered(f) => Kind(f) <= a
  BY <1>1 DEF Order
<1> QED BY <1>1, <1>2, <1>3, <1>4, <1>5 DEF Order

\* The driver has the frame that was on the wire.
LEMMA OrderOfRead ==
  ASSUME NEW t, NEW W, NEW q, NEW O, NEW next, NEW a, Order(t, {}, W, q, O, next, a)
  PROVE  Order(t, W, {}, q, O, next, a)
BY DEF Order, AllApart, AllBefore

\* It takes it.
LEMMA OrderOfTaken ==
  ASSUME NEW S, NEW t \in Seq(S), NEW f, NEW W, NEW q, NEW O, NEW next, NEW a,
         Order(t, {f}, W, q, O, next, a), Numbered(f)
  PROVE  Order(Append(t, f), {}, W, q, O, next, a)
<1>1. Among(Append(t, f)) = Among(t) \union {f}
  BY AmongIs
<1>2. EachBefore(Append(t, f))
  <2>1. EachBefore(t) /\ AllBefore(Among(t), {f})
    BY DEF Order, AllBefore
  <2> QED BY <2>1, EachOf
<1>3. AllBefore({f}, W \union Among(q) \union O \union Among(next))
  BY ApartBothWays DEF Order, AllApart, AllBefore
<1>4. AllBefore(Among(t) \union {f}, {} \union W \union Among(q) \union O \union Among(next))
  BY <1>3 DEF Order, AllBefore
<1>5. AllBefore({} \union W \union Among(q), O \union Among(next)) /\ AllBefore(O, Among(next))
  BY DEF Order, AllBefore
<1>6. AllApart({}, W) /\ AllApart({}, Among(q)) /\ AllApart(W, Among(q))
  BY DEF Order, AllApart
<1>7. \A g \in (Among(t) \union {f}) \union {} \union W \union Among(q) \union O \union Among(next) :
        Numbered(g) => Kind(g) <= a
  BY DEF Order
<1>8. EachBefore(next) /\ EachApart(q) /\ \A g \in Among(t) \union {f} : Numbered(g)
  BY DEF Order
<1> QED BY <1>1, <1>2, <1>4, <1>5, <1>6, <1>7, <1>8 DEF Order

\* A frame that belongs nowhere in the order goes anywhere in the queue.
LEMMA OrderOfOther ==
  ASSUME NEW t, NEW R, NEW W, NEW S, NEW q \in Seq(S), NEW O, NEW next, NEW a, NEW f,
         Order(t, R, W, q, O, next, a), ~Numbered(f)
  PROVE  /\ Order(t, R, W, Append(q, f), O, next, a)
         /\ Order(t, R, W, <<f>> \o q, O, next, a)
<1>1. ASSUME NEW X PROVE AllApart({f}, X) /\ AllApart(X, {f}) /\ AllBefore({f}, X) /\ AllBefore(X, {f})
  BY ApartBothWays DEF AllApart, AllBefore
<1>2. Among(Append(q, f)) = Among(q) \union {f} /\ Among(<<f>> \o q) = Among(q) \union {f}
  BY AmongIs
<1>3. EachApart(Append(q, f)) /\ EachApart(<<f>> \o q)
  <2>1. EachApart(q) /\ AllApart({f}, Among(q))
    BY <1>1 DEF Order
  <2> QED BY <2>1, EachOf
<1> DEFINE Q == Among(q) \union {f}
<1>4. /\ AllBefore(Among(t), R \union W \union Q \union O \union Among(next))
      /\ AllBefore(R \union W \union Q, O \union Among(next))
  BY <1>1 DEF Order, AllBefore
<1>5. AllApart(R, Q) /\ AllApart(W, Q)
  BY <1>1 DEF Order, AllApart
<1>6. \A g \in Among(t) \union R \union W \union Q \union O \union Among(next) :
        Numbered(g) => Kind(g) <= a
  BY DEF Order
<1>7. /\ EachBefore(t) /\ EachBefore(next) /\ (\A g \in Among(t) : Numbered(g))
      /\ AllBefore(O, Among(next)) /\ AllApart(R, W)
  BY DEF Order
<1>8. ASSUME NEW r, Among(r) = Q, EachApart(r) PROVE Order(t, R, W, r, O, next, a)
  BY <1>4, <1>5, <1>6, <1>7, <1>8 DEF Order
<1> QED BY <1>2, <1>3, <1>8

\* The frame on offer goes to the head of a queue with nothing for one station.
LEMMA OrderOfAnswer ==
  ASSUME NEW t, NEW W, NEW S, NEW q \in Seq(S), NEW next, NEW a, NEW f,
         Order(t, {}, W, q, {f}, next, a),
         \A g \in W \union Among(q) : ~Directed(g)
  PROVE  Order(t, {}, W, <<f>> \o q, {}, next, a)
<1>1. AllApart({f}, W \union Among(q)) /\ AllApart(W \union Among(q), {f})
  <2>1. AllBefore(W \union Among(q), {f})
    BY DEF Order, AllBefore
  <2> QED BY <2>1, ApartBothWays DEF AllApart, AllBefore
<1>2. Among(<<f>> \o q) = Among(q) \union {f}
  BY AmongIs
<1>3. EachApart(<<f>> \o q)
  <2>1. EachApart(q) /\ AllApart({f}, Among(q))
    BY <1>1 DEF Order, AllApart
  <2> QED BY <2>1, EachOf
<1> DEFINE Q == Among(q) \union {f}
<1>4. /\ AllBefore(Among(t), {} \union W \union Q \union {} \union Among(next))
      /\ AllBefore({} \union W \union Q, {} \union Among(next)) /\ AllBefore({}, Among(next))
  BY DEF Order, AllBefore
<1>5. AllApart({}, W) /\ AllApart({}, Q) /\ AllApart(W, Q)
  BY <1>1 DEF Order, AllApart
<1>6. \A g \in Among(t) \union {} \union W \union Q \union {} \union Among(next) :
        Numbered(g) => Kind(g) <= a
  BY DEF Order
<1>7. EachBefore(t) /\ EachBefore(next) /\ \A g \in Among(t) : Numbered(g)
  BY DEF Order
<1> QED BY <1>2, <1>3, <1>4, <1>5, <1>6, <1>7 DEF Order

\* A frame arrives with the next number, or with none.
LEMMA OrderOfArrival ==
  ASSUME NEW t, NEW R, NEW W, NEW q, NEW O, NEW S, NEW next \in Seq(S), NEW a \in Nat, NEW f,
         Order(t, R, W, q, O, next, a), Numbered(f) => Kind(f) = a + 1,
         \A g \in Among(t) \union R \union W \union Among(q) \union O \union Among(next) :
           Numbered(g) => Kind(g) \in Nat
  PROVE  /\ Order(t, R, W, q, O, Append(next, f), a + 1)
         /\ Order(t, R, W, q, O, next, a + 1)
<1> DEFINE All == Among(t) \union R \union W \union Among(q) \union O \union Among(next)
<1>1. \A g \in All : Numbered(g) => Kind(g) <= a + 1
  BY DEF Order
<1>2. AllBefore(All, {f})
  <2>1. ASSUME NEW g \in All, Numbered(g), Numbered(f) PROVE Kind(g) < Kind(f)
    BY <2>1 DEF Order
  <2> QED BY <2>1 DEF AllBefore, Before
<1>3. Among(Append(next, f)) = Among(next) \union {f}
  BY AmongIs
<1>4. EachBefore(Append(next, f))
  <2>1. EachBefore(next) /\ AllBefore(Among(next), {f})
    BY <1>2 DEF Order, AllBefore
  <2> QED BY <2>1, EachOf
<1> DEFINE Next2 == Among(next) \union {f}
<1>5. /\ AllBefore(Among(t), R \union W \union Among(q) \union O \union Next2)
      /\ AllBefore(R \union W \union Among(q), O \union Next2)
      /\ AllBefore(O, Next2)
  BY <1>2 DEF Order, AllBefore
<1>6. /\ EachBefore(t) /\ EachApart(q) /\ (\A g \in Among(t) : Numbered(g))
      /\ AllApart(R, W) /\ AllApart(R, Among(q)) /\ AllApart(W, Among(q))
  BY DEF Order
<1>7. \A g \in Among(t) \union R \union W \union Among(q) \union O \union Next2 :
        Numbered(g) => Kind(g) <= a + 1
  BY <1>1
<1>8. Order(t, R, W, q, O, Append(next, f), a + 1)
  BY <1>3, <1>4, <1>5, <1>6, <1>7 DEF Order
<1>9. Order(t, R, W, q, O, next, a + 1)
  BY <1>1 DEF Order
<1> QED BY <1>8, <1>9

\* The first that waits goes to the end of the queue: it is for all of them.
LEMMA OrderOfNext ==
  ASSUME NEW t, NEW R, NEW W, NEW S, NEW q \in Seq(S), NEW T, NEW next \in Seq(T), NEW a,
         Order(t, R, W, q, {}, next, a), next # <<>>, ~Directed(next[1])
  PROVE  Order(t, R, W, Append(q, next[1]), {}, Tail(next), a)
<1> DEFINE f == next[1]
           Rest == Among(Tail(next))
           Q == Among(q) \union {f}
<1>1. /\ f \in Among(next) /\ Rest \subseteq Among(next)
      /\ EachBefore(Tail(next)) /\ AllBefore({f}, Rest)
  BY AmongIs, EachOf DEF Order
<1> HIDE DEF Rest, f
<1>2. AllApart({f}, Among(q)) /\ AllApart(R \union W, {f})
  <2>1. AllBefore(R \union W \union Among(q), {f})
    BY <1>1 DEF Order, AllBefore
  <2>2. ~Directed(f)
    BY DEF f
  <2> QED BY <2>1, <2>2, ApartBothWays DEF AllApart, AllBefore
<1>3. Among(Append(q, f)) = Q /\ EachApart(Append(q, f))
  <2>1. EachApart(q)
    BY DEF Order
  <2> QED BY <1>2, <2>1, AmongIs, EachOf
<1>4. /\ AllBefore(Among(t), R \union W \union Q \union {} \union Rest)
      /\ AllBefore(R \union W \union Q, {} \union Rest) /\ AllBefore({}, Rest)
  BY <1>1 DEF Order, AllBefore
<1>5. AllApart(R, W) /\ AllApart(R, Q) /\ AllApart(W, Q)
  BY <1>2 DEF Order, AllApart
<1>6. \A g \in Among(t) \union R \union W \union Q \union {} \union Rest :
        Numbered(g) => Kind(g) <= a
  BY <1>1 DEF Order
<1>7. EachBefore(t) /\ \A g \in Among(t) : Numbered(g)
  BY DEF Order
<1>8. Order(t, R, W, Append(q, f), {}, Tail(next), a)
  BY <1>1, <1>3, <1>4, <1>5, <1>6, <1>7 DEF Order, Rest
<1> QED BY <1>8 DEF f

\* Or it is the next on offer.
LEMMA OrderOfOffer ==
  ASSUME NEW t, NEW R, NEW W, NEW q, NEW T, NEW next \in Seq(T), NEW a,
         Order(t, R, W, q, {}, next, a), next # <<>>
  PROVE  Order(t, R, W, q, {next[1]}, Tail(next), a)
<1> DEFINE f == next[1]
           Rest == Among(Tail(next))
<1>1. /\ f \in Among(next) /\ Rest \subseteq Among(next)
      /\ EachBefore(Tail(next)) /\ AllBefore({f}, Rest)
  BY AmongIs, EachOf DEF Order
<1> HIDE DEF Rest, f
<1>2. /\ AllBefore(Among(t), R \union W \union Among(q) \union {f} \union Rest)
      /\ AllBefore(R \union W \union Among(q), {f} \union Rest)
  BY <1>1 DEF Order, AllBefore
<1>3. \A g \in Among(t) \union R \union W \union Among(q) \union {f} \union Rest :
        Numbered(g) => Kind(g) <= a
  BY <1>1 DEF Order
<1>4. /\ EachBefore(t) /\ EachApart(q) /\ (\A g \in Among(t) : Numbered(g))
      /\ AllApart(R, W) /\ AllApart(R, Among(q)) /\ AllApart(W, Among(q))
  BY DEF Order
<1>5. Order(t, R, W, q, {f}, Tail(next), a)
  BY <1>1, <1>2, <1>3, <1>4 DEF Order, Rest
<1> QED BY <1>5 DEF f

\* The lapRTS of a queue that gets and loses frames.
LEMMA CallsOfTail ==
  ASSUME NEW S, NEW q \in Seq(S), q # <<>>
  PROVE  /\ NoCall(q) => NoCall(Tail(q)) /\ ~Calls(q[1])
         /\ OneCall(q) => OneCall(Tail(q)) /\ (Calls(q[1]) => NoCall(Tail(q)))
         /\ TwoCalls(q) => TwoCalls(Tail(q)) /\ (Calls(q[1]) => OneCall(Tail(q)))
         /\ CallsLast(q) => /\ CallsLast(Tail(q))
                            /\ Calls(q[1]) => \A f \in Among(Tail(q)) : ~Directed(f)
<1> DEFINE u == Tail(q)
<1>1. /\ Len(q) \in Nat /\ Len(u) \in Nat /\ 1 \in 1..Len(q)
      /\ \A i \in 1..Len(u) : u[i] = q[i + 1] /\ i + 1 \in 1..Len(q) /\ 1 < i + 1
  <2>1. /\ Len(q) \in Nat \ {0} /\ Len(Tail(q)) = Len(q) - 1
        /\ \A i \in 1..Len(q)-1 : Tail(q)[i] = q[i + 1]
    BY HeadTailProperties
  <2> HIDE DEF u
  <2>2. /\ Len(q) \in Nat \ {0} /\ Len(u) = Len(q) - 1
        /\ \A i \in 1..Len(u) : u[i] = q[i + 1]
    BY <2>1 DEF u
  <2> QED BY <2>2
<1> HIDE DEF u
<1>2. ASSUME NoCall(q) PROVE NoCall(u) /\ ~Calls(q[1])
  BY <1>1, <1>2 DEF NoCall
<1>3. ASSUME OneCall(q) PROVE OneCall(u) /\ (Calls(q[1]) => NoCall(u))
  <2>1. ASSUME NEW i \in 1..Len(u), NEW j \in 1..Len(u), i < j
        PROVE  ~(Calls(u[i]) /\ Calls(u[j]))
    BY <1>1, <1>3, <2>1 DEF OneCall
  <2> QED BY <1>1, <1>3, <2>1 DEF OneCall, NoCall
<1>4. ASSUME TwoCalls(q) PROVE TwoCalls(u) /\ (Calls(q[1]) => OneCall(u))
  <2>1. ASSUME NEW i \in 1..Len(u), NEW j \in 1..Len(u), NEW k \in 1..Len(u), i < j, j < k
        PROVE  ~(Calls(u[i]) /\ Calls(u[j]) /\ Calls(u[k]))
    <3>1. i + 1 < j + 1 /\ j + 1 < k + 1
      BY <2>1
    <3> QED BY <1>1, <1>4, <3>1 DEF TwoCalls
  <2>2. ASSUME Calls(q[1]), NEW i \in 1..Len(u), NEW j \in 1..Len(u), i < j
        PROVE  ~(Calls(u[i]) /\ Calls(u[j]))
    <3>1. i + 1 < j + 1
      BY <2>2
    <3> QED BY <1>1, <1>4, <2>2, <3>1 DEF TwoCalls
  <2> QED BY <2>1, <2>2 DEF OneCall, TwoCalls
<1>5. ASSUME CallsLast(q)
      PROVE  CallsLast(u) /\ (Calls(q[1]) => \A f \in Among(u) : ~Directed(f))
  <2>1. ASSUME NEW i \in 1..Len(u), NEW j \in 1..Len(u), i < j, Calls(u[i])
        PROVE  ~Directed(u[j])
    BY <1>1, <1>5, <2>1 DEF CallsLast
  <2> QED BY <1>1, <1>5, <2>1 DEF CallsLast, Among
<1> QED BY <1>2, <1>3, <1>4, <1>5 DEF u

LEMMA CallsOfAppend ==
  ASSUME NEW S, NEW q \in Seq(S), NEW f
  PROVE  LET s == Append(q, f) IN
         /\ NoCall(q) => OneCall(s) /\ (~Calls(f) => NoCall(s))
         /\ OneCall(q) => TwoCalls(s) /\ (~Calls(f) => OneCall(s))
         /\ TwoCalls(q) /\ ~Calls(f) => TwoCalls(s)
         /\ CallsLast(q) /\ ~Directed(f) => CallsLast(s)
         /\ s # <<>> /\ s[1] \in Among(q) \union {f} /\ (q # <<>> => s[1] = q[1])
<1> DEFINE s == Append(q, f)
<1>1. /\ Len(q) \in Nat /\ Len(s) = Len(q) + 1
      /\ \A i \in 1..Len(s) : (i = Len(q) + 1 /\ s[i] = f) \/ (i \in 1..Len(q) /\ s[i] = q[i])
      /\ s # <<>> /\ (q # <<>> => s[1] = q[1])
  OBVIOUS
<1>2. s[1] \in Among(q) \union {f}
  <2> HIDE DEF s
  <2>1. 1 \in 1..Len(s)
    BY <1>1
  <2> QED BY <1>1, <2>1 DEF Among
<1> HIDE DEF s
<1>3. ASSUME NEW i \in 1..Len(s), NEW j \in 1..Len(s), i < j
      PROVE  i \in 1..Len(q) /\ s[i] = q[i]
  BY <1>1, <1>3
<1>4. ASSUME NoCall(q) PROVE OneCall(s) /\ (~Calls(f) => NoCall(s))
  BY <1>1, <1>3, <1>4 DEF NoCall, OneCall
<1>5. ASSUME OneCall(q) PROVE TwoCalls(s) /\ (~Calls(f) => OneCall(s))
  <2>1. ASSUME NEW i \in 1..Len(s), NEW j \in 1..Len(s), NEW k \in 1..Len(s), i < j, j < k
        PROVE  ~(Calls(s[i]) /\ Calls(s[j]) /\ Calls(s[k]))
    BY <1>3, <1>5, <2>1 DEF OneCall
  <2>2. ASSUME ~Calls(f), NEW i \in 1..Len(s), NEW j \in 1..Len(s), i < j
        PROVE  ~(Calls(s[i]) /\ Calls(s[j]))
    BY <1>1, <1>3, <1>5, <2>2 DEF OneCall
  <2> QED BY <2>1, <2>2 DEF OneCall, TwoCalls
<1>6. ASSUME TwoCalls(q), ~Calls(f) PROVE TwoCalls(s)
  <2>1. ASSUME NEW i \in 1..Len(s), NEW j \in 1..Len(s), NEW k \in 1..Len(s), i < j, j < k
        PROVE  ~(Calls(s[i]) /\ Calls(s[j]) /\ Calls(s[k]))
    BY <1>1, <1>3, <1>6, <2>1 DEF TwoCalls
  <2> QED BY <2>1 DEF TwoCalls
<1>7. ASSUME CallsLast(q), ~Directed(f) PROVE CallsLast(s)
  BY <1>1, <1>3, <1>7 DEF CallsLast
<1> QED BY <1>1, <1>2, <1>4, <1>5, <1>6, <1>7 DEF s

LEMMA CallsOfFront ==
  ASSUME NEW S, NEW q \in Seq(S), NEW f, ~Calls(f)
  PROVE  LET s == <<f>> \o q IN
         /\ NoCall(q) => NoCall(s)
         /\ OneCall(q) => OneCall(s)
         /\ TwoCalls(q) => TwoCalls(s)
         /\ CallsLast(q) => CallsLast(s)
         /\ s # <<>> /\ s[1] = f
<1> DEFINE s == <<f>> \o q
<1>1. /\ Len(q) \in Nat /\ Len(s) = Len(q) + 1 /\ s # <<>> /\ s[1] = f
  OBVIOUS
<1>2. ASSUME NEW i \in 1..Len(s), i # 1 PROVE i - 1 \in 1..Len(q) /\ s[i] = q[i - 1]
  BY <1>2
<1> HIDE DEF s
<1>3. ASSUME NEW i \in 1..Len(s), Calls(s[i]) PROVE i - 1 \in 1..Len(q) /\ s[i] = q[i - 1]
  BY <1>1, <1>2, <1>3
<1>4. ASSUME NoCall(q) PROVE NoCall(s)
  BY <1>3, <1>4 DEF NoCall
<1>5. ASSUME OneCall(q) PROVE OneCall(s)
  <2>1. ASSUME NEW i \in 1..Len(s), NEW j \in 1..Len(s), i < j, Calls(s[i]), Calls(s[j])
        PROVE  FALSE
    <3>1. i - 1 < j - 1
      BY <2>1
    <3> QED BY <1>3, <1>5, <2>1, <3>1 DEF OneCall
  <2> QED BY <2>1 DEF OneCall
<1>6. ASSUME TwoCalls(q) PROVE TwoCalls(s)
  <2>1. ASSUME NEW i \in 1..Len(s), NEW j \in 1..Len(s), NEW k \in 1..Len(s), i < j, j < k,
               Calls(s[i]), Calls(s[j]), Calls(s[k])
        PROVE  FALSE
    <3>1. i - 1 < j - 1 /\ j - 1 < k - 1
      BY <2>1
    <3> QED BY <1>3, <1>6, <2>1, <3>1 DEF TwoCalls
  <2> QED BY <2>1 DEF TwoCalls
<1>7. ASSUME CallsLast(q) PROVE CallsLast(s)
  <2>1. ASSUME NEW i \in 1..Len(s), NEW j \in 1..Len(s), i < j, Calls(s[i])
        PROVE  ~Directed(s[j])
    <3>1. i - 1 < j - 1 /\ j # 1
      BY <2>1
    <3> QED BY <1>2, <1>3, <1>7, <2>1, <3>1 DEF CallsLast
  <2> QED BY <2>1 DEF CallsLast
<1> QED BY <1>1, <1>4, <1>5, <1>6, <1>7 DEF s

\* A lapRTS is nothing for one station.
LEMMA CallIsOther ==
  ASSUME NEW f, Kind(f) \in {lapEnq, lapAck, lapRts, lapCts}
  PROVE  ~Numbered(f) /\ ~Directed(f) /\ (Kind(f) # lapRts => ~Calls(f))
BY DEF Numbered, Directed, Calls, IsData, lapEnq, lapAck, lapRts, lapCts

LEMMA TurnOfRead ==
  ASSUME NEW W, NEW q, NEW O, NEW heeded, NEW called, NEW quiet,
         Turn(W, q, O, heeded, called, quiet),
         NEW heeded2, heeded2 => heeded \/ \E f \in W : Calls(f), NEW called2
  PROVE  Turn({}, q, O, heeded2, called2, TRUE)
BY DEF Turn

LEMMA TurnOfStart ==
  ASSUME NEW S, NEW q \in Seq(S), NEW O, NEW heeded, NEW called,
         Turn({}, q, O, heeded, called, FALSE), q # <<>>, heeded => called
  PROVE  Turn({q[1]}, Tail(q), O, heeded, called, FALSE)
<1> DEFINE f == q[1]
           r == Tail(q)
<1>1. f \in Among(q) /\ Among(r) \subseteq Among(q)
  BY AmongIs
<1>2. /\ NoCall(q) => NoCall(r) /\ ~Calls(f)
      /\ OneCall(q) => OneCall(r) /\ (Calls(f) => NoCall(r))
      /\ TwoCalls(q) => TwoCalls(r) /\ (Calls(f) => OneCall(r))
      /\ CallsLast(q) => CallsLast(r) /\ (Calls(f) => \A g \in Among(r) : ~Directed(g))
  BY CallsOfTail
<1>3. heeded => ~Calls(f) /\ ~Directed(f)
  BY <1>1 DEF Turn
<1> HIDE DEF f, r
<1>4. Turn({f}, r, O, heeded, called, FALSE)
  BY <1>1, <1>2, <1>3 DEF Turn
<1> QED BY <1>4 DEF f, r

\* An answer goes ahead of them all.
LEMMA TurnOfFront ==
  ASSUME NEW W, NEW S, NEW q \in Seq(S), NEW O, NEW heeded, NEW called, NEW quiet,
         Turn(W, q, O, heeded, called, quiet), NEW f, ~Calls(f), ~Directed(f), NEW quiet2
  PROVE  Turn(W, <<f>> \o q, O, heeded, called, quiet2)
<1> DEFINE s == <<f>> \o q
<1>1. /\ NoCall(q) => NoCall(s)
      /\ OneCall(q) => OneCall(s)
      /\ TwoCalls(q) => TwoCalls(s)
      /\ CallsLast(q) => CallsLast(s)
      /\ s # <<>> /\ s[1] = f
  BY CallsOfFront
<1>2. Among(s) = Among(q) \union {f}
  BY AmongIs
<1> HIDE DEF s
<1>3. Turn(W, s, O, heeded, called, quiet2)
  BY <1>1, <1>2 DEF Turn
<1> QED BY <1>3 DEF s

LEMMA TurnOfAnswer ==
  ASSUME NEW W, NEW S, NEW q \in Seq(S), NEW f, NEW quiet,
         Turn(W, q, {f}, TRUE, FALSE, quiet), ~Calls(f), NEW quiet2
  PROVE  Turn(W, <<f>> \o q, {}, FALSE, FALSE, quiet2)
<1> DEFINE s == <<f>> \o q
<1>1. /\ OneCall(q) => OneCall(s)
      /\ CallsLast(q) => CallsLast(s)
  BY CallsOfFront
<1> HIDE DEF s
<1>2. Turn(W, s, {}, FALSE, FALSE, quiet2)
  BY <1>1 DEF Turn
<1> QED BY <1>2 DEF s

\* A frame at the end of the queue, the head of which may have been dropped.
LEMMA TurnOfNext ==
  ASSUME NEW W, NEW S, NEW q \in Seq(S), NEW heeded, NEW called, NEW quiet,
         Turn(W, q, {}, heeded, called, quiet), called => heeded,
         NEW r, r = q \/ (q # <<>> /\ r = Tail(q)),
         NEW f, ~Calls(f), ~Directed(f)
  PROVE  Turn(W, Append(r, f), {}, heeded, called, quiet)
<1> DEFINE s == Append(r, f)
<1>1. /\ r \in Seq(S) /\ Among(r) \subseteq Among(q)
      /\ NoCall(q) => NoCall(r)
      /\ OneCall(q) => OneCall(r)
      /\ CallsLast(q) => CallsLast(r)
  <2>1. CASE r = q
    BY <2>1
  <2>2. CASE q # <<>> /\ r = Tail(q)
    <3>1. Tail(q) \in Seq(S)
      BY <2>2
    <3> QED BY <2>2, <3>1, AmongIs, CallsOfTail
  <2> QED BY <2>1, <2>2
<1>2. /\ NoCall(r) => NoCall(s)
      /\ OneCall(r) => OneCall(s)
      /\ CallsLast(r) => CallsLast(s)
      /\ s # <<>>
  BY <1>1, CallsOfAppend
<1>3. Among(s) = Among(r) \union {f}
  BY <1>1, AmongIs
<1>4. NoCall(s) => ~Calls(s[1])
  <2>1. s \in Seq(S \union {f})
    BY <1>1
  <2>2. s # <<>> => 1 \in 1..Len(s)
    BY <2>1
  <2> HIDE DEF s
  <2> QED BY <1>2, <2>2 DEF NoCall
<1> HIDE DEF s
<1>5. Turn(W, s, {}, heeded, called, quiet)
  BY <1>1, <1>2, <1>3, <1>4 DEF Turn
<1> QED BY <1>5 DEF s

\* The lapRTS of a frame on offer.
LEMMA TurnOfOffer ==
  ASSUME NEW W, NEW S, NEW q \in Seq(S), NEW heeded, NEW called, NEW quiet,
         Turn(W, q, {}, heeded, called, quiet), called => heeded,
         NEW r, r = q \/ (Len(q) >= 2 /\ r = Tail(q)),
         NEW f, Calls(f), NEW g
  PROVE  Turn(W, Append(r, f), {g}, heeded, called, quiet)
<1> DEFINE s == Append(r, f)
<1>0. ASSUME Len(q) >= 2 PROVE q # <<>> /\ Tail(q) # <<>> /\ Tail(q) \in Seq(S)
  <2>1. q # <<>> /\ Len(Tail(q)) = Len(q) - 1 /\ Len(q) \in Nat /\ Tail(q) \in Seq(S)
    BY <1>0
  <2>2. Len(Tail(q)) # 0
    BY <1>0, <2>1
  <2>3. Len(<<>>) = 0
    OBVIOUS
  <2> QED BY <2>1, <2>2, <2>3
<1>1. /\ r \in Seq(S) /\ Among(r) \subseteq Among(q)
      /\ NoCall(q) => NoCall(r)
      /\ OneCall(q) => OneCall(r)
      /\ CallsLast(q) => CallsLast(r)
      /\ q # <<>> => r # <<>>
  <2>1. CASE r = q
    BY <2>1
  <2>2. CASE Len(q) >= 2 /\ r = Tail(q)
    <3>1. q # <<>> /\ Tail(q) # <<>> /\ Tail(q) \in Seq(S)
      BY <1>0, <2>2
    <3> QED BY <2>2, <3>1, AmongIs, CallsOfTail
  <2> QED BY <2>1, <2>2
<1>2. ~Directed(f)
  BY CallIsOther DEF Calls
<1>3. /\ NoCall(r) => OneCall(s)
      /\ OneCall(r) => TwoCalls(s)
      /\ CallsLast(r) => CallsLast(s)
      /\ s # <<>> /\ (r # <<>> => s[1] = r[1])
  BY <1>1, <1>2, CallsOfAppend
<1>4. Among(s) = Among(r) \union {f}
  BY <1>1, AmongIs
<1>5. NoCall(r) /\ r # <<>> => ~Calls(r[1])
  <2>1. r # <<>> => 1 \in 1..Len(r)
    BY <1>1
  <2> QED BY <2>1 DEF NoCall
<1> HIDE DEF s
<1>6. Turn(W, s, {g}, heeded, called, quiet)
  BY <1>1, <1>2, <1>3, <1>4, <1>5 DEF Turn
<1> QED BY <1>6 DEF s

\* With nothing on its way a frame is given up, or offered again.
LEMMA TurnOfGivenUp ==
  ASSUME NEW O, NEW heeded, NEW called, NEW quiet, Turn({}, <<>>, O, heeded, called, quiet)
  PROVE  Turn({}, <<>>, {}, heeded, called, quiet)
BY DEF Turn, NoCall, OneCall

LEMMA TurnOfAnother ==
  ASSUME NEW heeded, NEW called, NEW quiet, NEW f, NEW O, Turn({}, <<>>, O, heeded, called, quiet),
         Calls(f), O # {}
  PROVE  Turn({}, <<f>>, O, heeded, called, quiet)
<1>1. Len(<<f>>) = 1 /\ <<f>>[1] = f
  OBVIOUS
<1>2. OneCall(<<f>>) /\ TwoCalls(<<f>>) /\ CallsLast(<<f>>)
  BY <1>1 DEF OneCall, TwoCalls, CallsLast
<1>3. Among(<<f>>) = {f} /\ ~Directed(f)
  BY <1>1, CallIsOther DEF Among, Calls
<1> QED BY <1>2, <1>3 DEF Turn

\* A new offer that nobody is told of.
LEMMA TurnOfUntold ==
  ASSUME NEW W, NEW q, NEW heeded, NEW called, NEW quiet, NEW O,
         Turn(W, q, {}, heeded, called, quiet)
  PROVE  Turn(W, q, O, heeded, called, quiet)
<1>1. (NoCall(q) => OneCall(q)) /\ (OneCall(q) => TwoCalls(q))
  BY DEF NoCall, OneCall, TwoCalls
<1> QED BY <1>1 DEF Turn

-----------------------------------------------------------------------------
(* What the steps of the chip make of what it has received.                *)

SameRead(c, d) ==
  /\ d.rxFifo = c.rxFifo /\ d.overrun = c.overrun
  /\ d.endOfFrame = c.endOfFrame /\ d.rxAccepted = c.rxAccepted

Cleared(d) == d.rxFifo = <<>> /\ ~d.overrun /\ ~d.endOfFrame

LEMMA RegisterReads ==
  ASSUME NEW c \in Channel, NEW r \in Registers, NEW value \in SUBSET Flag
  PROVE  LET d == SetRegister(c, r, value) IN
         /\ d \in Channel /\ SameRead(c, d) /\ d.write[r] = value
         /\ \A x \in Registers \ {r} : d.write[x] = c.write[x]
<1> DEFINE b == [c EXCEPT !.pointer = r]
           w == [c.write EXCEPT ![r] = value]
           set == [c EXCEPT !.pointer = 0, !.write = w]
           d == SetRegister(c, r, value)
<1>1. PointTo(c, r % 8, r >= 8) = b
  BY DEF PointTo, Registers
<1>2. b.pointer = r /\ b.write = c.write
  BY DEF Channel
<1>3. [b EXCEPT !.pointer = 0, !.write[b.pointer] = value] = set
  BY <1>2 DEF Channel
<1> DEFINE armed == [set EXCEPT !.rxArmed = TRUE]
           still == [set EXCEPT !.txFrame = <<>>]
         arms == r = 1 /\ "rx first" \in value /\ "rx first" \notin c.write[1]
         aborts == r = 5 /\ "tx" \in c.write[5] /\ "tx" \notin value
<1>15. d = Written(b, value)
  BY <1>1 DEF SetRegister
<1> HIDE DEF b, set, armed, still, d
<1>10. d = CASE arms -> armed [] aborts -> Abort(set) [] OTHER -> set
  BY <1>2, <1>3, <1>15 DEF Written, armed
<1>11. Abort(set) = still
  BY DEF Abort, still
<1>12. ~(arms /\ aborts)
  <2>1. r # 1 \/ r # 5
    BY DEF Registers
  <2> QED BY <2>1, Zenon
<1> HIDE DEF w, d, arms, aborts
<1>4. d = armed \/ d = still \/ d = set
  BY <1>10, <1>11, <1>12
<1>5. SameRead(c, set)
  BY DEF set, Channel, SameRead
<1>6. SameRead(c, armed)
  BY DEF armed, set, Channel, SameRead
<1>7. SameRead(c, still)
  BY DEF still, set, Channel, SameRead
<1>8. SameRead(c, d)
  BY <1>4, <1>5, <1>6, <1>7
<1>9. d \in Channel /\ d.write = w
  BY SetRegisterIs DEF d, w
<1>13. w[r] = value /\ \A x \in Registers \ {r} : w[x] = c.write[x]
  BY DEF Channel, w
<1>14. /\ d \in Channel /\ SameRead(c, d) /\ d.write[r] = value
       /\ \A x \in Registers \ {r} : d.write[x] = c.write[x]
  BY <1>8, <1>9, <1>13
<1> QED BY <1>14 DEF d

LEMMA ReadSame ==
  ASSUME NEW b, NEW c, NEW d, SameRead(b, c), SameRead(c, d)
  PROVE  SameRead(b, d)
BY DEF SameRead

\* The receiver is on, and off, for what the driver is doing.
LEMMA ListenReads ==
  ASSUME NEW c \in Channel
  PROVE  SameRead(c, Listen(c)) /\ "rx" \in Listen(c).write[3]
<1>1. 3 \in Registers /\ {"rx", "search"} \in SUBSET Flag
  BY DEF Registers, Flag
<1>2. Listen(c).write[3] = {"rx", "search"} /\ SameRead(c, Listen(c))
  BY <1>1, RegisterReads DEF Listen
<1> QED BY <1>2

LEMMA SendingReads ==
  ASSUME NEW b \in Channel
  PROVE  LET d == SetRegister(SetRegister(b, 3, {}), 5, {"tx"}) IN
         SameRead(b, d) /\ "rx" \notin d.write[3]
<1> DEFINE c == SetRegister(b, 3, {})
           d == SetRegister(c, 5, {"tx"})
<1>1. /\ 3 \in Registers /\ {} \in SUBSET Flag /\ 3 # 5
      /\ 5 \in Registers /\ {"tx"} \in SUBSET Flag
  BY DEF Registers, Flag
<1>2. SameRead(b, c) /\ c.write[3] = {} /\ c \in Channel
  BY <1>1, RegisterReads
<1> HIDE DEF c
<1>3. SameRead(c, d) /\ \A x \in Registers \ {5} : d.write[x] = c.write[x]
  BY <1>1, <1>2, RegisterReads
<1> HIDE DEF d
<1>4. d.write[3] = {}
  BY <1>1, <1>2, <1>3
<1>5. SameRead(b, d)
  BY <1>2, <1>3, ReadSame
<1> QED BY <1>4, <1>5 DEF c, d

LEMMA EndedReads ==
  ASSUME NEW c \in Channel
  PROVE  LET d == Listen(SetRegister(c, 5, {})) IN
         SameRead(c, d) /\ "rx" \in d.write[3]
<1>1. {} \in SUBSET Flag /\ 5 \in Registers
  BY DEF Registers, Flag
<1> DEFINE b == SetRegister(c, 5, {})
<1>2. SameRead(c, b) /\ b \in Channel
  BY <1>1, RegisterReads
<1> HIDE DEF b
<1>3. SameRead(b, Listen(b)) /\ "rx" \in Listen(b).write[3]
  BY <1>2, ListenReads
<1>4. SameRead(c, Listen(b))
  BY <1>2, <1>3, ReadSame
<1> QED BY <1>3, <1>4 DEF b

\* Reading a byte and resetting the errors.
LEMMA CommandsRead ==
  ASSUME NEW c \in Channel
  PROVE  /\ LET d == Command(c, "error reset") IN
            d.rxFifo = c.rxFifo /\ ~d.overrun /\ ~d.endOfFrame /\ d.rxAccepted = c.rxAccepted
         /\ SameRead(c, Command(c, "enable rx next char"))
BY DEF Command, Channel, SameRead

LEMMA DrainedReads ==
  ASSUME NEW c \in Channel
  PROVE  Cleared(Drained(c))
<1> DEFINE b == [c EXCEPT !.rxFifo = <<>>, !.rxInterrupt = FALSE]
           d == Command(b, "error reset")
<1>1. b \in Channel /\ b.rxFifo = <<>>
  <2>1. <<>> \in Seq(Received)
    OBVIOUS
  <2> QED BY <2>1 DEF Channel
<1>2. Drained(c) = Command(d, "enable rx next char")
  BY DEF Drained
<1> HIDE DEF b
<1>3. Cleared(d) /\ d \in Channel
  BY <1>1, CommandsRead, ReceiverCommandIs DEF Cleared, Aside
<1> HIDE DEF d
<1>4. SameRead(d, Drained(c))
  BY <1>2, <1>3, CommandsRead
<1> QED BY <1>3, <1>4 DEF Cleared, SameRead

LEMMA ReadReceivedReads ==
  ASSUME NEW c \in Channel, IsSdlc(c), c.rxFifo # <<>>
  PROVE  LET d == ReadReceived(c) IN
         /\ d.rxFifo = Tail(c.rxFifo)
         /\ d.endOfFrame <=> c.endOfFrame \/ c.rxFifo[1].endOfFrame
         /\ d.overrun = c.overrun /\ d.rxAccepted = c.rxAccepted
BY DEF ReadReceived, Channel

LEMMA LastReads ==
  ASSUME NEW c \in Channel, IsSdlc(c), c.rxFifo # <<>>
  PROVE  LET d == Command(Command(ReadReceived(c), "error reset"), "enable rx next char") IN
         /\ d.rxFifo = Tail(c.rxFifo) /\ ~d.endOfFrame /\ ~d.overrun /\ d.rxAccepted = c.rxAccepted
<1> DEFINE a == ReadReceived(c)
           b == Command(a, "error reset")
           d == Command(b, "enable rx next char")
<1>1. a \in Channel /\ a.rxFifo = Tail(c.rxFifo) /\ a.rxAccepted = c.rxAccepted
  BY ReadReceivedReads, ReadReceivedIs DEF Aside
<1> HIDE DEF a
<1>2. b \in Channel /\ b.rxFifo = a.rxFifo /\ ~b.overrun /\ ~b.endOfFrame /\ b.rxAccepted = a.rxAccepted
  BY <1>1, CommandsRead, ReceiverCommandIs DEF Aside
<1> HIDE DEF b
<1>3. SameRead(b, d)
  BY <1>2, CommandsRead
<1> HIDE DEF d
<1>4. d.rxFifo = Tail(c.rxFifo) /\ ~d.endOfFrame /\ ~d.overrun /\ d.rxAccepted = c.rxAccepted
  BY <1>1, <1>2, <1>3 DEF SameRead
<1> QED BY <1>4 DEF a, b, d

LEMMA TurnOnReads ==
  ASSUME NEW c \in Channel
  PROVE  LET mode == SetRegister(SetRegister(c, 4, {"sdlc"}), 6, {Node})
             external == SetRegister(Listen(mode), 15, {"dcd"})
             d == SetRegister(Drained(external), 1, {"external", "rx first"})
         IN  Cleared(d) /\ "rx" \in d.write[3]
<1> DEFINE a1 == SetRegister(c, 4, {"sdlc"})
           a2 == SetRegister(a1, 6, {Node})
           a3 == Listen(a2)
           a4 == SetRegister(a3, 15, {"dcd"})
           a5 == Drained(a4)
           a6 == SetRegister(a5, 1, {"external", "rx first"})
<1>1. {3, 4, 6, 15, 1} \subseteq Registers /\ 15 # 3 /\ 1 # 3
  BY DEF Registers
<1>2. /\ {"sdlc"} \in SUBSET Flag /\ {"dcd"} \in SUBSET Flag
      /\ {"external", "rx first"} \in SUBSET Flag /\ {Node} \in SUBSET Flag
  <2>1. Node \in Nat
    BY PortAssumption
  <2> QED BY <2>1 DEF Flag
<1>3. a1 \in Channel
  BY <1>1, <1>2, RegisterReads
<1> HIDE DEF a1
<1>4. a2 \in Channel
  BY <1>1, <1>2, <1>3, RegisterReads
<1> HIDE DEF a2
<1>5. a3 \in Channel /\ "rx" \in a3.write[3]
  BY <1>4, ListenKeeps, ListenReads DEF Registered
<1> HIDE DEF a3
<1>6. a4 \in Channel /\ a4.write[3] = a3.write[3]
  <2>3. 15 \in Registers /\ {"dcd"} \in SUBSET Flag /\ a3 \in Channel
    BY <1>1, <1>2, <1>5
  <2>1. a4 \in Channel /\ \A x \in Registers \ {15} : a4.write[x] = a3.write[x]
    BY <2>3, RegisterReads
  <2>2. 3 \in Registers \ {15}
    BY <1>1
  <2> QED BY <2>1, <2>2
<1> HIDE DEF a4
<1>7. a5 \in Channel /\ a5.write = a4.write /\ Cleared(a5)
  BY <1>6, DrainedIs, DrainedReads DEF Aside
<1> HIDE DEF a5
<1>8. SameRead(a5, a6) /\ a6.write[3] = a5.write[3]
  <2>3. 1 \in Registers /\ {"external", "rx first"} \in SUBSET Flag /\ a5 \in Channel
    BY <1>1, <1>2, <1>7
  <2>1. SameRead(a5, a6) /\ \A x \in Registers \ {1} : a6.write[x] = a5.write[x]
    BY <2>3, RegisterReads
  <2>2. 3 \in Registers \ {1}
    BY <1>1
  <2> QED BY <2>1, <2>2
<1> HIDE DEF a6
<1>9. "rx" \in a6.write[3]
  BY <1>5, <1>6, <1>7, <1>8
<1>10. Cleared(a6)
  BY <1>7, <1>8 DEF Cleared, SameRead
<1> QED BY <1>9, <1>10 DEF a1, a2, a3, a4, a5, a6

\* The transmitter and the queue leave the receiver alone.
LEMMA TransmitReads ==
  ASSUME NEW c \in Channel, NEW value
  PROVE  SameRead(c, Transmit(c, value))
<1> DEFINE f == Append(c.txFrame, value)
<1>1. \/ Transmit(c, value) = [c EXCEPT !.txBuffer = <<value>>]
      \/ Transmit(c, value) = [c EXCEPT !.txByte = <<value>>]
      \/ Transmit(c, value) = [[c EXCEPT !.txFrame = f] EXCEPT !.txBuffer = <<value>>]
      \/ Transmit(c, value) = [[c EXCEPT !.txFrame = f] EXCEPT !.txByte = <<value>>]
  BY DEF Transmit
<1> HIDE DEF f
<1> QED BY <1>1 DEF SameRead, Channel

LEMMA DryReads ==
  ASSUME NEW c
  PROVE  SameRead(c, Dry(c))
BY DEF Dry, SameRead

LEMMA ByteGoneReads ==
  ASSUME NEW c \in Channel
  PROVE  SameRead(c, [ByteGone(c) EXCEPT !.toSink = <<>>])
<1> DEFINE sink == IF IsSdlc(c) THEN <<>> ELSE c.txByte
           i == c.txInterrupt \/ "txInterrupt" \in c.write[1]
           gone == [c EXCEPT !.toSink = sink, !.txInterrupt = i, !.txByte = c.txBuffer,
                             !.txBuffer = <<>>]
<1>1. SameRead(c, gone)
  BY DEF SameRead, Channel
<1>2. ByteGone(c) = gone \/ ByteGone(c) = Dry(gone)
  BY DEF ByteGone
<1> HIDE DEF gone
<1>3. SameRead(gone, ByteGone(c))
  BY <1>2, DryReads DEF SameRead
<1>4. SameRead(ByteGone(c), [ByteGone(c) EXCEPT !.toSink = <<>>])
  BY DEF SameRead
<1> QED BY <1>1, <1>3, <1>4, ReadSame

LEMMA ResetUnderrunReads ==
  ASSUME NEW c \in Channel
  PROVE  SameRead(c, Command(c, "reset tx underrun"))
<1> DEFINE armed == [c EXCEPT !.txUnderrunEom = FALSE]
<1>1. SameRead(c, armed)
  BY DEF SameRead, Channel
<1>2. Command(c, "reset tx underrun") = armed \/ Command(c, "reset tx underrun") = Dry(armed)
  BY DEF Command
<1> HIDE DEF armed
<1>3. SameRead(armed, Command(c, "reset tx underrun"))
  BY <1>2, DryReads DEF SameRead
<1> QED BY <1>1, <1>3, ReadSame

LEMMA QueueReads ==
  ASSUME NEW c \in Channel, NEW f
  PROVE  SameRead(c, AnswerFrame(c, f)) /\ SameRead(c, ReceiveFrame(c, f))
         /\ SameRead(c, OnTheWire(c, f)) /\ SameRead(c, Offer(c, f))
<1>1. ASSUME NEW g PROVE SameRead(c, AnswerFrame(c, g)) /\ SameRead(c, ReceiveFrame(c, g))
  BY DEF AnswerFrame, ReceiveFrame, SameRead
<1>2. OnTheWire(c, f) \in {c, AnswerFrame(c, f), ReceiveFrame(c, f)}
  BY DEF OnTheWire
<1>3. SameRead(c, c)
  BY DEF SameRead
<1> QED BY <1>1, <1>2, <1>3 DEF Offer

\* A frame begins on a wire with nothing on it.
LEMMA FrameStartsReads ==
  ASSUME NEW c \in Channel, c.rxQueue # <<>>
  PROVE  LET d == FrameStarts(c) IN
         /\ SameRead(c, d) /\ d.rxQueue = Tail(c.rxQueue) /\ d.rxQuiet = c.rxQuiet
         /\ d.rxWire = c.rxQueue[1] \o Crc /\ d.rxPosition = 0
BY DEF FrameStarts, Channel, SameRead

\* A byte goes into the receiver, or over its end.
LEMMA PushReceivedReads ==
  ASSUME NEW c \in Channel, NEW e
  PROVE  LET d == PushReceived(c, e) IN
         /\ d.rxAccepted = c.rxAccepted /\ d.endOfFrame = c.endOfFrame
         /\ \/ d.overrun
            \/ ~c.overrun /\ Len(c.rxFifo) # FifoSize /\ d.rxFifo = Append(c.rxFifo, e) /\ ~d.overrun
         /\ c.overrun => d.overrun
<1> DEFINE over == c.overrun \/ Len(c.rxFifo) = FifoSize
           first == "rx first" \in c.write[1]
           all == "rx all" \in c.write[1]
           special == first \/ all \/ "rx special" \in c.write[1]
           fifo == IF Len(c.rxFifo) = FifoSize THEN c.rxFifo ELSE Append(c.rxFifo, e)
           i == c.rxInterrupt \/ all \/ (first /\ c.rxArmed)
           a == c.rxArmed /\ ~first
           s == c.specialInterrupt \/ (special /\ (e.endOfFrame \/ over))
           d == [c EXCEPT !.rxFifo = fifo, !.overrun = over, !.rxInterrupt = i,
                          !.rxArmed = a, !.specialInterrupt = s]
<1>1. PushReceived(c, e) = d
  BY DEF PushReceived
<1> HIDE DEF i, a, s, fifo, over
<1>2. d.rxFifo = fifo /\ d.overrun = over /\ d.rxAccepted = c.rxAccepted /\ d.endOfFrame = c.endOfFrame
  BY DEF Channel
<1> HIDE DEF d
<1>3. /\ d.rxAccepted = c.rxAccepted /\ d.endOfFrame = c.endOfFrame
      /\ \/ d.overrun
         \/ ~c.overrun /\ Len(c.rxFifo) # FifoSize /\ d.rxFifo = Append(c.rxFifo, e) /\ ~d.overrun
      /\ c.overrun => d.overrun
  BY <1>2 DEF fifo, over
<1> QED BY <1>1, <1>3

LEMMA ReceiveByteReads ==
  ASSUME NEW c \in Channel, c.rxPosition < Len(c.rxWire)
  PROVE  LET d == ReceiveByte(c)
             position == c.rxPosition + 1
             value == c.rxWire[position]
             last == position = Len(c.rxWire)
             accepted == IF position = 1 THEN LetIn(c, value) ELSE c.rxAccepted
         IN  /\ d.endOfFrame = c.endOfFrame
             /\ IF accepted /\ "rx" \in c.write[3]
                THEN \/ d.overrun
                     \/ /\ ~c.overrun /\ ~d.overrun /\ Len(c.rxFifo) # FifoSize
                        /\ d.rxFifo = Append(c.rxFifo, [value |-> value, endOfFrame |-> last])
                ELSE d.rxFifo = c.rxFifo /\ d.overrun = c.overrun
             /\ c.overrun => d.overrun
             /\ IF last
                THEN d.rxWire = <<>> /\ d.rxPosition = 0 /\ d.rxQuiet
                ELSE /\ d.rxWire = c.rxWire /\ d.rxPosition = position
                     /\ d.rxAccepted = accepted /\ d.rxQuiet = c.rxQuiet
<1> DEFINE position == c.rxPosition + 1
           value == c.rxWire[position]
           last == position = Len(c.rxWire)
           accepted == IF position = 1 THEN LetIn(c, value) ELSE c.rxAccepted
           taken == [c EXCEPT !.rxAccepted = accepted, !.rxPosition = position]
           entry == [value |-> value, endOfFrame |-> last]
           pushed == IF accepted /\ "rx" \in c.write[3] THEN PushReceived(taken, entry) ELSE taken
           ext == pushed.extInterrupt \/ ("abort" \in c.write[15] /\ "external" \in c.write[1])
           d == [pushed EXCEPT !.rxWire = <<>>, !.rxPosition = 0, !.rxAccepted = FALSE,
                               !.rxQuiet = TRUE, !.lineQuiet = TRUE, !.extInterrupt = ext]
           e == ReceiveByte(c)
<1>1. e = IF ~last THEN pushed ELSE d
  BY DEF ReceiveByte
<1>2. position \in 1..Len(c.rxWire) /\ c.rxWire \in Seq(Nat) /\ value \in Nat
  BY SMTT(30) DEF Channel
<1>3. accepted \in BOOLEAN
  BY DEF LetIn, Channel
<1>4. entry \in Received
  BY <1>2 DEF Received
<1>5. taken \in Channel
  <2>1. position \in Nat
    BY DEF Channel
  <2> HIDE DEF accepted, position
  <2> QED BY <2>1, <1>3 DEF Channel
<1>6. /\ taken.rxWire = c.rxWire /\ taken.rxPosition = position /\ taken.rxQuiet = c.rxQuiet
      /\ taken.rxAccepted = accepted /\ taken.endOfFrame = c.endOfFrame
      /\ taken.rxFifo = c.rxFifo /\ taken.overrun = c.overrun
  <2> HIDE DEF accepted, position
  <2> QED BY DEF Channel
<1> HIDE DEF taken, accepted, entry, last, position, value, e
<1>7. /\ pushed \in Channel /\ pushed.rxWire = c.rxWire /\ pushed.rxPosition = position
      /\ pushed.rxQuiet = c.rxQuiet
  BY <1>4, <1>5, <1>6, PushReceivedIs DEF Aside, SameWire
<1>8. /\ pushed.rxAccepted = accepted /\ pushed.endOfFrame = c.endOfFrame
      /\ IF accepted /\ "rx" \in c.write[3]
         THEN \/ pushed.overrun
              \/ /\ ~c.overrun /\ ~pushed.overrun /\ Len(c.rxFifo) # FifoSize
                 /\ pushed.rxFifo = Append(c.rxFifo, entry)
         ELSE pushed.rxFifo = c.rxFifo /\ pushed.overrun = c.overrun
      /\ c.overrun => pushed.overrun
  BY <1>5, <1>6, PushReceivedReads
<1> HIDE DEF pushed, ext
<1>9. /\ d.rxWire = <<>> /\ d.rxPosition = 0 /\ d.rxQuiet
      /\ d.endOfFrame = pushed.endOfFrame /\ d.rxFifo = pushed.rxFifo /\ d.overrun = pushed.overrun
  BY <1>7 DEF Channel
<1> HIDE DEF d
<1>10. /\ e.endOfFrame = c.endOfFrame
       /\ IF accepted /\ "rx" \in c.write[3]
          THEN \/ e.overrun
               \/ /\ ~c.overrun /\ ~e.overrun /\ Len(c.rxFifo) # FifoSize
                  /\ e.rxFifo = Append(c.rxFifo, entry)
          ELSE e.rxFifo = c.rxFifo /\ e.overrun = c.overrun
       /\ c.overrun => e.overrun
       /\ IF last
          THEN e.rxWire = <<>> /\ e.rxPosition = 0 /\ e.rxQuiet
          ELSE /\ e.rxWire = c.rxWire /\ e.rxPosition = position
               /\ e.rxAccepted = accepted /\ e.rxQuiet = c.rxQuiet
  <2>1. CASE last
    BY <1>1, <1>7, <1>8, <1>9, <2>1
  <2>2. CASE ~last
    BY <1>1, <1>7, <1>8, <2>2
  <2> QED BY <2>1, <2>2
<1> QED BY <1>10 DEF e, accepted, last, value, position, entry

-----------------------------------------------------------------------------
(* The frames are taken in order.                                          *)

OrderIInv == IInv /\ InOrder /\ Threes /\ Driven /\ Stream

\* What these depend on, of what most steps leave as it is.
SameReader ==
  /\ mpp'.in = mpp.in /\ (mpp.in = <<>> \/ mpp'.doing = mpp.doing)
  /\ SameRead(chip, chip')
  /\ chip'.rxWire = chip.rxWire /\ chip'.rxPosition = chip.rxPosition

LEMMA ReaderKeeps ==
  ASSUME SameReader
  PROVE  /\ Complete' <=> Complete
         /\ Read' = Read /\ OnWire' = OnWire /\ (Called' <=> Called)
<1>1. Complete' <=> Complete
  <2>1. mpp.in = <<>> => ~Complete /\ ~Complete'
    BY DEF SameReader, Complete
  <2> QED BY <2>1 DEF SameReader, SameRead, Complete
<1>2. Read' = Read
  BY <1>1 DEF SameReader, Read
<1>3. OnWire' = OnWire
  BY DEF SameReader, OnWire
<1> QED BY <1>1, <1>2, <1>3 DEF Called

LEMMA StreamKeeps ==
  ASSUME IInv, SameReader, Stream, mpp'.doing # "off" => mpp.doing # "off",
         "rx" \notin chip'.write[3] =>
           "rx" \notin chip.write[3] \/ (chip.rxPosition = 0 /\ mpp.in = <<>>)
  PROVE  Stream'
<1>1. SUFFICES ASSUME mpp'.doing # "off", ~chip'.overrun PROVE Stream'
  BY DEF Stream
<1>2. Len(chip.rxFifo) <= FifoSize /\ \E e \in 0..Len(chip.rxFifo) : Behind(e)
  BY <1>1 DEF Stream, SameReader, SameRead
<1>3. PICK e \in 0..Len(chip.rxFifo) : Behind(e)
  BY <1>2
<1>4. Complete' <=> Complete
  BY ReaderKeeps
<1>5. Behind(e)'
  <2>1. Len(chip.rxFifo) \in Nat
    BY DEF IInv, TypeOK, Channel
  <2>2. ASSUME "rx" \notin chip'.write[3] PROVE e = Len(chip.rxFifo) /\ mpp.in = <<>>
    <3>1. CASE "rx" \notin chip.write[3]
      BY <1>3, <3>1 DEF Behind
    <3>2. CASE chip.rxPosition = 0 /\ mpp.in = <<>>
      BY <1>3, <2>1, <3>2 DEF Behind, Held
    <3> QED BY <2>2, <3>1, <3>2
  <2>3. /\ mpp'.in = mpp.in /\ chip'.rxFifo = chip.rxFifo /\ chip'.rxAccepted = chip.rxAccepted
        /\ chip'.rxWire = chip.rxWire /\ chip'.rxPosition = chip.rxPosition
    BY DEF SameReader, SameRead
  <2> QED BY <1>3, <1>4, <2>2, <2>3 DEF Behind
<1>6. e \in 0..Len(chip'.rxFifo) /\ Len(chip'.rxFifo) <= FifoSize
  BY <1>2, <1>3 DEF SameReader, SameRead
<1> QED BY <1>5, <1>6 DEF Stream

LEMMA OrderKeeps ==
  ASSUME InOrder, UNCHANGED <<took, incoming>>, Read' \subseteq Read, OnWire' = OnWire,
         chip'.rxQueue = chip.rxQueue, port'.offered = port.offered,
         counts'.arrivals = counts.arrivals,
         Called' => Called, Answering' => Called \/ Answering,
         Called' /\ ~chip'.rxQuiet => ~chip.rxQuiet
  PROVE  InOrder'
<1>1. Offers' = Offers
  BY DEF Offers
<1>2. Order(took, Read, OnWire, chip.rxQueue, Offers, incoming, counts.arrivals)'
  <2>1. Order(took, Read, OnWire, chip.rxQueue, Offers, incoming, counts.arrivals)
    BY DEF InOrder
  <2>2. EachApart(chip.rxQueue) /\ EachBefore(incoming)
    BY <2>1 DEF Order
  <2>3. Order(took, Read', OnWire, chip.rxQueue, Offers, incoming, counts.arrivals)
    BY <2>1, <2>2, OrderOfLess
  <2> QED BY <1>1, <2>3
<1>3. Turn(OnWire, chip.rxQueue, Offers, Called \/ Answering, Called, chip.rxQuiet)'
  <2>1. Turn(OnWire, chip.rxQueue, Offers, Called \/ Answering, Called, chip.rxQuiet)
    BY DEF InOrder
  <2>2. Turn(OnWire, chip.rxQueue, Offers, Called' \/ Answering', Called', chip'.rxQuiet)
    BY <2>1 DEF Turn
  <2> QED BY <1>1, <2>2
<1> QED BY <1>2, <1>3 DEF InOrder

\* The limits of the chip in the program, and that the machine has no lapCTS or
\* lapRTS of its own to send.
InOrderAssumption ==
  /\ FifoSize <= 4 /\ MaxQueued >= 2
  /\ Len(Arriving) \in 0..lapEnq - 1
  /\ \A i \in 1..Len(Outgoing) : ~IsHandshake(Outgoing[i])

\* A step that writes registers, or nothing, and has the driver do something
\* else; the parts of the invariant that it does not touch.
LEMMA DriverOrder ==
  ASSUME OrderIInv, Registered(chip, chip'), SameReader,
         UNCHANGED <<port, incoming, took>>, counts'.arrivals = counts.arrivals,
         Answering' => Answering, mpp'.doing # "off" => mpp.doing # "off",
         "rx" \notin chip'.write[3] =>
           "rx" \notin chip.write[3] \/ (chip.rxPosition = 0 /\ mpp.in = <<>>)
  PROVE  InOrder' /\ Threes' /\ Stream'
<1> USE DEF OrderIInv
<1>1. /\ Read' = Read /\ OnWire' = OnWire /\ (Called' <=> Called)
  BY ReaderKeeps
<1>2. chip'.rxQueue = chip.rxQueue /\ chip'.rxQuiet = chip.rxQuiet
      /\ chip'.rxWire = chip.rxWire /\ chip'.rxPosition = chip.rxPosition
  BY DEF Registered, SameWire
<1>3. InOrder'
  BY <1>1, <1>2, OrderKeeps
<1>4. Threes'
  BY <1>2 DEF Threes
<1>5. Stream'
  BY StreamKeeps
<1> QED BY <1>3, <1>4, <1>5

LEMMA TurnOffOrder == ASSUME OrderIInv, TurnOff PROVE OrderIInv'
<1> USE DEF OrderIInv
<1>1. IInv'
  BY TurnOffKeeps
<1>2. chip \in Channel
  BY DEF IInv, TypeOK
<1>3. /\ mpp.doing = "listening" /\ mpp' = Idle
      /\ chip' = SetRegister(SetRegister(chip, 3, {}), 1, {})
      /\ UNCHANGED <<port, incoming, took, counts>>
  BY DEF TurnOff
<1>4. mpp'.doing = "off" /\ mpp'.in = <<>> /\ mpp'.then = NoFrame
  BY <1>3 DEF Idle
<1>5. Registered(chip, chip')
  BY <1>2, <1>3, TurnOffSets
<1>6. SameRead(chip, chip')
  <2>1. {} \in SUBSET Flag /\ 3 \in Registers /\ 1 \in Registers
    BY DEF Registers
  <2> DEFINE b == SetRegister(chip, 3, {})
  <2>2. b \in Channel /\ SameRead(chip, b)
    BY <1>2, <2>1, RegisterReads
  <2> HIDE DEF b
  <2>3. SameRead(b, SetRegister(b, 1, {}))
    BY <2>1, <2>2, RegisterReads
  <2> QED BY <1>3, <2>2, <2>3, ReadSame DEF b
<1>7. SameReader
  BY <1>3, <1>4, <1>5, <1>6 DEF SameReader, Registered, SameWire, Driven
<1>8. Driven'
  BY <1>4, <1>6 DEF Driven, SameRead
<1>9. InOrder' /\ Threes'
  <2>1. Read' = Read /\ OnWire' = OnWire /\ (Called' <=> Called)
    BY <1>7, ReaderKeeps
  <2>2. ~Answering'
    BY <1>4 DEF Answering
  <2>3. chip'.rxQueue = chip.rxQueue /\ chip'.rxQuiet = chip.rxQuiet
        /\ chip'.rxWire = chip.rxWire /\ chip'.rxPosition = chip.rxPosition
    BY <1>5 DEF Registered, SameWire
  <2>4. InOrder'
    BY <1>3, <2>1, <2>2, <2>3, OrderKeeps
  <2> QED BY <1>3, <2>3, <2>4 DEF Threes
<1>10. Stream'
  BY <1>4 DEF Stream
<1> QED BY <1>1, <1>8, <1>9, <1>10

LEMMA InterruptOrder == ASSUME OrderIInv, Interrupt PROVE OrderIInv'
<1> USE DEF OrderIInv
<1>1. IInv'
  BY InterruptKeeps
<1>2. chip \in Channel /\ mpp \in Drivers
  BY DEF IInv, TypeOK, Drivers
<1>3. mpp.doing = "listening" /\ mpp' = [mpp EXCEPT !.doing = "reading"]
      /\ UNCHANGED <<chip, port, incoming, took, counts>>
  BY DEF Interrupt
<1>4. mpp'.doing = "reading" /\ mpp'.in = <<>> /\ mpp.in = <<>> /\ mpp'.then = mpp.then
  BY <1>2, <1>3 DEF Driven, Drivers
<1>5. Registered(chip, chip') /\ SameReader
  BY <1>2, <1>3, <1>4, RegisteredSame DEF SameReader, SameRead
<1>6. Driven'
  BY <1>3, <1>4 DEF Driven
<1>7. InOrder' /\ Threes' /\ Stream'
  BY <1>3, <1>4, <1>5, DriverOrder DEF Answering
<1> QED BY <1>1, <1>6, <1>7

LEMMA CtsTimeoutOrder == ASSUME OrderIInv, CtsTimeout PROVE OrderIInv'
<1> USE DEF OrderIInv
<1>1. IInv'
  BY CtsTimeoutKeeps
<1>2. chip \in Channel /\ mpp \in Drivers
  BY DEF IInv, TypeOK, Drivers
<1>3. mpp.doing = "listening" /\ mpp' = [mpp EXCEPT !.then = NoFrame]
      /\ UNCHANGED <<chip, port, incoming, took, counts>>
  BY DEF CtsTimeout
<1>4. mpp'.doing = "listening" /\ mpp'.in = mpp.in /\ mpp.in = <<>> /\ mpp'.then = NoFrame
  BY <1>2, <1>3 DEF Driven, Drivers
<1>5. Registered(chip, chip') /\ SameReader
  BY <1>2, <1>3, <1>4, RegisteredSame DEF SameReader, SameRead
<1>6. Driven'
  BY <1>3, <1>4 DEF Driven
<1>7. InOrder' /\ Threes' /\ Stream'
  BY <1>3, <1>4, <1>5, DriverOrder DEF Answering
<1> QED BY <1>1, <1>6, <1>7

LEMMA EndedOrder == ASSUME OrderIInv, Ended PROVE OrderIInv'
<1> USE DEF OrderIInv
<1>1. IInv'
  BY EndedKeeps
<1>2. chip \in Channel /\ mpp \in Drivers /\ chip.txFrame = <<>>
  BY DEF IInv, TypeOK, Drivers, Ended, Transmitter, WrittenOut
<1>3. /\ mpp.doing = "ending"
      /\ chip' = Listen(SetRegister(chip, 5, {}))
      /\ mpp' = [Idle EXCEPT !.doing = "listening", !.then = mpp.then]
      /\ UNCHANGED <<port, incoming, took, counts>>
  BY DEF Ended
<1>4. mpp'.doing = "listening" /\ mpp'.in = <<>> /\ mpp.in = <<>> /\ mpp'.then = mpp.then
  BY <1>2, <1>3 DEF Driven, Drivers, Idle
<1>5. Registered(chip, chip')
  BY <1>2, <1>3, EndedSets
<1>6. SameRead(chip, chip') /\ "rx" \in chip'.write[3]
  BY <1>2, <1>3, EndedReads
<1>7. SameReader
  BY <1>4, <1>5, <1>6 DEF SameReader, Registered, SameWire
<1>8. Driven'
  BY <1>4, <1>6 DEF Driven, SameRead
<1>9. InOrder' /\ Threes' /\ Stream'
  BY <1>3, <1>4, <1>5, <1>6, <1>7, DriverOrder DEF Answering
<1> QED BY <1>1, <1>8, <1>9

LEMMA QuietPassesOrder == ASSUME OrderIInv, QuietPasses PROVE OrderIInv'
<1> USE DEF OrderIInv
<1>1. IInv'
  BY QuietPassesKeeps
<1>2. chip \in Channel
  BY DEF IInv, TypeOK
<1>3. mpp.doing # "reading" /\ chip' = [chip EXCEPT !.rxQuiet = FALSE]
      /\ UNCHANGED <<mpp, port, incoming, took, counts>>
  BY DEF QuietPasses
<1>4. /\ SameRead(chip, chip') /\ chip'.rxQueue = chip.rxQueue /\ chip'.write = chip.write
      /\ chip'.rxWire = chip.rxWire /\ chip'.rxPosition = chip.rxPosition
      /\ chip'.txUnderrunEom = chip.txUnderrunEom
  BY <1>2, <1>3 DEF Channel, SameRead
<1>5. SameReader
  BY <1>3, <1>4 DEF SameReader
<1>6. Driven' /\ Threes' /\ Stream'
  BY <1>3, <1>4, <1>5, StreamKeeps DEF Driven, Threes, SameRead
<1>7. Read' = Read /\ OnWire' = OnWire /\ (Called' <=> Called) /\ ~Called'
  BY <1>3, <1>5, ReaderKeeps DEF Called, Read, Complete
<1>8. Answering' => Answering
  BY <1>3, <1>4 DEF Answering
<1>9. InOrder'
  BY <1>3, <1>4, <1>7, <1>8, OrderKeeps
<1> QED BY <1>1, <1>6, <1>9

LEMMA WriteByteOrder == ASSUME OrderIInv, WriteByte PROVE OrderIInv'
<1> USE DEF OrderIInv
<1>1. IInv'
  BY WriteByteKeeps
<1>2. /\ mpp.doing = "sending" /\ mpp.out # <<>> /\ ~Busy(chip)
      /\ chip' = Transmit(chip, Head(mpp.out))
      /\ mpp' = [mpp EXCEPT !.out = Tail(@)]
      /\ UNCHANGED <<port, incoming, took, counts>>
  BY DEF WriteByte, TxBufferEmpty
<1>3. chip \in Channel /\ mpp \in Drivers /\ Head(mpp.out) \in Nat
  <2>1. chip \in Channel /\ mpp \in Drivers /\ mpp.out \in Seq(Nat)
    BY DEF IInv, TypeOK, Drivers
  <2> QED BY <1>2, <2>1
<1>4. /\ SameWire(chip, chip') /\ chip'.rxQueue = chip.rxQueue /\ chip'.write = chip.write
      /\ chip'.txUnderrunEom = chip.txUnderrunEom /\ SameRead(chip, chip')
  BY <1>2, <1>3, TransmitIs, TransmitReads
<1>5. mpp'.doing = mpp.doing /\ mpp'.in = mpp.in /\ mpp'.frame = mpp.frame /\ mpp'.then = mpp.then
  BY <1>2, <1>3 DEF Drivers
<1>6. SameReader
  BY <1>4, <1>5 DEF SameReader, SameWire
<1>7. Driven' /\ Threes' /\ Stream'
  BY <1>2, <1>4, <1>5, <1>6, StreamKeeps DEF Driven, Threes, SameRead, SameWire
<1>8. Read' = Read /\ OnWire' = OnWire /\ (Called' <=> Called)
  BY <1>6, ReaderKeeps
<1>9. Answering' => Answering
  BY <1>4, <1>5 DEF Answering
<1>10. InOrder'
  BY <1>2, <1>4, <1>8, <1>9, OrderKeeps DEF SameWire
<1> QED BY <1>1, <1>7, <1>10

LEMMA PollWaitsOrder == ASSUME OrderIInv, Poll, PollWaits PROVE OrderIInv'
<1> USE DEF OrderIInv
<1>1. IInv'
  BY PollWaitsKeeps
<1>2. UNCHANGED <<chip, incoming, mpp, took, counts>> /\ port'.offered = port.offered
  BY DEF Poll, PollWaits, IInv, TypeOK
<1>3. SameReader
  BY <1>2 DEF SameReader, SameRead
<1>4. Driven' /\ Threes' /\ Stream'
  BY <1>2, <1>3, StreamKeeps DEF Driven, Threes
<1>5. Read' = Read /\ OnWire' = OnWire /\ (Called' <=> Called)
  BY <1>3, ReaderKeeps
<1>6. Answering' => Answering
  BY <1>2 DEF Answering
<1>7. InOrder'
  BY <1>2, <1>5, <1>6, OrderKeeps
<1> QED BY <1>1, <1>4, <1>7

LEMMA StutterOrder == ASSUME OrderIInv, UNCHANGED vars PROVE OrderIInv'
<1> USE DEF OrderIInv
<1>1. IInv'
  BY StutterKeeps
<1>2. UNCHANGED <<chip, port, incoming, mpp, took, counts>>
  BY DEF vars
<1>3. SameReader
  BY <1>2 DEF SameReader, SameRead
<1>4. Driven' /\ Threes' /\ Stream'
  BY <1>2, <1>3, StreamKeeps DEF Driven, Threes
<1>5. Read' = Read /\ OnWire' = OnWire /\ (Called' <=> Called)
  BY <1>3, ReaderKeeps
<1>6. Answering' => Answering
  BY <1>2 DEF Answering
<1>7. InOrder'
  BY <1>2, <1>5, <1>6, OrderKeeps
<1> QED BY <1>1, <1>4, <1>7

-----------------------------------------------------------------------------
(* The driver turns on, sends, and is reset.                               *)

\* Nothing is read that is not in the driver's hands.
LEMMA NothingRead ==
  ASSUME mpp'.in = <<>>
  PROVE  ~Complete' /\ Read' = {} /\ ~Called'
<1>1. ~Complete'
  BY DEF Complete
<1>2. Read' = {}
  BY <1>1 DEF Read
<1> QED BY <1>1, <1>2 DEF Called

\* A receiver with nothing in it, and a driver with nothing.
LEMMA StreamOfNothing ==
  ASSUME chip'.rxFifo = <<>>, mpp'.in = <<>>, chip'.rxPosition \in Nat
  PROVE  Stream'
<1>1. Behind(0)'
  BY DEF Behind, Held
<1>2. Len(<<>>) = 0 /\ 0 <= FifoSize /\ 0 \in 0..0
  BY PortAssumption
<1> QED BY <1>1, <1>2 DEF Stream

LEMMA TurnOfNothing ==
  ASSUME NEW O
  PROVE  Turn({}, <<>>, O, FALSE, FALSE, FALSE)
BY DEF Turn, CallsLast, OneCall, TwoCalls, NoCall

LEMMA InitOrder == Init => OrderIInv
<1> SUFFICES ASSUME Init PROVE OrderIInv
  OBVIOUS
<1>1. IInv
  BY InitKeeps
<1>2. /\ chip = Fresh /\ port.offered = NoFrame /\ incoming = <<>> /\ took = <<>>
      /\ mpp = Idle /\ counts.arrivals = 0
  BY DEF Init, NothingOffered
<1>3. /\ chip.rxQueue = <<>> /\ chip.rxWire = <<>> /\ chip.rxPosition = 0 /\ chip.rxFifo = <<>>
      /\ ~chip.endOfFrame /\ ~chip.overrun /\ ~chip.rxQuiet
      /\ mpp.doing = "off" /\ mpp.in = <<>> /\ mpp.then = NoFrame
  BY <1>2 DEF Fresh, Idle
<1>4. ~Complete /\ ~Answering
  BY <1>3 DEF Complete, Answering
<1>5. Read = {} /\ OnWire = {} /\ Offers = {} /\ ~Called
  BY <1>2, <1>3, <1>4 DEF Read, OnWire, Offers, Called
<1>6. Order(<<>>, {}, {}, <<>>, {}, <<>>, 0)
  BY DEF Order, EachBefore, EachApart, AllBefore, AllApart, Among
<1>7. Turn({}, <<>>, {}, FALSE, FALSE, FALSE)
  BY TurnOfNothing
<1>8. Turn(OnWire, chip.rxQueue, Offers, Called \/ Answering, Called, chip.rxQuiet)
  BY <1>3, <1>4, <1>5, <1>7 DEF Turn
<1>9. InOrder
  BY <1>2, <1>3, <1>5, <1>6, <1>8 DEF InOrder
<1>10. Threes /\ Driven /\ Stream
  BY <1>2, <1>3 DEF Threes, Driven, Stream
<1> QED BY <1>1, <1>9, <1>10 DEF OrderIInv

LEMMA TurnOnOrder == ASSUME OrderIInv, TurnOn PROVE OrderIInv'
<1> USE DEF OrderIInv
<1>1. IInv'
  BY TurnOnKeeps
<1>2. chip \in Channel /\ mpp.doing = "off" /\ chip.rxPosition \in Nat
  BY DEF IInv, TypeOK, TurnOn, Channel
<1>3. mpp' = [Idle EXCEPT !.doing = "listening"]
      /\ UNCHANGED <<port, incoming, took>> /\ counts'.arrivals = counts.arrivals
  BY DEF TurnOn, IInv, TypeOK
<1>4. mpp'.doing = "listening" /\ mpp'.in = <<>> /\ mpp'.then = NoFrame
  BY <1>3 DEF Idle
<1>5. Registered(chip, chip')
  BY <1>2, TurnOnSets DEF TurnOn
<1>6. Cleared(chip') /\ "rx" \in chip'.write[3]
  BY <1>2, TurnOnReads DEF TurnOn
<1>7. chip'.rxQueue = chip.rxQueue /\ chip'.rxQuiet = chip.rxQuiet
      /\ chip'.rxWire = chip.rxWire /\ chip'.rxPosition = chip.rxPosition
  BY <1>5 DEF Registered, SameWire
<1>8. Driven'
  BY <1>4, <1>6 DEF Driven, Cleared
<1>9. Stream'
  BY <1>2, <1>4, <1>6, <1>7, StreamOfNothing DEF Cleared
<1>10. Read' = {} /\ ~Called' /\ ~Answering'
  BY <1>4, NothingRead DEF Answering
<1>11. InOrder' /\ Threes'
  <2>1. OnWire' = OnWire
    BY <1>7 DEF OnWire
  <2>2. InOrder'
    BY <1>3, <1>7, <1>10, <2>1, OrderKeeps
  <2> QED BY <1>3, <1>7, <2>2 DEF Threes
<1> QED BY <1>1, <1>8, <1>9, <1>11

LEMMA ResetOrder == ASSUME OrderIInv, Reset PROVE OrderIInv'
<1> USE DEF OrderIInv
<1>1. IInv'
  BY ResetKeeps
<1>2. chip' = Fresh /\ mpp' = Idle /\ UNCHANGED <<port, incoming, took>>
      /\ counts'.arrivals = counts.arrivals
  BY DEF Reset, IInv, TypeOK
<1>3. /\ chip'.rxQueue = <<>> /\ chip'.rxWire = <<>> /\ chip'.rxPosition = 0 /\ chip'.rxFifo = <<>>
      /\ ~chip'.endOfFrame /\ ~chip'.overrun /\ ~chip'.rxQuiet
      /\ mpp'.doing = "off" /\ mpp'.in = <<>> /\ mpp'.then = NoFrame
  BY <1>2 DEF Fresh, Idle
<1>4. Read' = {} /\ OnWire' = {} /\ ~Called' /\ ~Answering' /\ Offers' = Offers
  BY <1>2, <1>3, NothingRead DEF OnWire, Answering, Offers
<1>5. Order(took, {}, {}, <<>>, Offers, incoming, counts.arrivals)
  <2>1. Order(took, Read, OnWire, chip.rxQueue, Offers, incoming, counts.arrivals)
    BY DEF InOrder
  <2>2. Among(<<>>) = {} /\ EachApart(<<>>) /\ EachBefore(incoming)
    BY <2>1 DEF Among, EachApart, Order
  <2> QED BY <2>1, <2>2, OrderOfLess
<1>6. Turn({}, <<>>, Offers, FALSE, FALSE, FALSE)
  BY TurnOfNothing
<1>7. Turn(OnWire', chip'.rxQueue, Offers', Called' \/ Answering', Called', chip'.rxQuiet)
  BY <1>3, <1>4, <1>6 DEF Turn
<1>8. InOrder'
  BY <1>2, <1>3, <1>4, <1>5, <1>7 DEF InOrder
<1>9. Threes' /\ Driven' /\ Stream'
  BY <1>2, <1>3 DEF Threes, Driven, Stream
<1> QED BY <1>1, <1>8, <1>9

\* What the driver sends of its own is no answer.
LEMMA UnsentIsNoAnswer ==
  ASSUME TypeOK, InOrderAssumption, Unsent # <<>>
  PROVE  ~IsHandshake(Head(Unsent))
<1> DEFINE given == {i \in DOMAIN sent : Kind(sent[i]) # lapAck}
           k == Cardinality(given)
<1>1. k \in Nat
  <2>1. sent \in Seq(Seq(Nat))
    BY DEF TypeOK
  <2>2. DOMAIN sent = 1..Len(sent) /\ Len(sent) \in Nat
    BY <2>1
  <2>3. IsFiniteSet(1..Len(sent))
    BY <2>2, FS_Interval
  <2>4. IsFiniteSet(given)
    BY <2>2, <2>3, FS_Subset
  <2> HIDE DEF given
  <2> QED BY <2>4, FS_CardinalityType
<1>2. Unsent = SubSeq(Outgoing, k + 1, Len(Outgoing))
  BY DEF Unsent
<1> HIDE DEF k
<1>3. ASSUME NEW X, NEW q \in Seq(X), SubSeq(q, k + 1, Len(q)) # <<>>
      PROVE  \E i \in 1..Len(q) : Head(SubSeq(q, k + 1, Len(q))) = q[i]
  <2>1. k + 1 <= Len(q)
    BY <1>1, <1>3
  <2>2. Head(SubSeq(q, k + 1, Len(q))) = q[k + 1]
    BY <1>1, <2>1
  <2>3. k + 1 \in 1..Len(q)
    BY <1>1, <2>1
  <2> QED BY <2>2, <2>3
<1>4. PICK i \in 1..Len(Outgoing) : Head(Unsent) = Outgoing[i]
  BY <1>2, <1>3, PortAssumption
<1> QED BY <1>4 DEF InOrderAssumption

LEMMA SendOrder == ASSUME InOrderAssumption, OrderIInv, Send PROVE OrderIInv'
<1> USE DEF OrderIInv
<1>1. IInv'
  BY SendKeeps
<1>2. /\ chip \in Channel /\ mpp.doing = "listening" /\ mpp.in = <<>>
      /\ chip.rxWire = <<>> /\ chip.rxPosition = 0 /\ Unsent # <<>>
      /\ UNCHANGED <<port, incoming, took, counts>>
  BY DEF IInv, TypeOK, Send, SyncHunt, Driven, Threes
<1> DEFINE next == Head(Unsent)
           rts == <<To(next), From(next), lapRts>>
<1>3. next \in Whole /\ rts \in Whole /\ ~IsHandshake(next)
  BY <1>2, UnsentIs, UnsentIsNoAnswer DEF IInv
<1>4. rts[3] = lapRts
  OBVIOUS
<1>5. \/ Sending(chip, next, NoFrame)
      \/ Sending(chip, rts, next) /\ IsData(next)
  BY DEF Send
<1> HIDE DEF next, rts
<1>6. PICK frame, then : /\ Sending(chip, frame, then) /\ frame \in Whole
                         /\ then \in Whole \union {NoFrame}
                         /\ then # NoFrame => IsData(then)
                         /\ Kind(frame) # lapCts
  BY <1>3, <1>4, <1>5 DEF IsHandshake, Kind, lapRts, lapCts
<1>7. Registered(chip, chip')
  BY <1>2, <1>6, SendingIs
<1>8. /\ mpp'.doing = "sending" /\ mpp'.in = <<>> /\ mpp'.frame = frame /\ mpp'.then = then
      /\ SameRead(chip, chip') /\ "rx" \notin chip'.write[3]
  BY <1>2, <1>6, SendingReads DEF Sending
<1>9. SameReader
  BY <1>2, <1>7, <1>8 DEF SameReader, Registered, SameWire
<1>10. Driven'
  BY <1>6, <1>8 DEF Driven, SameRead
<1>11. ~Answering'
  BY <1>6, <1>8 DEF Answering
<1>12. InOrder' /\ Threes' /\ Stream'
  BY <1>2, <1>7, <1>8, <1>9, <1>11, DriverOrder
<1> QED BY <1>1, <1>10, <1>12

-----------------------------------------------------------------------------
(* A frame starts on the wire, and comes in.                               *)

LEMMA TopOfWire ==
  ASSUME NEW f \in Seq(Nat), Len(f) = 3
  PROVE  /\ Top(f \o Crc) = f /\ Len(f \o Crc) = 5 /\ f \o Crc # <<>>
         /\ f \in Whole /\ Top(f) = f
<1>1. Crc \in Seq(Nat) /\ Len(Crc) = 2
  BY DEF Crc
<1>2. /\ Len(f \o Crc) = 5 /\ f \o Crc # <<>>
      /\ (f \o Crc)[1] = f[1] /\ (f \o Crc)[2] = f[2] /\ (f \o Crc)[3] = f[3]
  <2>1. ASSUME NEW g \in Seq(Nat), NEW h \in Seq(Nat)
        PROVE  /\ Len(g \o h) = Len(g) + Len(h) /\ g \o h \in Seq(Nat)
               /\ \A i \in 1..Len(g) : (g \o h)[i] = g[i]
    BY ConcatProperties
  <2>4. /\ Len(f \o Crc) = Len(f) + Len(Crc) /\ f \o Crc \in Seq(Nat)
        /\ \A i \in 1..Len(f) : (f \o Crc)[i] = f[i]
    BY <1>1, <2>1
  <2> DEFINE s == f \o Crc
  <2> HIDE DEF s
  <2>2. Len(s) = 5 /\ \A i \in 1..3 : s[i] = f[i]
    BY <1>1, <2>4 DEF s
  <2>3. s # <<>>
    BY <2>2
  <2> QED BY <2>2, <2>3 DEF s
<1>3. f = <<f[1], f[2], f[3]>>
  OBVIOUS
<1>4. f \in Whole /\ Top(f) = f /\ Top(f \o Crc) = f
  <2>1. f \in Whole
    BY DEF Whole
  <2>2. Top(f) = f /\ Top(f \o Crc) = f
    BY <1>2, <1>3, Zenon DEF Top
  <2> QED BY <2>1, <2>2
<1> QED BY <1>2, <1>4

\* Nothing is held of a frame that is just beginning.
LEMMA HeldOfNothing ==
  ASSUME NEW fifo \in Seq(Received), NEW in \in Seq(Nat), NEW wire, NEW position \in Nat, NEW accepted,
         fifo = <<>> => in = <<>>, fifo # <<>> => fifo[Len(fifo)].endOfFrame
  PROVE  Held(Len(fifo), in, fifo, wire, position, accepted)
<1> DEFINE m == Len(fifo)
           n == Len(in)
<1>1. m \in Nat /\ n \in Nat /\ (m = 0 <=> fifo = <<>>) /\ (n = 0 <=> in = <<>>)
  OBVIOUS
<1>2. m = 0 \/ fifo[m].endOfFrame
  BY <1>1
<1> HIDE DEF m, n
<1>3. m - m <= position /\ (\A i \in m+1..m : FALSE) /\ ~(m > m)
  BY <1>1
<1>4. m = 0 => n = 0 /\ n + m <= position /\ \A k \in 1..n : FALSE
  BY <1>1
<1>5. /\ m = 0 \/ fifo[m].endOfFrame
      /\ m - m <= position
      /\ \A i \in m+1..m : ~fifo[i].endOfFrame /\ fifo[i].value = wire[(position + i) - m]
      /\ m = 0 => n + m <= position /\ \A k \in 1..n : in[k] = wire[(position + k) - (n + m)]
      /\ m > m \/ (m = 0 /\ n > 0) => accepted
  <2>1. m = 0 => n + m <= position /\ \A k \in 1..n : in[k] = wire[(position + k) - (n + m)]
    BY <1>4
  <2>2. ~(m > m \/ (m = 0 /\ n > 0))
    BY <1>1, <1>3, <1>4
  <2> QED BY <1>2, <1>3, <2>1, <2>2
<1> QED BY <1>5 DEF Held, m, n

LEMMA StartsOrder == ASSUME OrderIInv, Starts PROVE OrderIInv'
<1> USE DEF OrderIInv
<1>1. IInv'
  BY StartsKeeps
<1>2. /\ chip \in Channel /\ chip.rxQueue \in Seq(Frame) /\ mpp \in Drivers
      /\ chip.rxWire = <<>> /\ ~chip.rxQuiet /\ chip.rxQueue # <<>>
      /\ "rx" \in chip.write[3] /\ chip' = FrameStarts(chip)
      /\ UNCHANGED <<port, incoming, mpp, took, counts>>
  BY DEF Starts, CanStart, IInv, TypeOK, Channel, Drivers
<1> DEFINE f == chip.rxQueue[1]
<1>3. f \in Seq(Nat) /\ Len(f) = 3
  BY <1>2, 1 \in 1..Len(chip.rxQueue) DEF Threes, Frame
<1>4. Top(f \o Crc) = f /\ Len(f \o Crc) = 5 /\ f \o Crc # <<>>
  BY <1>3, TopOfWire
<1>5. /\ SameRead(chip, chip') /\ chip'.rxQueue = Tail(chip.rxQueue) /\ chip'.rxQuiet = FALSE
      /\ chip'.rxWire = f \o Crc /\ chip'.rxPosition = 0
  BY <1>2, FrameStartsReads
<1>6. chip'.write = chip.write
  BY <1>2, FrameStartsIs
<1>7. OnWire' = {f} /\ OnWire = {} /\ Offers' = Offers
  BY <1>2, <1>4, <1>5 DEF OnWire, Offers
<1>8. (Complete' <=> Complete) /\ Read' = Read /\ (Called' <=> Called)
  <2>1. Complete' <=> Complete
    BY <1>2, <1>5 DEF Complete, SameRead
  <2> QED BY <1>2, <2>1 DEF Read, Called
<1>9. ~Answering /\ ~Answering'
  BY <1>2 DEF Driven, Answering
<1> HIDE DEF f
<1>10. InOrder'
  <2>1. Order(took, Read, {f}, Tail(chip.rxQueue), Offers, incoming, counts.arrivals)
    <3>1. Order(took, Read, {}, chip.rxQueue, Offers, incoming, counts.arrivals)
      BY <1>7 DEF InOrder
    <3> QED BY <1>2, <3>1, OrderOfStart DEF f
  <2>2. Turn({f}, Tail(chip.rxQueue), Offers, Called, Called, FALSE)
    <3>1. Turn({}, chip.rxQueue, Offers, Called, Called, FALSE)
      <4>1. Turn(OnWire, chip.rxQueue, Offers, Called \/ Answering, Called, chip.rxQuiet)
        BY DEF InOrder
      <4> QED BY <1>2, <1>7, <1>9, <4>1 DEF Turn
    <3> QED BY <1>2, <3>1, TurnOfStart DEF f
  <2>3. Turn(OnWire', chip'.rxQueue, Offers', Called' \/ Answering', Called', chip'.rxQuiet)
    BY <1>5, <1>7, <1>8, <1>9, <2>2 DEF Turn
  <2> QED BY <1>2, <1>5, <1>7, <1>8, <2>1, <2>3 DEF InOrder
<1>11. Threes'
  <2>1. \A i \in 1..Len(chip'.rxQueue) : Len(chip'.rxQueue[i]) = 3
    <3>1. ASSUME NEW q \in Seq(Frame), q # <<>>, NEW i \in 1..Len(Tail(q))
          PROVE  Tail(q)[i] = q[i + 1] /\ i + 1 \in 1..Len(q)
      BY <3>1
    <3> QED BY <1>2, <1>5, <3>1 DEF Threes
  <2> QED BY <1>2, <1>4, <1>5, <2>1 DEF Threes
<1>12. Driven'
  BY <1>2, <1>5, <1>6 DEF Driven, SameRead
<1>13. Stream'
  <2>1. SUFFICES ASSUME mpp.doing # "off", ~chip.overrun PROVE Stream'
    BY <1>2, <1>5 DEF Stream, SameRead
  <2>2. Len(chip.rxFifo) <= FifoSize /\ \E e \in 0..Len(chip.rxFifo) : Behind(e)
    BY <2>1 DEF Stream
  <2>3. PICK e \in 0..Len(chip.rxFifo) : Behind(e)
    BY <2>2
  <2>4. /\ Held(e, mpp.in, chip.rxFifo, chip.rxWire, 0, chip.rxAccepted)
        /\ e > 0 => Complete \/ Len(mpp.in) + Len(chip.rxFifo) <= 4
    BY <1>2, <2>3 DEF Behind, Threes
  <2>5. Len(mpp.in) \in Nat /\ Len(chip.rxFifo) \in Nat
    BY <1>2 DEF Channel, Drivers
  <2>6. e = Len(chip.rxFifo) /\ (e = 0 => Len(mpp.in) = 0)
    <3>1. Len(chip.rxFifo) - e <= 0 /\ (e = 0 => Len(mpp.in) + Len(chip.rxFifo) <= 0)
      BY <2>4 DEF Held
    <3>2. ASSUME NEW n \in Nat, NEW m \in Nat, NEW x \in 0..m, m - x <= 0, x = 0 => n + m <= 0
          PROVE  x = m /\ (x = 0 => n = 0)
      BY <3>2
    <3>3. e \in 0..Len(chip.rxFifo)
      OBVIOUS
    <3> QED BY <2>5, <3>1, <3>2, <3>3
  <2>9. chip.rxFifo # <<>> => chip.rxFifo[e].endOfFrame
    BY <2>4, <2>5, <2>6 DEF Held
  <2>10. chip.rxFifo \in Seq(Received) /\ mpp.in \in Seq(Nat)
    BY <1>2 DEF Channel, Drivers
  <2>7. Held(e, mpp.in, chip.rxFifo, f \o Crc, 0, chip.rxAccepted)
    BY <2>6, <2>9, <2>10, HeldOfNothing
  <2>8. Behind(e)'
    BY <1>2, <1>5, <1>6, <1>8, <2>4, <2>7 DEF Behind, SameRead
  <2> QED BY <1>5, <2>2, <2>8 DEF Stream, SameRead
<1> QED BY <1>1, <1>10, <1>11, <1>12, <1>13

\* The next byte of a frame in the receiver.
LEMMA HeldNext ==
  ASSUME NEW fifo \in Seq(Received), NEW in \in Seq(Nat), NEW wire, NEW position \in Nat,
         NEW e \in 0..Len(fifo), NEW accepted, Held(e, in, fifo, wire, position, accepted)
  PROVE  Held(e, in, Append(fifo, [value |-> wire[position + 1], endOfFrame |-> FALSE]),
              wire, position + 1, TRUE)
<1> DEFINE m == Len(fifo)
           n == Len(in)
           s == Append(fifo, [value |-> wire[position + 1], endOfFrame |-> FALSE])
<1>1. /\ m \in Nat /\ n \in Nat /\ Len(s) = m + 1 /\ (\A i \in 1..m : s[i] = fifo[i])
      /\ s[m + 1] = [value |-> wire[position + 1], endOfFrame |-> FALSE]
  OBVIOUS
<1> HIDE DEF s
<1>2. /\ e = 0 \/ fifo[e].endOfFrame
      /\ m - e <= position
      /\ \A i \in e+1..m : ~fifo[i].endOfFrame /\ fifo[i].value = wire[(position + i) - m]
      /\ e = 0 => n + m <= position /\ \A k \in 1..n : in[k] = wire[(position + k) - (n + m)]
  BY DEF Held
<1> HIDE DEF m, n
<1>3. e \in 0..m
  BY DEF m
<1>4. /\ e = 0 \/ s[e].endOfFrame
      /\ (m + 1) - e <= position + 1
  BY <1>1, <1>2, <1>3
<1>5. ASSUME NEW i \in e+1..m+1
      PROVE  ~s[i].endOfFrame /\ s[i].value = wire[((position + 1) + i) - (m + 1)]
  <2>1. CASE i = m + 1
    <3>1. ((position + 1) + i) - (m + 1) = position + 1
      BY <1>1, <2>1
    <3>2. s[i].value = wire[position + 1] /\ ~s[i].endOfFrame
      BY <1>1, <2>1
    <3> QED BY <3>1, <3>2
  <2>2. CASE i # m + 1
    <3>1. i \in e+1..m /\ i \in 1..m
      BY <1>1, <1>3, <2>2
    <3>2. ((position + 1) + i) - (m + 1) = (position + i) - m
      BY <1>1, <3>1
    <3> QED BY <1>1, <1>2, <3>1, <3>2
  <2> QED BY <2>1, <2>2
<1>6. ASSUME e = 0
      PROVE  /\ n + (m + 1) <= position + 1
             /\ \A k \in 1..n : in[k] = wire[((position + 1) + k) - (n + (m + 1))]
  <2>1. n + m <= position /\ \A k \in 1..n : in[k] = wire[(position + k) - (n + m)]
    BY <1>2, <1>6
  <2>2. ASSUME NEW k \in 1..n
        PROVE  ((position + 1) + k) - (n + (m + 1)) = (position + k) - (n + m)
    BY <1>1
  <2> QED BY <1>1, <2>1, <2>2
<1>7. Held(e, in, s, wire, position + 1, TRUE)
  BY <1>1, <1>4, <1>5, <1>6 DEF Held, n
<1> QED BY <1>7 DEF s

LEMMA ReceivesOrder == ASSUME InOrderAssumption, OrderIInv, Receives PROVE OrderIInv'
<1> USE DEF OrderIInv
<1>1. IInv'
  BY ReceivesKeeps
<1>2. /\ chip \in Channel /\ mpp \in Drivers
      /\ chip.rxWire # <<>> /\ Len(chip.rxWire) = 5 /\ chip.rxPosition < 5 /\ chip.rxPosition \in Nat
      /\ chip.rxFifo \in Seq(Received) /\ mpp.in \in Seq(Nat)
      /\ mpp.doing = "reading" => chip.rxFifo = <<>>
      /\ chip' = ReceiveByte(chip)
      /\ UNCHANGED <<port, incoming, mpp, took, counts>>
  BY DEF Receives, RxCharAvailable, IInv, TypeOK, Ready, Threes, Channel, Drivers
<1> DEFINE position == chip.rxPosition + 1
           value == chip.rxWire[position]
           last == position = Len(chip.rxWire)
           accepted == IF position = 1 THEN LetIn(chip, value) ELSE chip.rxAccepted
           entry == [value |-> value, endOfFrame |-> last]
           pushes == accepted /\ "rx" \in chip.write[3]
<1>3. /\ chip'.endOfFrame = chip.endOfFrame
      /\ IF pushes
         THEN \/ chip'.overrun
              \/ /\ ~chip.overrun /\ ~chip'.overrun /\ Len(chip.rxFifo) # FifoSize
                 /\ chip'.rxFifo = Append(chip.rxFifo, entry)
         ELSE chip'.rxFifo = chip.rxFifo /\ chip'.overrun = chip.overrun
      /\ chip.overrun => chip'.overrun
      /\ IF last
         THEN chip'.rxWire = <<>> /\ chip'.rxPosition = 0 /\ chip'.rxQuiet
         ELSE /\ chip'.rxWire = chip.rxWire /\ chip'.rxPosition = position
              /\ chip'.rxAccepted = accepted /\ chip'.rxQuiet = chip.rxQuiet
  BY <1>2, ReceiveByteReads
<1>4. /\ SameSent(chip, chip') /\ chip'.write = chip.write /\ chip'.rxQueue = chip.rxQueue
  BY <1>2, ReceiveByteIs
<1>5. (position = 1 <=> chip.rxPosition = 0) /\ position \in Nat /\ (last <=> chip.rxPosition = 4)
  BY <1>2
<1> HIDE DEF pushes, last, entry, accepted, position
<1>6. Driven'
  BY <1>2, <1>3, <1>4 DEF Driven
<1>7. Threes'
  BY <1>2, <1>3, <1>4 DEF Threes
\* What the receiver holds.
<1>8. ASSUME mpp.doing # "off", ~chip.overrun
      PROVE  /\ Len(chip.rxFifo) \in Nat /\ Len(chip.rxFifo) <= FifoSize
             /\ \E e \in 0..Len(chip.rxFifo) : Behind(e)
             /\ FifoSize \in Nat /\ FifoSize <= 4
  BY <1>2, <1>8, PortAssumption DEF Stream, InOrderAssumption
\* Nothing of the frame on the wire is held when it is not let in.
<1>9. ASSUME mpp.doing # "off", ~chip.overrun, ~pushes, NEW e \in 0..Len(chip.rxFifo), Behind(e)
      PROVE  /\ e = Len(chip.rxFifo) /\ (chip.rxFifo = <<>> => mpp.in = <<>>)
             /\ chip.rxFifo # <<>> => chip.rxFifo[Len(chip.rxFifo)].endOfFrame
  <2>1. Held(e, mpp.in, chip.rxFifo, chip.rxWire, chip.rxPosition, chip.rxAccepted)
    BY <1>9 DEF Behind
  <2> DEFINE m == Len(chip.rxFifo)
             n == Len(mpp.in)
  <2>2. /\ e = 0 \/ chip.rxFifo[e].endOfFrame
        /\ m - e <= chip.rxPosition
        /\ e = 0 => n + m <= chip.rxPosition
        /\ m > e \/ (e = 0 /\ n > 0) => chip.rxAccepted
    BY <2>1 DEF Held
  <2>3. m \in Nat /\ n \in Nat /\ (m = 0 <=> chip.rxFifo = <<>>) /\ (n = 0 <=> mpp.in = <<>>)
    BY <1>2
  <2> HIDE DEF m, n
  <2>4. e \in 0..m
    BY DEF m
  <2>5. e = m /\ (m = 0 => n = 0)
    <3>1. CASE "rx" \notin chip.write[3]
      BY <1>9, <2>3, <3>1 DEF Behind, m
    <3>2. CASE chip.rxPosition = 0
      BY <2>2, <2>3, <2>4, <3>2
    <3>3. CASE chip.rxPosition # 0 /\ "rx" \in chip.write[3]
      <4>1. ~chip.rxAccepted
        BY <1>5, <1>9, <3>3 DEF pushes, accepted
      <4> QED BY <2>2, <2>3, <2>4, <4>1
    <3> QED BY <3>1, <3>2, <3>3
  <2> QED BY <2>2, <2>3, <2>5 DEF m
<1>10. ASSUME ~pushes PROVE (Complete' <=> Complete) /\ Read' = Read
  <2>1. Complete' <=> Complete
    BY <1>2, <1>3, <1>10 DEF Complete
  <2> QED BY <1>2, <2>1 DEF Read
<1>11. ASSUME ~chip'.overrun, pushes, Complete'
       PROVE  last /\ Read = {} /\ Read' = OnWire
  <2>1. /\ mpp.doing = "reading" /\ chip.rxFifo = <<>> /\ Len(mpp.in) = 4
        /\ chip'.rxFifo = <<entry>> /\ entry.endOfFrame /\ ~chip.overrun
    <3>1. chip'.rxFifo = Append(chip.rxFifo, entry) /\ ~chip.overrun
      BY <1>3, <1>11
    <3>2. mpp.doing = "reading" /\ Len(mpp.in) = 4 /\ chip'.rxFifo[1].endOfFrame
      BY <1>2, <1>11 DEF Complete
    <3>3. chip.rxFifo = <<>>
      BY <1>2, <3>2
    <3> QED BY <3>1, <3>2, <3>3
  <2>2. last /\ ~Complete /\ Read = {}
    <3>1. ~Complete
      BY <2>1 DEF Complete
    <3> QED BY <2>1, <3>1 DEF entry, Read
  <2>3. PICK e \in 0..Len(chip.rxFifo) : Behind(e)
    BY <1>8, <2>1
  <2>4. e = 0 /\ chip.rxPosition = 4
    BY <1>5, <2>1, <2>2, <2>3
  <2>5. Held(0, mpp.in, <<>>, chip.rxWire, 4, chip.rxAccepted)
    BY <2>1, <2>3, <2>4 DEF Behind
  <2>6. \A k \in 1..4 : mpp.in[k] = chip.rxWire[(4 + k) - (4 + 0)]
    <3>1. Len(<<>>) = 0 /\ Len(mpp.in) = 4
      BY <2>1
    <3> QED BY <2>5, <3>1 DEF Held
  <2>7. Top(mpp.in) = Top(chip.rxWire)
    <3>1. mpp.in[1] = chip.rxWire[1] /\ mpp.in[2] = chip.rxWire[2] /\ mpp.in[3] = chip.rxWire[3]
      BY <2>6
    <3> QED BY <3>1 DEF Top
  <2> QED BY <1>2, <1>11, <2>2, <2>7 DEF Read, OnWire
<1>12. ~Complete' => Read' = {}
  BY DEF Read
<1>13. Answering' => Answering
  BY <1>2, <1>4 DEF Answering, SameSent
<1>14. CASE ~last
  <2>1. Read' \subseteq Read
    BY <1>10, <1>11, <1>12, <1>14 DEF Complete
  <2>2. OnWire' = OnWire /\ chip'.rxQuiet = chip.rxQuiet
    BY <1>3, <1>14 DEF OnWire
  <2>3. Called' => Called
    BY <2>1 DEF Called
  <2>4. InOrder'
    BY <1>2, <1>4, <1>13, <2>1, <2>2, <2>3, OrderKeeps
  <2>5. Stream'
    <3>1. SUFFICES ASSUME mpp.doing # "off", ~chip'.overrun PROVE Stream'
      BY <1>2 DEF Stream
    <3>2. ~chip.overrun
      BY <1>3, <3>1
    <3>3. PICK e \in 0..Len(chip.rxFifo) : Behind(e)
      BY <1>8, <3>1, <3>2
    <3>4. CASE pushes
      <4>1. /\ chip'.rxFifo = Append(chip.rxFifo, [value |-> chip.rxWire[chip.rxPosition + 1], endOfFrame |-> FALSE])
            /\ Len(chip.rxFifo) # FifoSize
        BY <1>3, <1>14, <3>1, <3>4 DEF entry, position, last
      <4>2. Held(e, mpp.in, chip.rxFifo, chip.rxWire, chip.rxPosition, chip.rxAccepted)
        BY <3>3 DEF Behind
      <4>3. Held(e, mpp.in, chip'.rxFifo, chip.rxWire, chip.rxPosition + 1, TRUE)
        BY <1>2, <4>1, <4>2, HeldNext
      <4>4. chip'.rxWire = chip.rxWire /\ chip'.rxPosition = chip.rxPosition + 1 /\ chip'.rxAccepted = TRUE
        BY <1>2, <1>3, <1>14, <3>4 DEF pushes, position, Channel
      <4>5. Held(e, mpp.in, chip.rxFifo, chip.rxWire, chip.rxPosition, chip.rxAccepted)'
        BY <1>2, <4>3, <4>4
      <4>6. Len(chip'.rxFifo) = Len(chip.rxFifo) + 1
        BY <1>2, <4>1
      <4>7. e > 0 => Len(mpp.in) + Len(chip'.rxFifo) <= 4
        <5>1. ASSUME e > 0 PROVE mpp.in = <<>>
          <6>1. chip.rxFifo # <<>>
            BY <1>2, <5>1
          <6> QED BY <1>2, <6>1 DEF Driven
        <5>2. /\ Len(chip.rxFifo) \in Nat /\ Len(chip.rxFifo) <= FifoSize
              /\ FifoSize \in Nat /\ FifoSize <= 4
          BY <1>8, <3>1, <3>2
        <5>3. mpp.in = <<>> => Len(mpp.in) = 0
          OBVIOUS
        <5>4. ASSUME NEW m \in Nat, m <= FifoSize, m # FifoSize, FifoSize \in Nat, FifoSize <= 4
              PROVE  0 + (m + 1) <= 4
          BY <5>4
        <5>5. 0 + Len(chip'.rxFifo) <= 4
          BY <4>1, <4>6, <5>2, <5>4
        <5> QED BY <5>1, <5>3, <5>5
      <4>8. Behind(e)'
        BY <1>2, <1>4, <3>4, <4>5, <4>7 DEF Behind, pushes
      <4>9. Len(chip'.rxFifo) <= FifoSize /\ e \in 0..Len(chip'.rxFifo)
        BY <1>8, <3>1, <3>2, <4>1, <4>6
      <4> QED BY <4>8, <4>9 DEF Stream
    <3>5. CASE ~pushes
      <4>1. /\ e = Len(chip.rxFifo) /\ (chip.rxFifo = <<>> => mpp.in = <<>>)
            /\ chip.rxFifo # <<>> => chip.rxFifo[Len(chip.rxFifo)].endOfFrame
        BY <1>9, <3>1, <3>2, <3>3, <3>5
      <4>2. chip'.rxFifo = chip.rxFifo /\ chip'.rxWire = chip.rxWire /\ chip'.rxPosition = position
        BY <1>3, <1>14, <3>5
      <4>3. Held(Len(chip.rxFifo), mpp.in, chip.rxFifo, chip.rxWire, position, chip'.rxAccepted)
        BY <1>2, <1>5, <4>1, HeldOfNothing
      <4>4. Held(e, mpp.in, chip.rxFifo, chip.rxWire, chip.rxPosition, chip.rxAccepted)'
        BY <1>2, <4>1, <4>2, <4>3
      <4>5. Behind(e)'
        BY <1>2, <1>4, <1>10, <3>3, <3>5, <4>2, <4>4 DEF Behind
      <4> QED BY <1>8, <3>1, <3>2, <4>2, <4>5 DEF Stream
    <3> QED BY <3>4, <3>5
  <2> QED BY <1>1, <1>6, <1>7, <2>4, <2>5
<1>15. CASE last
  <2>1. OnWire' = {} /\ chip'.rxQuiet /\ chip'.rxWire = <<>> /\ chip'.rxPosition = 0
    BY <1>3, <1>15 DEF OnWire
  <2>2. Read' \subseteq Read \/ (Read = {} /\ Read' = OnWire)
    BY <1>10, <1>11, <1>12 DEF Complete
  <2>3. Offers' = Offers
    BY <1>2 DEF Offers
  <2>4. InOrder'
    <3>1. Order(took, Read, OnWire, chip.rxQueue, Offers, incoming, counts.arrivals)
      BY DEF InOrder
    <3>2. EachApart(chip.rxQueue) /\ EachBefore(incoming)
      BY <3>1 DEF Order
    <3>3. Order(took, Read', {}, chip.rxQueue, Offers, incoming, counts.arrivals)
      <4>1. CASE Read' \subseteq Read
        BY <3>1, <3>2, <4>1, OrderOfLess
      <4>2. CASE Read = {} /\ Read' = OnWire
        BY <3>1, <4>2, OrderOfRead
      <4> QED BY <2>2, <4>1, <4>2
    <3>4. Order(took, Read, OnWire, chip.rxQueue, Offers, incoming, counts.arrivals)'
      BY <1>2, <1>4, <2>1, <2>3, <3>3
    <3>5. Turn(OnWire, chip.rxQueue, Offers, Called \/ Answering, Called, chip.rxQuiet)
      BY DEF InOrder
    <3>6. Called' \/ Answering' => (Called \/ Answering) \/ \E f \in OnWire : Calls(f)
      BY <1>13, <2>2 DEF Called
    <3>7. Turn({}, chip.rxQueue, Offers, Called' \/ Answering', Called', TRUE)
      BY <3>5, <3>6, TurnOfRead
    <3>8. Turn(OnWire, chip.rxQueue, Offers, Called \/ Answering, Called, chip.rxQuiet)'
      BY <1>4, <2>1, <2>3, <3>7 DEF Turn
    <3> QED BY <3>4, <3>8 DEF InOrder
  <2>5. Stream'
    <3>1. SUFFICES ASSUME mpp.doing # "off", ~chip'.overrun PROVE Stream'
      BY <1>2 DEF Stream
    <3>2. ~chip.overrun
      BY <1>3, <3>1
    <3>3. PICK e \in 0..Len(chip.rxFifo) : Behind(e)
      BY <1>8, <3>1, <3>2
    <3>4. CASE pushes
      <4>1. /\ chip'.rxFifo = Append(chip.rxFifo, entry) /\ entry.endOfFrame
            /\ Len(chip.rxFifo) # FifoSize
        BY <1>3, <1>15, <3>1, <3>4 DEF entry
      <4> DEFINE s == chip'.rxFifo
      <4>2. s \in Seq(Received) /\ s # <<>> /\ s[Len(s)].endOfFrame /\ Len(s) = Len(chip.rxFifo) + 1
        <5>1. s \in Seq(Received)
          BY <1>1 DEF IInv, TypeOK, Channel
        <5> QED BY <1>2, <4>1, <5>1
      <4>3. Held(Len(s), mpp.in, s, <<>>, 0, chip'.rxAccepted)
        BY <1>2, <4>2, HeldOfNothing
      <4>4. Held(Len(s), mpp.in', s, chip'.rxWire, chip'.rxPosition, chip'.rxAccepted)
        BY <1>2, <2>1, <4>3
      <4>5. Complete' \/ Len(mpp.in) + Len(s) <= 4
        <5>1. CASE mpp.doing # "reading"
          <6>1. mpp.in = <<>>
            BY <5>1 DEF Driven
          <6> QED BY <1>8, <3>1, <3>2, <4>1, <4>2, <6>1
        <5>2. CASE mpp.doing = "reading"
          <6>1. chip.rxFifo = <<>> /\ e = 0
            BY <1>2, <3>3, <5>2
          <6>2. Held(0, mpp.in, <<>>, chip.rxWire, 4, chip.rxAccepted)
            BY <1>5, <1>15, <3>3, <6>1 DEF Behind
          <6>3. Len(mpp.in) <= 4 /\ Len(mpp.in) \in Nat
            BY <1>2, <6>2 DEF Held
          <6>4. s = <<entry>>
            BY <4>1, <6>1
          <6>5. Len(mpp.in) = 4 => Complete'
            BY <1>2, <3>1, <4>1, <5>2, <6>4 DEF Complete
          <6>6. Len(s) = 1
            BY <6>4
          <6>8. ASSUME NEW n \in Nat, n <= 4, n # 4 PROVE n + 1 <= 4
            BY <6>8
          <6>7. Len(mpp.in) # 4 => Len(mpp.in) + 1 <= 4
            BY <6>3, <6>8
          <6> HIDE DEF s
          <6> QED BY <6>5, <6>6, <6>7
        <5> QED BY <5>1, <5>2
      <4>6. "rx" \in chip'.write[3]
        BY <1>4, <3>4 DEF pushes
      <4>7. Len(s) <= FifoSize /\ Len(s) \in 0..Len(s)
        BY <1>8, <3>1, <3>2, <4>1, <4>2
      <4>8. mpp' = mpp
        BY <1>2
      <4> HIDE DEF s
      <4>9. \E x \in 0..Len(s) : /\ Held(x, mpp'.in, s, chip'.rxWire, chip'.rxPosition, chip'.rxAccepted)
                                 /\ x > 0 => Complete' \/ Len(mpp'.in) + Len(s) <= 4
                                 /\ "rx" \notin chip'.write[3] => x = Len(s) /\ mpp'.in = <<>>
        BY <4>4, <4>5, <4>6, <4>7, <4>8
      <4> QED BY <4>7, <4>9 DEF Stream, Behind, s
    <3>5. CASE ~pushes
      <4>1. /\ e = Len(chip.rxFifo) /\ (chip.rxFifo = <<>> => mpp.in = <<>>)
            /\ chip.rxFifo # <<>> => chip.rxFifo[Len(chip.rxFifo)].endOfFrame
        BY <1>9, <3>1, <3>2, <3>3, <3>5
      <4>2. chip'.rxFifo = chip.rxFifo
        BY <1>3, <3>5
      <4>3. Held(Len(chip.rxFifo), mpp.in, chip.rxFifo, <<>>, 0, chip'.rxAccepted)
        BY <1>2, <4>1, HeldOfNothing
      <4>4. Held(e, mpp.in, chip.rxFifo, chip.rxWire, chip.rxPosition, chip.rxAccepted)'
        BY <1>2, <2>1, <4>1, <4>2, <4>3
      <4>5. Behind(e)'
        BY <1>2, <1>4, <1>10, <3>3, <3>5, <4>2, <4>4 DEF Behind
      <4> QED BY <1>8, <3>1, <3>2, <4>2, <4>5 DEF Stream
    <3> QED BY <3>4, <3>5
  <2> QED BY <1>1, <1>6, <1>7, <2>4, <2>5
<1> QED BY <1>14, <1>15

-----------------------------------------------------------------------------
(* The driver reads a byte, and a frame to its end.                        *)

LEMMA RestOf ==
  ASSUME NEW S, NEW fifo \in Seq(S), fifo # <<>>
  PROVE  /\ Len(fifo) \in Nat \ {0} /\ Len(Tail(fifo)) = Len(fifo) - 1 /\ Tail(fifo) \in Seq(S)
         /\ \A i \in 1..Len(fifo)-1 : Tail(fifo)[i] = fifo[i + 1]
OBVIOUS

\* The last byte of a frame is read.
LEMMA HeldAfterEnd ==
  ASSUME NEW fifo \in Seq(Received), fifo # <<>>, fifo[1].endOfFrame,
         NEW in \in Seq(Nat), NEW wire, NEW position \in Nat, NEW accepted,
         NEW e \in 0..Len(fifo), Held(e, in, fifo, wire, position, accepted)
  PROVE  e - 1 \in 0..Len(Tail(fifo)) /\ Held(e - 1, <<>>, Tail(fifo), wire, position, accepted)
<1> DEFINE m == Len(fifo)
           s == Tail(fifo)
<1>1. /\ m \in Nat \ {0} /\ Len(s) = m - 1
      /\ \A i \in 1..m-1 : s[i] = fifo[i + 1]
  BY RestOf
<1> HIDE DEF s
<1>2. /\ e = 0 \/ fifo[e].endOfFrame
      /\ m - e <= position
      /\ \A i \in e+1..m : ~fifo[i].endOfFrame /\ fifo[i].value = wire[(position + i) - m]
      /\ m > e => accepted
  BY DEF Held
<1> HIDE DEF m
<1>3. e \in 1..m
  <2>1. e \in 0..m
    BY DEF m
  <2>2. 1 \notin e+1..m
    BY <1>2
  <2> QED BY <1>1, <2>1, <2>2
<1>4. e - 1 = 0 \/ s[e - 1].endOfFrame
  <2>1. ASSUME e - 1 # 0 PROVE s[e - 1].endOfFrame
    <3>1. e - 1 \in 1..m-1 /\ (e - 1) + 1 = e /\ e # 0
      BY <1>1, <1>3, <2>1
    <3>2. s[e - 1] = fifo[e]
      BY <1>1, <3>1
    <3> QED BY <1>2, <3>1, <3>2
  <2> QED BY <2>1
<1>5. (m - 1) - (e - 1) <= position
  BY <1>1, <1>2, <1>3
<1>6. ASSUME NEW i \in (e-1)+1..m-1
      PROVE  ~s[i].endOfFrame /\ s[i].value = wire[(position + i) - (m - 1)]
  <2>1. i \in 1..m-1 /\ i + 1 \in e+1..m /\ (position + (i + 1)) - m = (position + i) - (m - 1)
    BY <1>1, <1>3
  <2>2. s[i] = fifo[i + 1]
    BY <1>1, <2>1
  <2> QED BY <1>2, <2>1, <2>2
<1>7. e - 1 = 0 => 0 + (m - 1) <= position /\ \A k \in 1..0 : FALSE
  BY <1>1, <1>2, <1>3
<1>8. (m - 1 > e - 1 => accepted) /\ ~(0 > 0) /\ e - 1 \in 0..m-1
  BY <1>1, <1>2, <1>3
<1>9. Held(e - 1, <<>>, s, wire, position, accepted)
  <2>1. Len(<<>>) = 0
    OBVIOUS
  <2>2. \A k \in 1..0 : <<>>[k] = wire[(position + k) - (0 + (m - 1))]
    OBVIOUS
  <2> QED BY <1>1, <1>4, <1>5, <1>6, <1>7, <1>8, <2>1, <2>2 DEF Held
<1> QED BY <1>1, <1>8, <1>9 DEF s

\* Another byte is.
LEMMA HeldMoved ==
  ASSUME NEW fifo \in Seq(Received), fifo # <<>>, ~fifo[1].endOfFrame,
         NEW in \in Seq(Nat), NEW wire, NEW position \in Nat, NEW accepted,
         NEW e \in 0..Len(fifo), Held(e, in, fifo, wire, position, accepted)
  PROVE  LET d == IF e = 0 THEN 0 ELSE e - 1 IN
         /\ d \in 0..Len(Tail(fifo)) /\ (d = 0 <=> e = 0)
         /\ Held(d, Append(in, fifo[1].value), Tail(fifo), wire, position, accepted)
<1> DEFINE m == Len(fifo)
           n == Len(in)
           s == Tail(fifo)
           b == Append(in, fifo[1].value)
           d == IF e = 0 THEN 0 ELSE e - 1
<1>1. /\ m \in Nat \ {0} /\ Len(s) = m - 1
      /\ \A i \in 1..m-1 : s[i] = fifo[i + 1]
  BY RestOf
<1>2. n \in Nat /\ Len(b) = n + 1 /\ (\A k \in 1..n : b[k] = in[k]) /\ b[n + 1] = fifo[1].value
  OBVIOUS
<1> HIDE DEF s, b
<1>3. /\ e = 0 \/ fifo[e].endOfFrame
      /\ m - e <= position
      /\ \A i \in e+1..m : ~fifo[i].endOfFrame /\ fifo[i].value = wire[(position + i) - m]
      /\ e = 0 => n + m <= position /\ \A k \in 1..n : in[k] = wire[(position + k) - (n + m)]
      /\ m > e \/ (e = 0 /\ n > 0) => accepted
  BY DEF Held
<1>4. e \in 0..m
  OBVIOUS
<1> HIDE DEF m, n
<1>5. CASE e = 0
  <2>1. 0 \in 0..m-1 /\ (m - 1) - 0 <= position /\ (n + 1) + (m - 1) <= position /\ m > 0
    BY <1>1, <1>2, <1>3, <1>5
  <2>2. ASSUME NEW i \in 0+1..m-1
        PROVE  ~s[i].endOfFrame /\ s[i].value = wire[(position + i) - (m - 1)]
    <3>1. i \in 1..m-1 /\ i + 1 \in e+1..m /\ (position + (i + 1)) - m = (position + i) - (m - 1)
      BY <1>1, <1>5
    <3>2. s[i] = fifo[i + 1]
      BY <1>1, <3>1
    <3> QED BY <1>3, <3>1, <3>2
  <2>3. ASSUME NEW k \in 1..n+1
        PROVE  b[k] = wire[(position + k) - ((n + 1) + (m - 1))]
    <3>1. (position + k) - ((n + 1) + (m - 1)) = (position + k) - (n + m)
      BY <1>1, <1>2
    <3>2. CASE k = n + 1
      <4>1. 1 \in e+1..m /\ (position + 1) - m = (position + k) - (n + m)
        BY <1>1, <1>2, <1>5, <3>2
      <4>2. b[k] = wire[(position + 1) - m]
        BY <1>2, <1>3, <3>2, <4>1
      <4> QED BY <3>1, <4>1, <4>2
    <3>3. CASE k # n + 1
      <4>1. k \in 1..n
        BY <1>2, <3>3
      <4> QED BY <1>2, <1>3, <1>5, <3>1, <4>1
    <3> QED BY <3>2, <3>3
  <2>4. accepted
    BY <1>3, <1>5, <2>1
  <2>5. Held(0, b, s, wire, position, accepted)
    BY <1>1, <1>2, <2>1, <2>2, <2>3, <2>4 DEF Held
  <2> QED BY <1>1, <1>5, <2>1, <2>5 DEF s, b
<1>6. CASE e # 0
  <2>1. e \in 2..m
    <3>1. e # 1
      BY <1>3
    <3> QED BY <1>4, <1>6, <3>1
  <2>2. s[e - 1].endOfFrame
    <3>1. e - 1 \in 1..m-1 /\ (e - 1) + 1 = e
      BY <1>1, <2>1
    <3> QED BY <1>1, <1>3, <1>6, <3>1
  <2>3. ASSUME NEW i \in (e-1)+1..m-1
        PROVE  ~s[i].endOfFrame /\ s[i].value = wire[(position + i) - (m - 1)]
    <3>1. i \in 1..m-1 /\ i + 1 \in e+1..m /\ (position + (i + 1)) - m = (position + i) - (m - 1)
      BY <1>1, <2>1
    <3>2. s[i] = fifo[i + 1]
      BY <1>1, <3>1
    <3> QED BY <1>3, <3>1, <3>2
  <2>4. /\ (m - 1) - (e - 1) <= position /\ e - 1 # 0 /\ e - 1 \in 0..m-1
        /\ m - 1 > e - 1 => accepted
    BY <1>1, <1>3, <2>1
  <2>5. Held(e - 1, b, s, wire, position, accepted)
    BY <1>1, <1>2, <2>2, <2>3, <2>4 DEF Held
  <2> QED BY <1>1, <1>6, <2>4, <2>5 DEF s, b
<1> QED BY <1>5, <1>6

\* The driver has done with the frame it was reading, and took nothing.
LEMMA DoneReading ==
  ASSUME OrderIInv, IInv', Registered(chip, chip'), mpp'.in = <<>>,
         UNCHANGED <<port, incoming, took, counts>>, Answering' => Called \/ Answering,
         Driven', Stream'
  PROVE  OrderIInv'
<1> USE DEF OrderIInv
<1>1. chip'.rxQueue = chip.rxQueue /\ chip'.rxQuiet = chip.rxQuiet
      /\ chip'.rxWire = chip.rxWire /\ chip'.rxPosition = chip.rxPosition
  BY DEF Registered, SameWire
<1>2. Read' = {} /\ ~Called'
  BY NothingRead
<1>3. OnWire' = OnWire
  BY <1>1 DEF OnWire
<1>4. InOrder'
  BY <1>1, <1>2, <1>3, OrderKeeps
<1>5. Threes'
  BY <1>1 DEF Threes
<1> QED BY <1>4, <1>5

\* The first bytes that were read, with the last, are the frame.
LEMMA FrameIsTop ==
  ASSUME NEW in \in Seq(Nat), NEW value \in Nat, Len(Append(in, value)) = 5
  PROVE  /\ Len(in) = 4 /\ SubSeq(Append(in, value), 1, 3) = Top(in)
         /\ Len(Top(in)) = 3 /\ Top(in) \in Whole
<1> DEFINE bytes == Append(in, value)
<1>1. /\ Len(in) \in Nat /\ Len(bytes) = Len(in) + 1 /\ bytes \in Seq(Nat)
      /\ \A i \in 1..Len(in) : bytes[i] = in[i]
  OBVIOUS
<1> HIDE DEF bytes
<1>2. Len(in) = 4
  <2>1. ASSUME NEW n \in Nat, n + 1 = 5 PROVE n = 4
    BY <2>1
  <2>2. Len(bytes) = 5
    BY DEF bytes
  <2>3. Len(in) + 1 = 5
    BY <1>1, <2>2
  <2> QED BY <1>1, <2>1, <2>3
<1>3. ASSUME NEW i \in 1..3 PROVE bytes[i] = in[i] /\ bytes[i] \in Nat
  <2>1. i \in 1..Len(in) /\ i \in 1..Len(bytes)
    BY <1>1, <1>2
  <2>2. bytes[i] \in Nat
    BY <1>1, <2>1, ElementOfSeq
  <2> QED BY <1>1, <2>1, <2>2
<1> DEFINE f == SubSeq(bytes, 1, 3)
<1>4. f \in Seq(Nat) /\ Len(f) = 3 /\ \A i \in 1..3 : f[i] = bytes[i]
  <2>1. \A i \in 1..3 : bytes[i] \in Nat
    BY <1>3
  <2>2. /\ f \in Seq(Nat) /\ Len(f) = IF 1 <= 3 THEN 3 - 1 + 1 ELSE 0
        /\ \A i \in 1..3 - 1 + 1 : f[i] = bytes[1 + i - 1]
    BY <2>1, SubSeqProperties
  <2> HIDE DEF f
  <2>3. ASSUME NEW i \in 1..3 PROVE i \in 1..3 - 1 + 1 /\ 1 + i - 1 = i
    OBVIOUS
  <2> QED BY <2>2, <2>3
<1> HIDE DEF f
<1>5. f = <<f[1], f[2], f[3]>>
  BY <1>4
<1>6. f = Top(in)
  BY <1>3, <1>4, <1>5 DEF Top
<1>7. f \in Whole
  <2>1. ASSUME NEW n, n = 3 PROVE n >= 3
    BY <2>1
  <2>2. Len(f) >= 3
    BY <1>4, <2>1
  <2> QED BY <1>4, <2>2 DEF Whole
<1> QED BY <1>2, <1>4, <1>6, <1>7 DEF f, bytes

LEMMA ReadByteOrder == ASSUME OrderIInv, ReadByte PROVE OrderIInv'
<1> USE DEF OrderIInv
<1> DEFINE ended == EndOfFrame(chip)
           b == Command(Command(ReadReceived(chip), "error reset"), "enable rx next char")
           bytes == Append(mpp.in, chip.rxFifo[1].value)
           dropped == [mpp EXCEPT !.doing = "listening", !.in = <<>>]
           further == [mpp EXCEPT !.in = bytes]
<1>1. IInv'
  BY ReadByteKeeps
<1>2. /\ chip \in Channel /\ mpp \in Drivers /\ IsSdlc(chip) /\ mpp.doing = "reading"
      /\ "rx" \in chip.write[3] /\ ~chip.endOfFrame
      /\ chip.rxFifo \in Seq(Received) /\ mpp.in \in Seq(Nat) /\ chip.rxPosition \in Nat
      /\ UNCHANGED <<port, incoming, counts>>
  BY DEF ReadByte, IInv, TypeOK, Ready, Driven, Drivers, Channel
<1>3. IF chip.overrun
      THEN mpp' = dropped /\ chip' = Drained(chip) /\ UNCHANGED took
      ELSE /\ chip.rxFifo # <<>>
           /\ \/ ~ended /\ mpp' = further /\ chip' = ReadReceived(chip) /\ UNCHANGED took
              \/ ended /\ Len(bytes) = 5 /\ Act(b, SubSeq(bytes, 1, 3))
              \/ ended /\ Len(bytes) # 5 /\ mpp' = dropped /\ chip' = b /\ UNCHANGED took
  BY DEF ReadByte, RxCharAvailable
<1>4. dropped.doing = "listening" /\ dropped.in = <<>> /\ dropped.then = mpp.then
  BY <1>2 DEF Drivers
<1>5. Aside(chip, Drained(chip)) /\ Aside(chip, ReadReceived(chip))
  BY <1>2, DrainedIs, ReadReceivedIs
<1>6. Aside(chip, b)
  <2> DEFINE c == ReadReceived(chip)
             d == Command(c, "error reset")
  <2>1. c \in Channel
    BY <1>5 DEF Aside
  <2> HIDE DEF c
  <2>2. Aside(c, d) /\ d \in Channel
    BY <2>1, ReceiverCommandIs DEF Aside
  <2> HIDE DEF d
  <2>3. Aside(d, Command(d, "enable rx next char"))
    BY <2>2, ReceiverCommandIs
  <2>4. Aside(chip, Command(d, "enable rx next char"))
    BY <1>5, <2>2, <2>3, AsideAgain DEF c
  <2> QED BY <2>4 DEF c, d
<1>7. ASSUME chip.rxFifo # <<>>
      PROVE  /\ b.rxFifo = Tail(chip.rxFifo) /\ ~b.endOfFrame /\ ~b.overrun
             /\ b.rxAccepted = chip.rxAccepted
  BY <1>2, <1>7, LastReads
<1>8. ASSUME chip.rxFifo # <<>> PROVE ended <=> chip.rxFifo[1].endOfFrame
  BY <1>2, <1>8 DEF EndOfFrame
<1>9. ASSUME ~chip.overrun, chip.rxFifo # <<>>
      PROVE  \E e \in 0..Len(chip.rxFifo) :
               /\ Held(e, mpp.in, chip.rxFifo, chip.rxWire, chip.rxPosition, chip.rxAccepted)
               /\ e > 0 => Complete \/ Len(mpp.in) + Len(chip.rxFifo) <= 4
               /\ Len(chip.rxFifo) <= FifoSize
  BY <1>2, <1>9 DEF Stream, Behind
<1>10. FifoSize \in Nat
  BY PortAssumption
<1>11. ASSUME chip.rxFifo # <<>>
       PROVE  /\ Len(chip.rxFifo) \in Nat \ {0} /\ Len(Tail(chip.rxFifo)) = Len(chip.rxFifo) - 1
              /\ Tail(chip.rxFifo) \in Seq(Received) /\ chip.rxFifo[1].value \in Nat
              /\ Len(mpp.in) \in Nat /\ Len(bytes) = Len(mpp.in) + 1
  <2>1. chip.rxFifo[1] \in Received
    BY <1>2, <1>11
  <2>2. chip.rxFifo[1].value \in Nat
    BY <2>1 DEF Received
  <2>3. Len(mpp.in) \in Nat /\ Len(bytes) = Len(mpp.in) + 1
    BY <1>2, <2>2
  <2> QED BY <1>2, <1>11, <2>2, <2>3, RestOf
\* Behind the end of a frame.
<1>12. ASSUME ~chip.overrun, chip.rxFifo # <<>>, ended
       PROVE  \E e \in 1..Len(chip.rxFifo) :
                /\ e - 1 \in 0..Len(Tail(chip.rxFifo))
                /\ Held(e - 1, <<>>, Tail(chip.rxFifo), chip.rxWire, chip.rxPosition, chip.rxAccepted)
                /\ Complete \/ Len(mpp.in) + Len(chip.rxFifo) <= 4
                /\ Len(chip.rxFifo) <= FifoSize
  <2>1. PICK e \in 0..Len(chip.rxFifo) :
               /\ Held(e, mpp.in, chip.rxFifo, chip.rxWire, chip.rxPosition, chip.rxAccepted)
               /\ e > 0 => Complete \/ Len(mpp.in) + Len(chip.rxFifo) <= 4
               /\ Len(chip.rxFifo) <= FifoSize
    BY <1>9, <1>12
  <2>2. chip.rxFifo[1].endOfFrame
    BY <1>8, <1>12
  <2>3. /\ e - 1 \in 0..Len(Tail(chip.rxFifo))
        /\ Held(e - 1, <<>>, Tail(chip.rxFifo), chip.rxWire, chip.rxPosition, chip.rxAccepted)
    BY <1>2, <1>12, <2>1, <2>2, HeldAfterEnd
  <2>4. e \in 1..Len(chip.rxFifo) /\ e > 0
    BY <1>11, <1>12, <2>3
  <2> QED BY <2>1, <2>3, <2>4
<1> HIDE DEF ended, b, bytes, dropped, further
\* What is dropped.
<1>13. ASSUME mpp' = dropped, Registered(chip, chip'), chip'.write = chip.write, UNCHANGED took,
              ~chip'.endOfFrame, Stream'
       PROVE  OrderIInv'
  <2>1. mpp'.doing = "listening" /\ mpp'.in = <<>> /\ mpp'.then = mpp.then
    BY <1>4, <1>13
  <2>2. Driven'
    BY <1>2, <1>13, <2>1 DEF Driven
  <2>3. ~Answering'
    BY <2>1 DEF Answering
  <2> QED BY <1>1, <1>2, <1>13, <2>1, <2>2, <2>3, DoneReading
<1>14. CASE chip.overrun
  <2>1. mpp' = dropped /\ chip' = Drained(chip) /\ UNCHANGED took
    BY <1>3, <1>14
  <2>2. Registered(chip, chip') /\ chip'.write = chip.write /\ Cleared(chip')
    BY <1>2, <1>5, <2>1, ReadKeeps, DrainedReads DEF Aside
  <2>3. chip'.rxPosition \in Nat
    BY <1>2, <2>2 DEF Registered, SameWire
  <2>4. Stream'
    BY <1>4, <2>1, <2>2, <2>3, StreamOfNothing DEF Cleared
  <2> QED BY <1>13, <2>1, <2>2, <2>4 DEF Cleared
<1>15. ASSUME ~chip.overrun, chip.rxFifo # <<>>, ended, mpp' = dropped, chip' = b, UNCHANGED took
       PROVE  OrderIInv'
  <2>1. Registered(chip, chip') /\ chip'.write = chip.write
    BY <1>2, <1>6, <1>15, ReadKeeps DEF Aside
  <2>2. /\ chip'.rxFifo = Tail(chip.rxFifo) /\ ~chip'.endOfFrame
        /\ chip'.rxAccepted = chip.rxAccepted
        /\ chip'.rxWire = chip.rxWire /\ chip'.rxPosition = chip.rxPosition
    BY <1>7, <1>15, <2>1 DEF Registered, SameWire
  <2>3. mpp'.in = <<>>
    BY <1>4, <1>15
  <2>4. PICK e \in 1..Len(chip.rxFifo) :
               /\ e - 1 \in 0..Len(Tail(chip.rxFifo))
               /\ Held(e - 1, <<>>, Tail(chip.rxFifo), chip.rxWire, chip.rxPosition, chip.rxAccepted)
               /\ Complete \/ Len(mpp.in) + Len(chip.rxFifo) <= 4
               /\ Len(chip.rxFifo) <= FifoSize
    BY <1>12, <1>15
  <2>5. Held(e - 1, mpp'.in, chip'.rxFifo, chip'.rxWire, chip'.rxPosition, chip'.rxAccepted)
    BY <2>2, <2>3, <2>4
  <2>6. /\ Len(chip'.rxFifo) \in Nat /\ Len(chip'.rxFifo) <= FifoSize
        /\ e - 1 > 0 => Len(chip'.rxFifo) <= 4
    <3> DEFINE m == Len(chip.rxFifo)
               n == Len(mpp.in)
    <3>1. m \in Nat \ {0} /\ n \in Nat /\ Len(chip'.rxFifo) = m - 1
      BY <1>11, <1>15, <2>2
    <3>2. m = 1 \/ n + m <= 4
      BY <2>4 DEF Complete
    <3>3. m <= FifoSize /\ e \in 1..m
      BY <2>4
    <3> HIDE DEF m, n
    <3> QED BY <1>10, <3>1, <3>2, <3>3
  <2>7. e - 1 > 0 => Len(mpp'.in) + Len(chip'.rxFifo) <= 4
    BY <2>3, <2>6
  <2>8. "rx" \in chip'.write[3]
    BY <1>2, <2>1
  <2>9. Stream'
    <3>1. e - 1 \in 0..Len(chip'.rxFifo)
      BY <2>2, <2>4
    <3>2. \E x \in 0..Len(chip'.rxFifo) :
             /\ Held(x, mpp'.in, chip'.rxFifo, chip'.rxWire, chip'.rxPosition, chip'.rxAccepted)
             /\ x > 0 => Complete' \/ Len(mpp'.in) + Len(chip'.rxFifo) <= 4
             /\ "rx" \notin chip'.write[3] => x = Len(chip'.rxFifo) /\ mpp'.in = <<>>
      BY <2>5, <2>7, <2>8, <3>1
    <3> QED BY <2>6, <3>2 DEF Stream, Behind
  <2> QED BY <1>13, <1>15, <2>1, <2>2, <2>9
\* In the middle of a frame.
<1>16. ASSUME ~chip.overrun, chip.rxFifo # <<>>, ~ended, mpp' = further,
              chip' = ReadReceived(chip), UNCHANGED took
       PROVE  OrderIInv'
  <2>1. Registered(chip, chip') /\ chip'.write = chip.write
    BY <1>2, <1>5, <1>16, ReadKeeps DEF Aside
  <2>2. /\ chip'.rxFifo = Tail(chip.rxFifo) /\ ~chip'.endOfFrame /\ chip'.overrun = chip.overrun
        /\ chip'.rxAccepted = chip.rxAccepted
        /\ chip'.rxWire = chip.rxWire /\ chip'.rxPosition = chip.rxPosition
        /\ chip'.rxQueue = chip.rxQueue /\ chip'.rxQuiet = chip.rxQuiet
        /\ ~chip.rxFifo[1].endOfFrame
    BY <1>2, <1>8, <1>16, <2>1, ReadReceivedReads DEF Registered, SameWire
  <2>3. mpp'.doing = "reading" /\ mpp'.in = bytes /\ mpp'.then = mpp.then
    BY <1>2, <1>16 DEF further, Drivers
  <2>4. PICK e \in 0..Len(chip.rxFifo) :
               /\ Held(e, mpp.in, chip.rxFifo, chip.rxWire, chip.rxPosition, chip.rxAccepted)
               /\ e > 0 => Complete \/ Len(mpp.in) + Len(chip.rxFifo) <= 4
               /\ Len(chip.rxFifo) <= FifoSize
    BY <1>9, <1>16
  <2>5. PICK d \in 0..Len(Tail(chip.rxFifo)) :
               /\ d = 0 <=> e = 0
               /\ Held(d, bytes, Tail(chip.rxFifo), chip.rxWire, chip.rxPosition, chip.rxAccepted)
    BY <1>2, <1>16, <2>2, <2>4, HeldMoved DEF bytes
  <2>6. ~Complete
    BY <2>2 DEF Complete
  <2>7. /\ Len(chip'.rxFifo) \in Nat /\ Len(chip'.rxFifo) <= FifoSize
        /\ e > 0 => Len(mpp'.in) + Len(chip'.rxFifo) <= 4
    <3> DEFINE m == Len(chip.rxFifo)
               n == Len(mpp.in)
    <3>1. m \in Nat \ {0} /\ n \in Nat /\ Len(chip'.rxFifo) = m - 1 /\ Len(mpp'.in) = n + 1
      BY <1>11, <1>16, <2>2, <2>3
    <3>2. e > 0 => n + m <= 4
      BY <2>4, <2>6
    <3>3. m <= FifoSize
      BY <2>4
    <3> HIDE DEF m, n
    <3> QED BY <1>10, <3>1, <3>2, <3>3
  <2>8. Held(d, mpp'.in, chip'.rxFifo, chip'.rxWire, chip'.rxPosition, chip'.rxAccepted)
    BY <2>2, <2>3, <2>5
  <2>9. "rx" \in chip'.write[3]
    BY <1>2, <2>1
  <2>10. Stream'
    <3>1. d \in 0..Len(chip'.rxFifo) /\ (d > 0 => e > 0)
      BY <2>2, <2>4, <2>5
    <3>2. \E x \in 0..Len(chip'.rxFifo) :
             /\ Held(x, mpp'.in, chip'.rxFifo, chip'.rxWire, chip'.rxPosition, chip'.rxAccepted)
             /\ x > 0 => Complete' \/ Len(mpp'.in) + Len(chip'.rxFifo) <= 4
             /\ "rx" \notin chip'.write[3] => x = Len(chip'.rxFifo) /\ mpp'.in = <<>>
      BY <2>7, <2>8, <2>9, <3>1
    <3> QED BY <2>7, <3>2 DEF Stream, Behind
  <2>11. ~Complete'
    <3>1. SUFFICES ASSUME Complete' PROVE FALSE
      OBVIOUS
    <3>2. Len(mpp'.in) = 4 /\ Len(chip'.rxFifo) = 1 /\ chip'.rxFifo[1].endOfFrame
      BY <3>1 DEF Complete
    <3>3. ~(e > 0)
      BY <2>7, <3>2
    <3>4. d = 0
      BY <2>4, <2>5, <3>3
    <3>5. Held(0, bytes, Tail(chip.rxFifo), chip.rxWire, chip.rxPosition, chip.rxAccepted)
      BY <2>5, <3>4
    <3>6. \A i \in 0+1..Len(Tail(chip.rxFifo)) : ~Tail(chip.rxFifo)[i].endOfFrame
      BY <3>5 DEF Held
    <3>7. \A i \in 0+1..Len(chip'.rxFifo) : ~chip'.rxFifo[i].endOfFrame
      BY <2>2, <3>6
    <3>8. 1 \in 0+1..Len(chip'.rxFifo)
      BY <3>2
    <3> QED BY <3>2, <3>7, <3>8
  <2>12. Read' = {} /\ ~Called' /\ OnWire' = OnWire
    BY <2>2, <2>11 DEF Read, Called, OnWire
  <2>13. ~Answering'
    BY <2>3 DEF Answering
  <2>14. InOrder'
    BY <1>2, <1>16, <2>2, <2>12, <2>13, OrderKeeps
  <2>15. Threes' /\ Driven'
    BY <1>2, <2>1, <2>2, <2>3 DEF Threes, Driven
  <2> QED BY <1>1, <2>10, <2>14, <2>15
\* At its end.
<1>17. ASSUME ~chip.overrun, chip.rxFifo # <<>>, ended, Len(bytes) = 5, Act(b, SubSeq(bytes, 1, 3))
       PROVE  OrderIInv'
  <2> DEFINE frame == Top(mpp.in)
  <2>1. Len(mpp.in) = 4 /\ SubSeq(bytes, 1, 3) = frame /\ Len(frame) = 3 /\ frame \in Whole
    BY <1>2, <1>11, <1>17, FrameIsTop DEF bytes
  <2>2. Complete
    <3>1. PICK e \in 1..Len(chip.rxFifo) : Complete \/ Len(mpp.in) + Len(chip.rxFifo) <= 4
      BY <1>12, <1>17
    <3>2. Len(chip.rxFifo) \in Nat \ {0}
      BY <1>11, <1>17
    <3>3. ASSUME NEW n \in Nat, NEW m \in Nat \ {0}, n = 4 PROVE ~(n + m <= 4)
      BY <3>3
    <3>4. ~(Len(mpp.in) + Len(chip.rxFifo) <= 4)
      BY <1>11, <1>17, <2>1, <3>2, <3>3
    <3> QED BY <3>1, <3>4
  <2>3. Read = {frame} /\ Len(chip.rxFifo) = 1
    BY <2>2 DEF Read, Complete
  <2> HIDE DEF frame
  <2>4. Registered(chip, b) /\ IsSdlc(b) /\ b \in Channel /\ b.write = chip.write
    BY <1>2, <1>6, ReadKeeps DEF Aside
  <2>5. b.rxFifo = <<>> /\ ~b.endOfFrame
    <3>1. Len(Tail(chip.rxFifo)) = 0 /\ Tail(chip.rxFifo) \in Seq(Received)
      BY <1>11, <1>17, <2>3
    <3>2. ASSUME NEW q \in Seq(Received), Len(q) = 0 PROVE q = <<>>
      BY <3>2
    <3>3. Tail(chip.rxFifo) = <<>>
      BY <3>1, <3>2
    <3> QED BY <1>7, <1>17, <3>3
  <2>6. Act(b, frame)
    BY <1>17, <2>1
  <2> DEFINE listening == [Idle EXCEPT !.doing = "listening", !.then = mpp.then]
             cts == <<From(frame), Node, lapCts>>
             ack == [cts EXCEPT ![3] = lapAck]
  <2>7. /\ listening.doing = "listening" /\ listening.in = <<>> /\ listening.then = mpp.then
        /\ Kind(ack) = lapAck
    BY DEF Idle, Kind
  <2>8. \/ Kind(frame) = lapRts /\ Sending(b, cts, NoFrame) /\ UNCHANGED took
        \/ Sending(b, ack, NoFrame) /\ UNCHANGED took
        \/ Sending(b, mpp.then, NoFrame) /\ mpp.then # NoFrame /\ UNCHANGED took
        \/ /\ chip' = b /\ mpp' = listening
           /\ took' = IF IsData(frame) THEN Append(took, frame) ELSE took
    BY <2>6 DEF Act
  <2>9. cts \in Whole /\ ack \in Whole
    <3>1. From(frame) \in Nat /\ Node \in Nat /\ lapCts \in Nat /\ lapAck \in Nat
      BY <2>1, PortAssumption, SMTT(30) DEF From, Whole, lapCts, lapAck
    <3>2. ack = <<From(frame), Node, lapAck>>
      OBVIOUS
    <3>3. ASSUME NEW x \in Nat, NEW y \in Nat, NEW z \in Nat
          PROVE  <<x, y, z>> \in Whole
      BY DEF Whole
    <3> HIDE DEF ack
    <3> QED BY <3>1, <3>2, <3>3
  <2>10. mpp.then # NoFrame => mpp.then \in Whole /\ Kind(mpp.then) # lapCts
    BY <1>2 DEF Drivers, Driven, IsData, lapEnq, lapCts
  <2> HIDE DEF listening, cts, ack
  <2>11. ASSUME NEW f \in Whole, Sending(b, f, NoFrame), UNCHANGED took,
                Kind(f) = lapCts => Kind(frame) = lapRts
         PROVE  OrderIInv'
    <3>1. Registered(b, chip')
      BY <2>4, <2>11, SendingIs
    <3>2. Registered(chip, chip')
      BY <2>4, <3>1, RegisteredAgain
    <3>3. /\ mpp'.doing = "sending" /\ mpp'.in = <<>> /\ mpp'.frame = f /\ mpp'.then = NoFrame
          /\ SameRead(b, chip') /\ "rx" \notin chip'.write[3]
      BY <2>4, <2>11, SendingReads DEF Sending
    <3>4. Driven'
      BY <2>5, <3>3 DEF Driven, SameRead
    <3>5. chip'.rxFifo = <<>> /\ chip'.rxPosition \in Nat
      BY <1>2, <2>5, <3>2, <3>3 DEF SameRead, Registered, SameWire
    <3>6. Stream'
      BY <3>3, <3>5, StreamOfNothing
    <3>7. Answering' => Called
      BY <2>3, <2>11, <3>3 DEF Answering, Called, Calls
    <3> QED BY <1>1, <1>2, <2>11, <3>2, <3>3, <3>4, <3>6, <3>7, DoneReading
  <2>12. ASSUME chip' = b, mpp' = listening
         PROVE  /\ mpp'.doing = "listening" /\ mpp'.in = <<>> /\ mpp'.then = mpp.then
                /\ Registered(chip, chip') /\ Stream' /\ Driven' /\ ~Answering'
    <3>1. /\ mpp'.doing = "listening" /\ mpp'.in = <<>> /\ mpp'.then = mpp.then
          /\ Registered(chip, chip')
      BY <2>4, <2>7, <2>12
    <3>2. chip'.rxFifo = <<>> /\ chip'.rxPosition \in Nat /\ ~chip'.endOfFrame /\ chip'.write = chip.write
      BY <1>2, <2>4, <2>5, <2>12 DEF Registered, SameWire
    <3>3. Stream'
      BY <3>1, <3>2, StreamOfNothing
    <3>4. Driven'
      BY <1>2, <3>1, <3>2 DEF Driven
    <3> QED BY <3>1, <3>3, <3>4 DEF Answering
  <2>13. ASSUME chip' = b, mpp' = listening, UNCHANGED took PROVE OrderIInv'
    BY <1>1, <1>2, <2>12, <2>13, DoneReading
  <2>14. ASSUME chip' = b, mpp' = listening, IsData(frame), took' = Append(took, frame)
         PROVE  OrderIInv'
    <3>1. chip'.rxQueue = chip.rxQueue /\ chip'.rxQuiet = chip.rxQuiet
          /\ chip'.rxWire = chip.rxWire /\ chip'.rxPosition = chip.rxPosition
      BY <2>12, <2>14 DEF Registered, SameWire
    <3>2. Read' = {} /\ ~Called' /\ OnWire' = OnWire /\ Offers' = Offers
      BY <1>2, <2>12, <2>14, <3>1, NothingRead DEF OnWire, Offers
    <3>3. Order(took', {}, OnWire, chip.rxQueue, Offers, incoming, counts.arrivals)
      <4>1. Order(took, {frame}, OnWire, chip.rxQueue, Offers, incoming, counts.arrivals)
        BY <2>3 DEF InOrder
      <4>2. Numbered(frame) /\ took \in Seq(Seq(Nat))
        BY <2>1, <2>14 DEF Numbered, IInv, TypeOK
      <4> QED BY <2>14, <4>1, <4>2, OrderOfTaken
    <3>4. Turn(OnWire, chip.rxQueue, Offers, FALSE, FALSE, chip.rxQuiet)
      <4>1. Turn(OnWire, chip.rxQueue, Offers, Called \/ Answering, Called, chip.rxQuiet)
        BY DEF InOrder
      <4> QED BY <4>1 DEF Turn
    <3>5. Turn(OnWire, chip.rxQueue, Offers, Called \/ Answering, Called, chip.rxQuiet)'
      BY <2>12, <2>14, <3>1, <3>2, <3>4 DEF Turn
    <3>6. InOrder'
      BY <1>2, <3>1, <3>2, <3>3, <3>5 DEF InOrder
    <3>7. Threes'
      BY <1>2, <3>1 DEF Threes
    <3> QED BY <1>1, <2>12, <2>14, <3>6, <3>7
  <2>15. Kind(ack) # lapCts
    BY <2>7 DEF lapAck, lapCts
  <2> QED BY <2>8, <2>9, <2>10, <2>11, <2>13, <2>14, <2>15
<1> QED BY <1>3, <1>14, <1>15, <1>16, <1>17

-----------------------------------------------------------------------------
(* A frame of the machine is out, and is answered.                         *)

\* The reply to the frame the channel b has for the network goes ahead of the
\* others: a lapCTS, the frame on offer to the machine's own, or none.
LEMMA ReplyIs ==
  ASSUME IInv, Threes, NEW b \in Channel, SendFrame(b), b.toLink \in Whole
  PROVE  LET f == b.toLink
             reply == AnswerTo(f, port.offered)
         IN  /\ chip' = AnswerFrame([b EXCEPT !.toLink = <<>>], reply)
             /\ \/ reply = NoFrame /\ port'.offered = port.offered
                \/ /\ reply = <<From(f), To(f), lapCts>> /\ Len(reply) = 3 /\ Kind(reply) = lapCts
                   /\ port'.offered = port.offered
                \/ /\ Kind(f) = lapCts /\ port.offered # NoFrame
                   /\ reply = port.offered /\ Len(reply) = 3 /\ Directed(reply)
                   /\ port'.offered = NoFrame
<1> DEFINE f == b.toLink
           reply == AnswerTo(f, port.offered)
<1>1. ~(Len(f) < 3)
  <2>1. f \in Seq(Nat) /\ Len(f) >= 3 /\ Len(f) \in Nat
    BY DEF Whole
  <2> QED BY <2>1
<1>2. /\ chip' = AnswerFrame([b EXCEPT !.toLink = <<>>], reply)
      /\ port' = [port EXCEPT !.offered = IF Taken(f, port.offered) THEN NoFrame ELSE port.offered]
  BY <1>1 DEF SendFrame, IInv, TypeOK
<1>3. port'.offered = IF Taken(f, port.offered) THEN NoFrame ELSE port.offered
  BY <1>2 DEF IInv, TypeOK
<1>4. CASE Kind(f) = lapRts /\ To(f) # Broadcast
  <2>1. reply = <<From(f), To(f), lapCts>> /\ ~Taken(f, port.offered)
    BY <1>4 DEF AnswerTo, Taken, lapRts, lapCts
  <2>2. Len(<<From(f), To(f), lapCts>>) = 3 /\ Kind(<<From(f), To(f), lapCts>>) = lapCts
    BY DEF Kind
  <2> QED BY <1>2, <1>3, <2>1, <2>2
<1>5. CASE /\ Kind(f) = lapCts /\ port.offered # NoFrame
           /\ To(f) = From(port.offered) /\ From(f) = To(port.offered)
  <2>1. reply = port.offered /\ Taken(f, port.offered)
    BY <1>5 DEF AnswerTo, Taken, lapRts, lapCts
  <2>2. Len(port.offered) = 3 /\ Directed(port.offered)
    BY <1>5 DEF Threes
  <2> QED BY <1>2, <1>3, <1>5, <2>1, <2>2
<1>6. CASE ~(Kind(f) = lapRts /\ To(f) # Broadcast)
           /\ ~(/\ Kind(f) = lapCts /\ port.offered # NoFrame
                /\ To(f) = From(port.offered) /\ From(f) = To(port.offered))
  <2>1. reply = NoFrame
    BY <1>6 DEF AnswerTo
  <2>2. ~Taken(f, port.offered)
    BY <2>1 DEF Taken
  <2> QED BY <1>2, <1>3, <2>1, <2>2
<1> QED BY <1>4, <1>5, <1>6

LEMMA HandedOver ==
  ASSUME OrderIInv, IInv', NEW b \in Channel, SendFrame(b), UNCHANGED <<incoming, took, counts>>,
         SameRead(chip, b), b.write = chip.write, b.rxQueue = chip.rxQueue,
         b.rxWire = chip.rxWire, b.rxPosition = chip.rxPosition,
         mpp'.in = mpp.in, mpp'.frame = mpp.frame, mpp'.then = mpp.then,
         mpp'.doing = mpp.doing \/ (mpp.doing = "sending" /\ mpp'.doing = "ending"),
         b.toLink = <<>> =>
           /\ b.rxQuiet = chip.rxQuiet
           /\ mpp.doing = "ending" => b.txUnderrunEom \/ ~chip.txUnderrunEom,
         b.toLink # <<>> =>
           /\ IsSdlc(b) /\ b.toLink = mpp.frame /\ mpp.frame \in Whole /\ b.txUnderrunEom
           /\ mpp.doing \in {"sending", "ending"} /\ mpp'.doing = "ending"
           /\ mpp.doing = "ending" => ~chip.txUnderrunEom
  PROVE  OrderIInv'
<1> USE DEF OrderIInv
<1>1. TypeOK /\ chip.rxQueue \in Seq(Frame) /\ b.rxQueue \in Seq(Frame)
  BY DEF IInv, TypeOK, Channel
<1>2. /\ chip'.write = chip.write /\ chip'.txUnderrunEom = b.txUnderrunEom
      /\ chip'.rxWire = chip.rxWire /\ chip'.rxPosition = chip.rxPosition
      /\ b.toLink = <<>> =>
           /\ chip'.rxQueue = chip.rxQueue /\ chip'.rxQuiet = chip.rxQuiet
           /\ port' = port
  BY <1>1, SendFrameIs
<1> DEFINE cleared == [b EXCEPT !.toLink = <<>>]
<1>3. /\ SameRead(b, cleared) /\ cleared.rxQueue = b.rxQueue /\ cleared.write = b.write
      /\ cleared \in Channel
  <2>1. <<>> \in Seq(Nat)
    OBVIOUS
  <2> QED BY <2>1 DEF SameRead, Channel
<1>4. chip' = cleared \/ \E f : chip' = AnswerFrame(cleared, f)
  BY DEF SendFrame
<1> HIDE DEF cleared
<1>5. SameRead(chip, chip')
  <2>1. SameRead(chip, cleared)
    BY <1>3, ReadSame
  <2>2. ASSUME NEW f, chip' = AnswerFrame(cleared, f) PROVE SameRead(cleared, chip')
    BY <1>3, <2>2, QueueReads
  <2> QED BY <1>4, <2>1, <2>2, ReadSame
<1>6. mpp.in = <<>> \/ mpp'.doing = mpp.doing
  BY DEF Driven
<1>7. SameReader
  BY <1>2, <1>5, <1>6 DEF SameReader
<1>8. Stream'
  BY <1>2, <1>7, StreamKeeps
<1>9. Driven'
  BY <1>2, <1>5 DEF Driven, SameRead
<1>10. Read' = Read /\ OnWire' = OnWire /\ (Called' <=> Called)
  BY <1>7, ReaderKeeps
<1>11. CASE b.toLink = <<>>
  <2>1. Answering' => Answering
    BY <1>2, <1>11 DEF Answering
  <2>2. InOrder'
    BY <1>2, <1>10, <1>11, <2>1, OrderKeeps
  <2>3. Threes'
    BY <1>2, <1>11 DEF Threes
  <2> QED BY <1>8, <1>9, <2>2, <2>3
<1>12. CASE b.toLink # <<>>
  <2> DEFINE f == b.toLink
             reply == AnswerTo(f, port.offered)
  <2>1. f = mpp.frame /\ f \in Whole /\ mpp'.doing = "ending" /\ mpp.in = <<>> /\ IsSdlc(cleared)
    BY <1>3, <1>12 DEF Driven, IsSdlc
  <2>2. ~Answering' /\ Read = {} /\ ~Called
    <3>1. ~Complete
      BY <2>1 DEF Complete
    <3> QED BY <1>2, <1>12, <2>1, <3>1 DEF Answering, Read, Called
  <2>3. /\ chip' = AnswerFrame(cleared, reply)
        /\ \/ reply = NoFrame /\ port'.offered = port.offered
           \/ /\ Len(reply) = 3 /\ Kind(reply) = lapCts
              /\ port'.offered = port.offered
           \/ /\ Kind(f) = lapCts /\ port.offered # NoFrame
              /\ reply = port.offered /\ Len(reply) = 3 /\ Directed(reply)
              /\ port'.offered = NoFrame
    BY <2>1, ReplyIs DEF cleared
  <2> HIDE DEF reply
  <2>4. Order(took, {}, OnWire, chip.rxQueue, Offers, incoming, counts.arrivals)
    BY <2>2 DEF InOrder
  <2>5. Turn(OnWire, chip.rxQueue, Offers, Answering, FALSE, chip.rxQuiet)
    <3>1. Turn(OnWire, chip.rxQueue, Offers, Called \/ Answering, Called, chip.rxQuiet)
      BY DEF InOrder
    <3> QED BY <2>2, <3>1 DEF Turn
  <2>6. reply # <<>> => chip'.rxQueue = <<reply>> \o chip.rxQueue
    BY <1>3, <2>1, <2>3 DEF AnswerFrame, Channel
  <2>7. ASSUME Len(reply) = 3, reply # <<>> PROVE Threes'
    <3>1. chip'.rxQueue = <<reply>> \o chip.rxQueue
      BY <2>6, <2>7
    <3>2. ASSUME NEW q \in Seq(Frame), NEW i \in 1..Len(<<reply>> \o q)
          PROVE  (i = 1 /\ (<<reply>> \o q)[i] = reply)
                 \/ (i - 1 \in 1..Len(q) /\ (<<reply>> \o q)[i] = q[i - 1])
      BY <3>2
    <3>3. \A i \in 1..Len(chip'.rxQueue) : Len(chip'.rxQueue[i]) = 3
      BY <1>1, <2>7, <3>1, <3>2 DEF Threes
    <3>4. port'.offered = port.offered \/ port'.offered = NoFrame
      BY <2>3
    <3> QED BY <1>2, <3>3, <3>4 DEF Threes
  <2>8. ASSUME Len(reply) = 3 PROVE reply # <<>>
    BY <2>8
  <2>9. CASE reply = NoFrame /\ port'.offered = port.offered
    <3>1. chip' = cleared
      BY <2>3, <2>9 DEF AnswerFrame, NoFrame
    <3>2. chip'.rxQueue = chip.rxQueue
      BY <1>3, <3>1
    <3>3. InOrder'
      BY <1>10, <2>2, <2>9, <3>2, OrderKeeps
    <3>4. Threes'
      BY <1>2, <2>9, <3>2 DEF Threes
    <3> QED BY <1>8, <1>9, <3>3, <3>4
  <2>10. CASE Len(reply) = 3 /\ Kind(reply) = lapCts /\ port'.offered = port.offered
    <3>1. ~Numbered(reply) /\ ~Directed(reply) /\ ~Calls(reply)
      BY <2>10, CallIsOther DEF lapCts, lapRts
    <3>2. chip'.rxQueue = <<reply>> \o chip.rxQueue /\ Offers' = Offers
      BY <2>6, <2>8, <2>10 DEF Offers
    <3>3. Order(took, {}, OnWire, <<reply>> \o chip.rxQueue, Offers, incoming, counts.arrivals)
      BY <1>1, <2>4, <3>1, OrderOfOther
    <3>4. Turn(OnWire, <<reply>> \o chip.rxQueue, Offers, Answering, FALSE, chip'.rxQuiet)
      BY <1>1, <2>5, <3>1, TurnOfFront
    <3>5. Turn(OnWire, chip.rxQueue, Offers, Called \/ Answering, Called, chip.rxQuiet)'
      BY <1>10, <2>2, <3>2, <3>4 DEF Turn
    <3>6. InOrder'
      BY <1>10, <2>2, <3>2, <3>3, <3>5 DEF InOrder
    <3> QED BY <1>8, <1>9, <2>7, <2>8, <2>10, <3>6
  <2>11. CASE /\ Kind(f) = lapCts /\ port.offered # NoFrame
              /\ reply = port.offered /\ Len(reply) = 3 /\ Directed(reply)
              /\ port'.offered = NoFrame
    <3>1. Answering
      BY <1>12, <2>1, <2>11 DEF Answering
    <3>2. Offers = {reply} /\ Offers' = {} /\ ~Calls(reply)
      BY <2>11 DEF Offers, Directed, Numbered, Calls, IsData, lapEnq, lapRts
    <3>3. Turn(OnWire, chip.rxQueue, {reply}, TRUE, FALSE, chip.rxQuiet)
      BY <2>5, <3>1, <3>2 DEF Turn
    <3>4. \A g \in OnWire \union Among(chip.rxQueue) : ~Directed(g)
      BY <3>3 DEF Turn
    <3>5. chip'.rxQueue = <<reply>> \o chip.rxQueue
      BY <2>6, <2>8, <2>11
    <3>6. Order(took, {}, OnWire, <<reply>> \o chip.rxQueue, {}, incoming, counts.arrivals)
      BY <1>1, <2>4, <3>2, <3>4, OrderOfAnswer
    <3>7. Turn(OnWire, <<reply>> \o chip.rxQueue, {}, FALSE, FALSE, chip'.rxQuiet)
      BY <1>1, <3>2, <3>3, TurnOfAnswer
    <3>8. Turn(OnWire, chip.rxQueue, Offers, Called \/ Answering, Called, chip.rxQuiet)'
      BY <1>10, <2>2, <3>2, <3>5, <3>7 DEF Turn
    <3>9. InOrder'
      BY <1>10, <2>2, <3>2, <3>5, <3>6, <3>8 DEF InOrder
    <3> QED BY <1>8, <1>9, <2>7, <2>8, <2>11, <3>9
  <2> QED BY <2>3, <2>9, <2>10, <2>11
<1> QED BY <1>11, <1>12

LEMMA ByteLeavesOrder == ASSUME OrderIInv, ByteLeaves PROVE OrderIInv'
<1> DEFINE b == [ByteGone(chip) EXCEPT !.toSink = <<>>]
<1>1. SendFrame(b) /\ UNCHANGED <<incoming, mpp, took, counts>>
  BY DEF ByteLeaves
<1>2. chip \in Channel /\ Small /\ chip.txBuffer = <<>> /\ IInv /\ IInv'
  BY ByteLeavesKeeps DEF OrderIInv, IInv, TypeOK, Transmitter, Small
<1>3. SameRead(chip, b)
  BY <1>2, ByteGoneReads
<1>4. /\ b \in Channel /\ b.write = chip.write /\ b.rxQueue = chip.rxQueue
      /\ b.rxWire = chip.rxWire /\ b.rxPosition = chip.rxPosition
      /\ IF ~IsSdlc(chip) \/ chip.txUnderrunEom
         THEN b.toLink = chip.toLink /\ b.rxQuiet = chip.rxQuiet /\ b.txUnderrunEom \in {TRUE, chip.txUnderrunEom}
         ELSE b.txUnderrunEom /\ b.toLink = chip.txFrame
  BY <1>2, ByteGoneIs
<1> HIDE DEF b
<1>5. CASE chip.txUnderrunEom
  <2>1. b.toLink = <<>> /\ b.rxQuiet = chip.rxQuiet /\ b.txUnderrunEom
    BY <1>2, <1>4, <1>5 DEF Small
  <2>2. mpp' = mpp
    BY <1>1
  <2> QED BY <1>1, <1>2, <1>3, <1>4, <2>1, <2>2, HandedOver
<1>6. CASE ~chip.txUnderrunEom
  <2>1. mpp.doing = "ending" /\ mpp.frame \in Whole /\ chip.txFrame = mpp.frame /\ IsSdlc(chip)
    BY <1>2, <1>6 DEF IInv, Transmitter, Open, Silent, WrittenOut, Ready
  <2>2. b.txUnderrunEom /\ b.toLink = mpp.frame /\ mpp.frame # <<>>
    <3>1. ASSUME NEW f \in Seq(Nat), Len(f) >= 3 PROVE f # <<>>
      BY <3>1
    <3>2. mpp.frame # <<>>
      BY <2>1, <3>1 DEF Whole
    <3>3. b.txUnderrunEom /\ b.toLink = mpp.frame
      BY <1>4, <1>6, <2>1
    <3> QED BY <3>2, <3>3
  <2>3. mpp' = mpp /\ IsSdlc(b)
    BY <1>1, <1>4, <2>1 DEF IsSdlc
  <2> QED BY <1>1, <1>2, <1>3, <1>4, <1>6, <2>1, <2>2, <2>3, HandedOver
<1> QED BY <1>5, <1>6

LEMMA ResetEomOrder == ASSUME OrderIInv, ResetEom PROVE OrderIInv'
<1> DEFINE b == Command(chip, "reset tx underrun")
<1>1. /\ mpp.doing = "sending" /\ mpp.out = <<>> /\ SendFrame(b)
      /\ mpp' = [mpp EXCEPT !.doing = "ending"]
      /\ UNCHANGED <<incoming, took, counts>>
  BY DEF ResetEom
<1>2. /\ chip \in Channel /\ IsSdlc(chip) /\ Small /\ Open /\ mpp \in Drivers /\ IInv /\ IInv'
  BY <1>1, ResetEomKeeps DEF OrderIInv, IInv, TypeOK, Ready, Transmitter, Drivers
<1>3. chip.txFrame = mpp.frame /\ mpp.frame \in Whole /\ mpp.frame # <<>>
  <2>1. chip.txFrame \in Seq(Nat) /\ mpp.frame \in Whole /\ chip.txFrame \o <<>> = mpp.frame
    BY <1>1, <1>2 DEF Open, Channel
  <2>2. ASSUME NEW f \in Seq(Nat) PROVE f \o <<>> = f
    BY ConcatEmptySeq
  <2> QED BY <2>1, <2>2 DEF Whole
<1>4. /\ mpp'.in = mpp.in /\ mpp'.frame = mpp.frame /\ mpp'.then = mpp.then /\ mpp'.doing = "ending"
  BY <1>1, <1>2 DEF Drivers
<1>5. SameRead(chip, b)
  BY <1>2, ResetUnderrunReads
<1>6. /\ b \in Channel /\ b.write = chip.write /\ b.rxQueue = chip.rxQueue
      /\ b.rxWire = chip.rxWire /\ b.rxPosition = chip.rxPosition
      /\ IF Busy(chip)
         THEN b.toLink = chip.toLink /\ b.rxQuiet = chip.rxQuiet
         ELSE b.txUnderrunEom /\ b.toLink = chip.txFrame
  BY <1>2, <1>3, ResetUnderrunIs
<1> HIDE DEF b
<1>7. IsSdlc(b)
  BY <1>2, <1>6 DEF IsSdlc
<1>8. mpp.doing # "ending"
  BY <1>1
<1>9. CASE Busy(chip)
  <2>1. b.toLink = <<>> /\ b.rxQuiet = chip.rxQuiet
    BY <1>2, <1>6, <1>9 DEF Small
  <2> QED BY <1>1, <1>2, <1>4, <1>5, <1>6, <1>8, <2>1, HandedOver
<1>10. CASE ~Busy(chip)
  <2>1. b.toLink = mpp.frame /\ b.txUnderrunEom
    BY <1>3, <1>6, <1>10
  <2> QED BY <1>1, <1>2, <1>3, <1>4, <1>5, <1>6, <1>7, <1>8, <2>1, HandedOver
<1> QED BY <1>9, <1>10

-----------------------------------------------------------------------------
(* The network.                                                            *)

\* Every frame that is looked into has a number for its kind.
LEMMA KindsAreNumbers ==
  ASSUME IInv, Threes, NEW f,
         f \in Among(took) \union Read \union OnWire \union Among(chip.rxQueue)
                 \union Offers \union Among(incoming),
         Numbered(f)
  PROVE  Kind(f) \in Nat
<1>1. ASSUME NEW g \in Seq(Nat), Len(g) >= 3 PROVE g[1] \in Nat /\ g[2] \in Nat /\ g[3] \in Nat
  BY <1>1
<1>2. /\ took \in Seq(Seq(Nat)) /\ chip.rxQueue \in Seq(Frame) /\ incoming \in Seq(Frame)
      /\ mpp.in \in Seq(Nat) /\ chip.rxWire \in Seq(Nat)
      /\ port.offered \in Whole \union {NoFrame}
  BY DEF IInv, TypeOK, Channel
<1>3. Len(f) >= 3
  BY DEF Numbered
<1>4. CASE f \in Among(took) \/ f \in Among(chip.rxQueue) \/ f \in Among(incoming) \/ f \in Offers
  <2>1. f \in Offers => f \in Seq(Nat)
    BY <1>2 DEF Offers, Whole
  <2>2. ASSUME NEW q \in Seq(Seq(Nat)), f \in Among(q) PROVE f \in Seq(Nat)
    BY <2>2 DEF Among
  <2>3. ASSUME NEW q \in Seq(Frame), f \in Among(q) PROVE f \in Seq(Nat)
    BY <2>3 DEF Among, Frame
  <2>4. f \in Seq(Nat)
    BY <1>2, <1>4, <2>1, <2>2, <2>3
  <2> QED BY <1>1, <1>3, <2>4 DEF Kind
<1>5. CASE f \in Read
  <2>1. Complete /\ f = Top(mpp.in)
    BY <1>5 DEF Read
  <2>2. ASSUME NEW n \in Nat, n = 4 PROVE n >= 3
    BY <2>2
  <2>3. Len(mpp.in) \in Nat /\ Len(mpp.in) = 4
    BY <1>2, <2>1 DEF Complete
  <2>4. Len(mpp.in) >= 3
    BY <2>2, <2>3
  <2>5. mpp.in[3] \in Nat
    BY <1>1, <1>2, <2>4
  <2> QED BY <2>1, <2>5 DEF Top, Kind
<1>6. CASE f \in OnWire
  <2>1. chip.rxWire # <<>> /\ f = Top(chip.rxWire)
    BY <1>6 DEF OnWire
  <2>2. ASSUME NEW n \in Nat, n = 5 PROVE n >= 3
    BY <2>2
  <2>3. Len(chip.rxWire) \in Nat /\ Len(chip.rxWire) = 5
    BY <1>2, <2>1 DEF Threes
  <2>4. Len(chip.rxWire) >= 3
    BY <2>2, <2>3
  <2>5. chip.rxWire[3] \in Nat
    BY <1>1, <1>2, <2>4
  <2> QED BY <2>1, <2>5 DEF Top, Kind
<1> QED BY <1>4, <1>5, <1>6

\* What arrives has the next number, or is no data frame.
LEMMA NumberOfArrival ==
  ASSUME TypeOK, counts.arrivals + 1 < lapEnq, NEW kind
  PROVE  LET f == Arrival(kind) IN
         /\ Numbered(f) => Kind(f) = counts.arrivals + 1
         /\ Len(f) >= 3 => Len(f) = 3 /\ ~IsHandshake(f)
<1> DEFINE n == counts.arrivals + 1
           f == Arrival(kind)
<1>1. n \in Nat /\ n < lapEnq
  BY DEF TypeOK
<1>2. \/ f \in {<<Node, Server, n>>, <<Server + 1, Server, n>>, <<Broadcast, Server, n>>}
      \/ f \in {<<Node, Server, lapEnq>>, <<Node, Server, lapAck>>}
      \/ f = <<Node>>
  BY DEF Arrival
<1> HIDE DEF n, f
<1>3. ASSUME NEW a, NEW b, NEW c
      PROVE  Len(<<a, b, c>>) = 3 /\ Kind(<<a, b, c>>) = c /\ ~(Len(<<a>>) >= 3)
  BY DEF Kind
<1>4. /\ Numbered(f) => Kind(f) = n
      /\ Len(f) >= 3 => Len(f) = 3 /\ ~IsHandshake(f)
  <2>1. CASE f \in {<<Node, Server, n>>, <<Server + 1, Server, n>>, <<Broadcast, Server, n>>}
    <3>1. Len(f) = 3 /\ Kind(f) = n
      BY <1>3, <2>1
    <3> QED BY <1>1, <3>1 DEF IsHandshake, lapEnq, lapRts, lapCts
  <2>2. CASE f \in {<<Node, Server, lapEnq>>, <<Node, Server, lapAck>>}
    <3>1. Len(f) = 3 /\ Kind(f) \in {lapEnq, lapAck}
      BY <1>3, <2>2
    <3>2. ~IsHandshake(f) /\ ~IsData(f)
      BY <3>1 DEF IsHandshake, IsData, lapEnq, lapAck, lapRts, lapCts
    <3> QED BY <3>1, <3>2 DEF Numbered
  <2>3. CASE f = <<Node>>
    BY <1>3, <2>3 DEF Numbered
  <2> QED BY <1>2, <2>1, <2>2, <2>3
<1> QED BY <1>4 DEF n, f

LEMMA DeliverOrder == ASSUME InOrderAssumption, OrderIInv, Deliver PROVE OrderIInv'
<1> USE DEF OrderIInv
<1>1. IInv'
  BY DeliverKeeps
<1>2. /\ TypeOK /\ incoming \in Seq(Frame) /\ counts.arrivals \in Nat
      /\ counts \in [arrivals : Nat, on : Nat, resets : Nat]
  BY DEF IInv, TypeOK
<1>3. UNCHANGED <<chip, port, mpp, took>> /\ counts.arrivals < Len(Arriving)
      /\ counts'.arrivals = counts.arrivals + 1
  BY <1>2 DEF Deliver
<1>4. PICK kind : incoming' = IF Len(incoming) < MaxIncoming
                              THEN Append(incoming, Arrival(kind)) ELSE incoming
  BY DEF Deliver
<1> DEFINE f == Arrival(kind)
<1>5. counts.arrivals + 1 < lapEnq
  <2>1. ASSUME NEW m, m \in 0..lapEnq - 1, counts.arrivals < m PROVE counts.arrivals + 1 < lapEnq
    BY <1>2, <2>1 DEF lapEnq
  <2> QED BY <1>3, <2>1 DEF InOrderAssumption
<1>6. /\ Numbered(f) => Kind(f) = counts.arrivals + 1
      /\ Len(f) >= 3 => Len(f) = 3 /\ ~IsHandshake(f)
      /\ f \in Frame
  BY <1>2, <1>5, NumberOfArrival, ArrivalIs
<1> HIDE DEF f
<1>7. incoming' = Append(incoming, f) \/ incoming' = incoming
  BY <1>4 DEF f
<1>8. SameReader
  BY <1>3 DEF SameReader, SameRead
<1>9. Driven' /\ Stream'
  BY <1>3, <1>8, StreamKeeps DEF Driven
<1>10. Threes'
  <2>1. ASSUME NEW i \in 1..Len(incoming'), Len(incoming'[i]) >= 3
        PROVE  Len(incoming'[i]) = 3 /\ ~IsHandshake(incoming'[i])
    <3>1. ASSUME NEW q \in Seq(Frame), NEW k \in 1..Len(Append(q, f))
          PROVE  Append(q, f)[k] = f \/ (k \in 1..Len(q) /\ Append(q, f)[k] = q[k])
      BY <1>6
    <3>2. incoming'[i] = f \/ (i \in 1..Len(incoming) /\ incoming'[i] = incoming[i])
      BY <1>2, <1>7, <2>1, <3>1
    <3> QED BY <1>6, <2>1, <3>2 DEF Threes
  <2> QED BY <1>3, <2>1 DEF Threes
<1>11. /\ (Complete' <=> Complete) /\ Read' = Read /\ OnWire' = OnWire /\ (Called' <=> Called)
       /\ Offers' = Offers /\ (Answering' <=> Answering)
  BY <1>3, <1>8, ReaderKeeps DEF Offers, Answering
<1>12. Order(took, Read, OnWire, chip.rxQueue, Offers, incoming', counts.arrivals + 1)
  <2>1. ASSUME NEW g \in Among(took) \union Read \union OnWire \union Among(chip.rxQueue)
                           \union Offers \union Among(incoming)
        PROVE  Numbered(g) => Kind(g) \in Nat
    BY KindsAreNumbers
  <2>2. Order(took, Read, OnWire, chip.rxQueue, Offers, incoming, counts.arrivals)
    BY DEF InOrder
  <2>3. Order(took, Read, OnWire, chip.rxQueue, Offers, Append(incoming, f), counts.arrivals + 1)
    BY <1>2, <1>6, <2>1, <2>2, OrderOfArrival
  <2>4. Order(took, Read, OnWire, chip.rxQueue, Offers, incoming, counts.arrivals + 1)
    BY <1>2, <1>6, <2>1, <2>2, OrderOfArrival
  <2> QED BY <1>7, <2>3, <2>4
<1>13. InOrder'
  BY <1>3, <1>11, <1>12 DEF InOrder, Turn
<1> QED BY <1>1, <1>9, <1>10, <1>13

\* What a poll of the port leaves of the reader and of the driver.
LEMMA PolledOrder ==
  ASSUME OrderIInv, Poll, Carried(chip, chip'), SameRead(chip, chip')
  PROVE  /\ Driven' /\ Stream'
         /\ Read' = Read /\ OnWire' = OnWire /\ (Called' <=> Called) /\ (Answering' <=> Answering)
         /\ took' = took /\ counts' = counts
<1> USE DEF OrderIInv
<1>1. UNCHANGED <<mpp, took, counts>>
  BY DEF Poll
<1>2. SameReader
  BY <1>1 DEF SameReader, Carried
<1>3. Driven' /\ Stream'
  BY <1>1, <1>2, StreamKeeps DEF Driven, Carried, SameRead
<1>4. Answering' <=> Answering
  BY <1>1 DEF Answering, Carried, SameSent
<1> QED BY <1>1, <1>2, <1>3, <1>4, ReaderKeeps

\* The lapRTS for a frame: it has three bytes and is no data frame.
LEMMA OfferSends ==
  ASSUME NEW c \in Channel, NEW f \in Whole
  PROVE  LET d == Offer(c, f)
             rts == <<To(f), From(f), lapRts>>
         IN  /\ Carried(c, d) /\ SameRead(c, d) /\ d.rxQuiet = c.rxQuiet
             /\ Calls(rts) /\ ~Numbered(rts) /\ Len(rts) = 3
             /\ \/ d.rxQueue = c.rxQueue
                \/ d.rxQueue = Append(IF Len(c.rxQueue) >= MaxQueued THEN Tail(c.rxQueue)
                                      ELSE c.rxQueue, rts)
<1> DEFINE rts == <<To(f), From(f), lapRts>>
           d == Offer(c, f)
<1>1. rts \in Seq(Nat)
  <2>1. f[1] \in Nat /\ f[2] \in Nat
    BY DEF Whole
  <2> QED BY <2>1 DEF To, From, lapRts
<1>2. d = ReceiveFrame(c, rts)
  BY DEF Offer
<1>3. Kind(rts) = lapRts /\ Len(rts) = 3
  BY DEF Kind
<1> HIDE DEF rts, d
<1>4. Calls(rts) /\ ~Numbered(rts)
  BY <1>3, CallIsOther DEF Calls
<1>5. Carried(c, d) /\ SameRead(c, d)
  BY <1>1, <1>2, QueueReads, ReceiveKeeps
<1>6. /\ d.rxQuiet = c.rxQuiet
      /\ \/ d.rxQueue = c.rxQueue
         \/ d.rxQueue = Append(IF Len(c.rxQueue) >= MaxQueued THEN Tail(c.rxQueue)
                               ELSE c.rxQueue, rts)
  BY <1>1, <1>2, ReceiveFrameIs DEF SameWire
<1> QED BY <1>3, <1>4, <1>5, <1>6 DEF rts, d

\* With no frame waiting there is none on the wire either.
LEMMA NoneWaiting ==
  ASSUME TypeOK, ~(FramesWaiting(chip) > 0)
  PROVE  chip.rxQueue = <<>> /\ chip.rxWire = <<>> /\ OnWire = {}
<1>1. chip.rxQueue \in Seq(Frame)
  BY DEF TypeOK, Channel
<1>2. ASSUME NEW q \in Seq(Frame), NEW n \in {0, 1}, ~(Len(q) + n > 0)
      PROVE  q = <<>> /\ n = 0
  BY <1>2
<1>3. chip.rxQueue = <<>> /\ (IF chip.rxWire # <<>> THEN 1 ELSE 0) = 0
  BY <1>1, <1>2 DEF FramesWaiting
<1> QED BY <1>3 DEF OnWire

LEMMA PollOffersAgainOrder ==
  ASSUME InOrderAssumption, OrderIInv, Poll, PollOffersAgain
  PROVE  OrderIInv'
<1> USE DEF OrderIInv
<1>1. IInv'
  BY PollOffersAgainKeeps
<1>2. /\ TypeOK /\ chip \in Channel /\ chip.rxQueue \in Seq(Frame)
      /\ port \in [offered : Whole \union {NoFrame}, offeredLines : Nat, offers : Nat]
  BY DEF IInv, TypeOK, Channel
<1>3. /\ port.offered # NoFrame /\ ~StillWaiting
      /\ port'.offered = port.offered /\ chip' = Offer(chip, port.offered)
      /\ incoming' = incoming
  BY <1>2 DEF PollOffersAgain, OfferedAgain
<1>4. port.offered \in Whole
  BY <1>2, <1>3
<1>5. chip.rxQueue = <<>> /\ chip.rxWire = <<>> /\ OnWire = {}
  BY <1>2, <1>3, NoneWaiting DEF StillWaiting
<1> DEFINE f == port.offered
           rts == <<To(f), From(f), lapRts>>
<1>6. /\ Carried(chip, chip') /\ SameRead(chip, chip') /\ chip'.rxQuiet = chip.rxQuiet
      /\ Calls(rts) /\ ~Numbered(rts) /\ Len(rts) = 3
      /\ \/ chip'.rxQueue = chip.rxQueue
         \/ chip'.rxQueue = Append(IF Len(chip.rxQueue) >= MaxQueued THEN Tail(chip.rxQueue)
                                   ELSE chip.rxQueue, rts)
  BY <1>2, <1>3, <1>4, OfferSends
<1> HIDE DEF rts
<1>7. chip'.rxQueue = <<>> \/ chip'.rxQueue = <<rts>>
  <2>1. Len(<<>>) = 0 /\ ~(0 >= MaxQueued) /\ Append(<<>>, rts) = <<rts>>
    BY PortAssumption
  <2> QED BY <1>5, <1>6, <2>1
<1>8. /\ Driven' /\ Stream'
      /\ Read' = Read /\ OnWire' = OnWire /\ (Called' <=> Called) /\ (Answering' <=> Answering)
      /\ took' = took /\ counts' = counts
  BY <1>6, PolledOrder
<1>9. Offers' = Offers /\ Offers # {}
  BY <1>3 DEF Offers
<1>10. Threes'
  <2>1. \A i \in 1..Len(chip'.rxQueue) : Len(chip'.rxQueue[i]) = 3
    <3>1. Len(<<>>) = 0 /\ Len(<<rts>>) = 1 /\ <<rts>>[1] = rts
      OBVIOUS
    <3> QED BY <1>6, <1>7, <3>1
  <2> QED BY <1>3, <1>6, <2>1 DEF Threes, Carried
<1> DEFINE a == counts.arrivals
           heeded == Called \/ Answering
<1>11. Order(took, Read, OnWire, chip'.rxQueue, Offers, incoming, a)
  <2>1. Order(took, Read, OnWire, <<>>, Offers, incoming, a)
    BY <1>5 DEF InOrder
  <2>2. <<>> \in Seq(Frame) /\ Append(<<>>, rts) = <<rts>>
    OBVIOUS
  <2>3. Order(took, Read, OnWire, <<rts>>, Offers, incoming, a)
    BY <1>6, <2>1, <2>2, OrderOfOther
  <2> QED BY <1>7, <2>1, <2>3
<1>12. Turn({}, chip'.rxQueue, Offers, heeded, Called, chip.rxQuiet)
  <2>1. Turn({}, <<>>, Offers, heeded, Called, chip.rxQuiet)
    BY <1>5 DEF InOrder
  <2>2. Turn({}, <<rts>>, Offers, heeded, Called, chip.rxQuiet)
    BY <1>6, <1>9, <2>1, TurnOfAnother
  <2> QED BY <1>7, <2>1, <2>2
<1>13. InOrder'
  BY <1>3, <1>5, <1>6, <1>8, <1>9, <1>11, <1>12 DEF InOrder, Turn
<1> QED BY <1>1, <1>8, <1>10, <1>13

-----------------------------------------------------------------------------
(* What has arrived goes on the wire.                                      *)

ThreeEach(q) == \A i \in 1..Len(q) : Len(q[i]) = 3

LEMMA ThreeEachOf ==
  ASSUME NEW q \in Seq(Frame), ThreeEach(q), NEW f, Len(f) = 3
  PROVE  /\ ThreeEach(Append(q, f)) /\ ThreeEach(<<f>> \o q)
         /\ q # <<>> => ThreeEach(Tail(q))
<1>1. \A i \in 1..Len(Append(q, f)) :
        Append(q, f)[i] = f \/ (i \in 1..Len(q) /\ Append(q, f)[i] = q[i])
  OBVIOUS
<1>2. \A i \in 1..Len(<<f>> \o q) :
        (<<f>> \o q)[i] = f \/ (i - 1 \in 1..Len(q) /\ (<<f>> \o q)[i] = q[i - 1])
  OBVIOUS
<1>3. q # <<>> => \A i \in 1..Len(Tail(q)) : i + 1 \in 1..Len(q) /\ Tail(q)[i] = q[i + 1]
  OBVIOUS
<1>4. ThreeEach(Append(q, f))
  BY <1>1 DEF ThreeEach
<1>5. ThreeEach(<<f>> \o q)
  BY <1>2 DEF ThreeEach
<1>6. q # <<>> => ThreeEach(Tail(q))
  BY <1>3 DEF ThreeEach
<1> QED BY <1>4, <1>5, <1>6

\* One frame that is for all of them, or is no data frame, goes on the wire.
LEMMA OneOnTheWire ==
  ASSUME InOrderAssumption, NEW c \in Channel, ThreeEach(c.rxQueue),
         NEW t, NEW R, NEW W, NEW a, NEW heeded, NEW called, called => heeded,
         NEW next \in Seq(Frame), next # <<>>,
         Order(t, R, W, c.rxQueue, {}, next, a),
         Turn(W, c.rxQueue, {}, heeded, called, c.rxQuiet),
         ~HasToBeOffered(next[1]),
         Len(next[1]) >= 3 => Len(next[1]) = 3 /\ ~IsHandshake(next[1])
  PROVE  LET d == OnTheWire(c, next[1]) IN
         /\ Order(t, R, W, d.rxQueue, {}, Tail(next), a)
         /\ Turn(W, d.rxQueue, {}, heeded, called, d.rxQuiet)
         /\ ThreeEach(d.rxQueue)
<1> DEFINE f == next[1]
           q == c.rxQueue
           d == OnTheWire(c, f)
           Good(x) == /\ Order(t, R, W, x.rxQueue, {}, Tail(next), a)
                      /\ Turn(W, x.rxQueue, {}, heeded, called, x.rxQuiet)
                      /\ ThreeEach(x.rxQueue)
<1> SUFFICES Good(d)
  OBVIOUS
<1>1. q \in Seq(Frame) /\ f \in Frame /\ f \in Seq(Nat) /\ Tail(next) \in Seq(Frame)
  BY DEF Channel, Frame
<1>2. EachApart(q) /\ EachBefore(Tail(next)) /\ Among(Tail(next)) \subseteq Among(next)
  BY AmongIs, EachOf DEF Order
<1>3. Order(t, R, W, q, {}, Tail(next), a)
  BY <1>2, OrderOfLess
<1>4. Good(c)
  BY <1>3
<1>5. ~Directed(f)
  BY DEF Directed, Numbered, HasToBeOffered
<1>6. CASE Len(f) < 3
  <2>1. d = c
    BY <1>1, <1>6 DEF OnTheWire, IsAck
  <2> QED BY <1>4, <2>1
<1>7. CASE ~(Len(f) < 3)
  <2>1. Len(f) >= 3 /\ Len(f) = 3 /\ ~IsHandshake(f)
    BY <1>1, <1>7
  <2>2. ~Calls(f)
    BY <2>1 DEF IsHandshake, Calls
  <2>3. CASE IsAck(f)
    <3>1. d = AnswerFrame(c, f)
      BY <1>7, <2>3 DEF OnTheWire
    <3> HIDE DEF d
    <3>2. d = c \/ (d.rxQueue = <<f>> \o q /\ ~d.rxQuiet)
      BY <1>1, <3>1, AnswerFrameIs
    <3>3. ~Numbered(f)
      BY <2>3, CallIsOther DEF IsAck
    <3>4. ASSUME d.rxQueue = <<f>> \o q PROVE Good(d)
      <4>1. Order(t, R, W, <<f>> \o q, {}, Tail(next), a)
        BY <1>1, <1>3, <3>3, OrderOfOther
      <4>2. Turn(W, <<f>> \o q, {}, heeded, called, d.rxQuiet)
        BY <1>1, <1>5, <2>2, TurnOfFront
      <4>3. ThreeEach(<<f>> \o q)
        BY <1>1, <2>1, ThreeEachOf
      <4> QED BY <3>4, <4>1, <4>2, <4>3
    <3> HIDE DEF Good
    <3> QED BY <1>4, <3>2, <3>4
  <2>4. CASE ~IsAck(f)
    <3>1. d = ReceiveFrame(c, f)
      BY <1>7, <2>4 DEF OnTheWire
    <3> HIDE DEF d
    <3> DEFINE r == IF Len(q) >= MaxQueued THEN Tail(q) ELSE q
    <3>2. d = c \/ (d.rxQueue = Append(r, f) /\ d.rxQuiet = c.rxQuiet)
      BY <1>1, <3>1, ReceiveFrameIs DEF SameWire
    <3>3. r = q \/ (q # <<>> /\ r = Tail(q))
      <4>1. ASSUME Len(q) >= MaxQueued PROVE q # <<>>
        BY <1>1, <4>1, PortAssumption
      <4> QED BY <4>1
    <3>4. r \in Seq(Frame) /\ ThreeEach(r) /\ EachApart(r) /\ Among(r) \subseteq Among(q)
      <4>1. q # <<>> => Tail(q) \in Seq(Frame)
        BY <1>1
      <4>2. q # <<>> => ThreeEach(Tail(q)) /\ EachApart(Tail(q)) /\ Among(Tail(q)) \subseteq Among(q)
        BY <1>1, <1>2, <2>1, ThreeEachOf, EachOf, AmongIs
      <4> HIDE DEF r
      <4> QED BY <1>1, <1>2, <3>3, <4>1, <4>2
    <3> HIDE DEF r
    <3>5. Order(t, R, W, Append(r, f), {}, Tail(next), a)
      <4>1. EachBefore(next)
        BY DEF Order
      <4>2. Order(t, R, W, r, {}, next, a)
        BY <3>4, <4>1, OrderOfLess
      <4> QED BY <1>5, <3>4, <4>2, OrderOfNext
    <3>6. Turn(W, Append(r, f), {}, heeded, called, c.rxQuiet)
      BY <1>1, <1>5, <2>2, <3>3, TurnOfNext
    <3>7. ThreeEach(Append(r, f))
      BY <2>1, <3>4, ThreeEachOf
    <3>8. ASSUME d.rxQueue = Append(r, f), d.rxQuiet = c.rxQuiet PROVE Good(d)
      BY <3>5, <3>6, <3>7, <3>8
    <3> HIDE DEF Good
    <3> QED BY <1>4, <3>2, <3>8
  <2> QED BY <2>3, <2>4
<1> QED BY <1>6, <1>7

LEMMA RestOfNext ==
  ASSUME NEW q \in Seq(Frame), NEW k \in 1..Len(q)
  PROVE  LET s == SubSeq(q, k, Len(q)) IN
         /\ s \in Seq(Frame) /\ s # <<>> /\ s[1] = q[k]
         /\ Tail(s) = SubSeq(q, k + 1, Len(q)) /\ Tail(s) \in Seq(Frame)
<1> DEFINE s == SubSeq(q, k, Len(q))
           r == SubSeq(q, k + 1, Len(q))
<1>1. /\ s \in Seq(Frame) /\ Len(s) = Len(q) - k + 1 /\ \A i \in 1..Len(s) : s[i] = q[(k + i) - 1]
      /\ r \in Seq(Frame) /\ Len(r) = Len(q) - k /\ \A i \in 1..Len(r) : r[i] = q[k + i]
  OBVIOUS
<1> HIDE DEF s, r
<1>2. s # <<>> /\ s[1] = q[k]
  <2>1. Len(s) # 0 /\ 1 \in 1..Len(s) /\ (k + 1) - 1 = k
    BY <1>1
  <2>2. ASSUME NEW x \in Seq(Frame), Len(x) # 0 PROVE x # <<>>
    BY <2>2
  <2>3. s[1] = q[(k + 1) - 1]
    BY <1>1, <2>1
  <2> QED BY <1>1, <2>1, <2>2, <2>3
<1>3. Tail(s) \in Seq(Frame) /\ Len(Tail(s)) = Len(r) /\ \A i \in 1..Len(r) : Tail(s)[i] = r[i]
  <2>1. ASSUME NEW x \in Seq(Frame), x # <<>>
        PROVE  /\ Tail(x) \in Seq(Frame) /\ Len(Tail(x)) = Len(x) - 1
               /\ \A i \in 1..Len(x) - 1 : Tail(x)[i] = x[i + 1]
    BY <2>1
  <2>2. /\ Tail(s) \in Seq(Frame) /\ Len(Tail(s)) = Len(s) - 1
        /\ \A i \in 1..Len(s) - 1 : Tail(s)[i] = s[i + 1]
    BY <1>1, <1>2, <2>1
  <2>3. Len(s) - 1 = Len(r)
    BY <1>1
  <2>4. ASSUME NEW i \in 1..Len(r) PROVE Tail(s)[i] = r[i]
    <3>1. i + 1 \in 1..Len(s) /\ (k + (i + 1)) - 1 = k + i
      BY <1>1, <2>4
    <3>2. s[i + 1] = q[(k + (i + 1)) - 1]
      BY <1>1, <3>1
    <3> QED BY <1>1, <2>2, <2>3, <2>4, <3>1, <3>2
  <2> QED BY <2>2, <2>3, <2>4
<1>4. Tail(s) = r
  <2>1. ASSUME NEW x \in Seq(Frame), NEW y \in Seq(Frame), Len(x) = Len(y),
               \A i \in 1..Len(y) : x[i] = y[i]
        PROVE  x = y
    BY <2>1, SeqEqual
  <2> QED BY <1>1, <1>3, <2>1
<1> QED BY <1>1, <1>2, <1>3, <1>4 DEF s, r

\* All of them do, one after another: the first n of those that wait, which
\* are for all of them or no data frames.
LEMMA AllOnTheWireOrder ==
  ASSUME InOrderAssumption, NEW c \in Channel, ThreeEach(c.rxQueue),
         NEW t, NEW R, NEW W, NEW a, NEW heeded, NEW called, called => heeded,
         NEW next \in Seq(Frame), NEW n \in 0..Len(next),
         Order(t, R, W, c.rxQueue, {}, next, a),
         Turn(W, c.rxQueue, {}, heeded, called, c.rxQuiet),
         \A i \in 1..n : ~HasToBeOffered(next[i]),
         \A i \in 1..n : Len(next[i]) >= 3 => Len(next[i]) = 3 /\ ~IsHandshake(next[i])
  PROVE  LET d == AllOnTheWire(c, SubSeq(next, 1, n)) IN
         /\ Carried(c, d) /\ SameRead(c, d)
         /\ Order(t, R, W, d.rxQueue, {}, SubSeq(next, n + 1, Len(next)), a)
         /\ Turn(W, d.rxQueue, {}, heeded, called, d.rxQuiet)
         /\ ThreeEach(d.rxQueue)
<1> DEFINE frames == SubSeq(next, 1, n)
           rest(k) == SubSeq(next, k + 1, Len(next))
<1>1. /\ n \in Nat /\ DOMAIN frames = 1..n
      /\ \A k \in 1..n : frames[k] = next[k] /\ frames[k] \in Frame
  OBVIOUS
<1> HIDE DEF frames
<1>2. PICK w : Steps(w, c, frames, n)
  BY <1>1, FoldSteps
<1> DEFINE Good(k) == /\ Carried(c, w[k]) /\ SameRead(c, w[k])
                      /\ Order(t, R, W, w[k].rxQueue, {}, rest(k), a)
                      /\ Turn(W, w[k].rxQueue, {}, heeded, called, w[k].rxQuiet)
                      /\ ThreeEach(w[k].rxQueue)
           Bad == {k \in 0..n : ~Good(k)}
<1>3. Good(0)
  <2>1. SubSeq(next, 0 + 1, Len(next)) = next
    OBVIOUS
  <2>2. w[0] = c
    BY <1>2 DEF Steps
  <2>3. Carried(c, c) /\ SameRead(c, c)
    BY DEF Carried, SameRead, SameSent
  <2> QED BY <2>1, <2>2, <2>3
<1>4. ASSUME NEW k \in 1..n, Good(k - 1) PROVE Good(k)
  <2> DEFINE b == w[k - 1]
             d == w[k]
             s == SubSeq(next, k, Len(next))
  <2>1. d = OnTheWire(b, frames[k]) /\ frames[k] = next[k] /\ frames[k] \in Frame
    BY <1>1, <1>2 DEF Steps
  <2>2. k \in 1..Len(next) /\ (k - 1) + 1 = k
    BY <1>1
  <2>3. /\ s \in Seq(Frame) /\ s # <<>> /\ s[1] = next[k] /\ Tail(s) = rest(k)
    BY <2>2, RestOfNext
  <2>4. rest(k - 1) = s
    BY <2>2
  <2>5. /\ Carried(c, b) /\ SameRead(c, b) /\ b \in Channel
        /\ Order(t, R, W, b.rxQueue, {}, s, a)
        /\ Turn(W, b.rxQueue, {}, heeded, called, b.rxQuiet)
        /\ ThreeEach(b.rxQueue)
    BY <1>4, <2>4 DEF Carried
  <2> HIDE DEF b, d, s, rest
  <2>6. Carried(b, d) /\ SameRead(b, d)
    BY <2>1, <2>5, OnTheWireKeeps, QueueReads
  <2>7. Carried(c, d) /\ SameRead(c, d)
    BY <2>5, <2>6, CarriedAgain, ReadSame
  <2>8. /\ ~HasToBeOffered(s[1])
        /\ Len(s[1]) >= 3 => Len(s[1]) = 3 /\ ~IsHandshake(s[1])
    BY <2>3
  <2>9. d = OnTheWire(b, s[1])
    BY <2>1, <2>3
  <2>10. /\ Order(t, R, W, d.rxQueue, {}, Tail(s), a)
         /\ Turn(W, d.rxQueue, {}, heeded, called, d.rxQuiet)
         /\ ThreeEach(d.rxQueue)
    BY <2>3, <2>5, <2>8, <2>9, OneOnTheWire
  <2> QED BY <2>3, <2>7, <2>10 DEF d
<1>5. Bad = {}
  <2>1. SUFFICES ASSUME Bad # {} PROVE FALSE
    BY <2>1
  <2>2. PICK k \in Bad : \A j \in Bad : k <= j
    <3>1. Bad \subseteq Nat
      BY <1>1
    <3> HIDE DEF Bad
    <3> QED BY <2>1, <3>1, LeastOf
  <2> HIDE DEF Good
  <2>3. k \in 1..n
    BY <1>1, <1>3, <2>2
  <2>4. k - 1 \in 0..n /\ k - 1 \notin Bad
    BY <1>1, <2>2, <2>3
  <2>5. Good(k - 1)
    BY <2>4
  <2> QED BY <1>4, <2>2, <2>3, <2>5
<1>6. Good(n)
  <2> HIDE DEF Good
  <2> QED BY <1>1, <1>5
<1>7. AllOnTheWire(c, frames) = w[n]
  BY <1>2 DEF Steps
<1> QED BY <1>6, <1>7 DEF frames

\* Those before the first that has to be offered have not, or none has.
LEMMA NoneBefore ==
  ASSUME NEW q \in Seq(Frame)
  PROVE  LET first == SelectInSeq(q, HasToBeOffered)
         IN  \A i \in 1..Len(q) : first = 0 \/ i < first => ~HasToBeOffered(q[i])
<1> DEFINE I == {i \in 1..Len(q) : HasToBeOffered(q[i])}
           first == SelectInSeq(q, HasToBeOffered)
<1>1. first = IF I # {} THEN Min(I) ELSE 0
  BY DEF SelectInSeq
<1>2. I \subseteq Nat \ {0}
  OBVIOUS
<1>3. ASSUME I # {} PROVE Min(I) \in I /\ \A j \in I : Min(I) <= j
  <2> HIDE DEF I
  <2>1. \E i \in I : \A j \in I : i <= j
    BY <1>2, <1>3, LeastOf
  <2> QED BY <2>1 DEF Min
<1>4. ASSUME NEW i \in 1..Len(q), HasToBeOffered(q[i]) PROVE first # 0 /\ first <= i
  <2>1. i \in I /\ I # {}
    BY <1>4
  <2> HIDE DEF I, first
  <2>2. first \in I /\ first <= i
    BY <1>1, <1>3, <2>1
  <2> QED BY <1>2, <2>2
<1> HIDE DEF I
<1>5. ASSUME NEW i \in 1..Len(q), first = 0 \/ i < first PROVE ~HasToBeOffered(q[i])
  <2>1. SUFFICES ASSUME HasToBeOffered(q[i]) PROVE FALSE
    OBVIOUS
  <2>2. first # 0 /\ first <= i
    BY <1>4, <2>1
  <2>3. first \in Nat
    <3>1. first \in I \/ first = 0
      <4> HIDE DEF first
      <4> QED BY <1>1, <1>3
    <3>2. \A j \in I : j \in Nat
      BY <1>2
    <3>3. 0 \in Nat
      OBVIOUS
    <3> HIDE DEF first
    <3> QED BY <3>1, <3>2, <3>3
  <2> HIDE DEF first
  <2> QED BY <1>5, <2>2, <2>3
<1> QED BY <1>5

LEMMA PollTakesOrder ==
  ASSUME InOrderAssumption, OrderIInv, Poll, PollTakes
  PROVE  OrderIInv'
<1> USE DEF OrderIInv
<1> DEFINE first == SelectInSeq(incoming, HasToBeOffered)
           through == IF first = 0 THEN incoming ELSE SubSeq(incoming, 1, first - 1)
           wired == AllOnTheWire(chip, through)
           n == IF first = 0 THEN Len(incoming) ELSE first - 1
           a == counts.arrivals
           heeded == Called \/ Answering
<1>1. IInv'
  BY PollTakesKeeps
<1>2. /\ TypeOK /\ chip \in Channel /\ chip.rxQueue \in Seq(Frame) /\ incoming \in Seq(Frame)
      /\ port \in [offered : Whole \union {NoFrame}, offeredLines : Nat, offers : Nat]
  BY DEF IInv, TypeOK, Channel
<1>3. /\ port.offered # NoFrame => ~StillWaiting
      /\ IF first = 0
         THEN /\ port' = [port EXCEPT !.offered = NoFrame]
              /\ chip' = wired
              /\ incoming' = <<>>
         ELSE /\ port' = [offered |-> incoming[first], offeredLines |-> 0, offers |-> 1]
              /\ chip' = Offer(wired, incoming[first])
              /\ incoming' = SubSeq(incoming, first + 1, Len(incoming))
  BY DEF PollTakes
<1>4. /\ first = 0 \/ (first \in 1..Len(incoming) /\ HasToBeOffered(incoming[first]))
      /\ \A i \in 1..Len(incoming) : first = 0 \/ i < first => ~HasToBeOffered(incoming[i])
  BY <1>2, FirstIs, NoneBefore
<1> HIDE DEF first
\* What was on offer is given up: nothing is on its way then.
<1>5. /\ Order(took, Read, OnWire, chip.rxQueue, {}, incoming, a)
      /\ Turn(OnWire, chip.rxQueue, {}, heeded, Called, chip.rxQuiet)
  <2>1. Order(took, Read, OnWire, chip.rxQueue, Offers, incoming, a)
    BY DEF InOrder
  <2>2. EachApart(chip.rxQueue) /\ EachBefore(incoming) /\ {} \in SUBSET Offers
    BY <2>1 DEF Order
  <2>3. Order(took, Read, OnWire, chip.rxQueue, {}, incoming, a)
    BY <2>1, <2>2, OrderOfLess
  <2>4. CASE port.offered = NoFrame
    BY <2>3, <2>4 DEF InOrder, Offers
  <2>5. CASE port.offered # NoFrame
    <3>1. chip.rxQueue = <<>> /\ OnWire = {}
      BY <1>2, <1>3, <2>5, NoneWaiting DEF StillWaiting
    <3>2. Turn({}, <<>>, Offers, heeded, Called, chip.rxQuiet)
      BY <3>1 DEF InOrder
    <3>3. Turn({}, <<>>, {}, heeded, Called, chip.rxQuiet)
      BY <3>2, TurnOfGivenUp
    <3> QED BY <2>3, <3>1, <3>3
  <2> QED BY <2>4, <2>5
\* All that comes before the first that has to be offered goes on the wire.
<1>6. /\ n \in 0..Len(incoming) /\ through = SubSeq(incoming, 1, n)
      /\ \A i \in 1..n : i \in 1..Len(incoming) /\ ~HasToBeOffered(incoming[i])
      /\ first # 0 => n + 1 = first
  <2>1. Len(incoming) \in Nat /\ SubSeq(incoming, 1, Len(incoming)) = incoming
    BY <1>2
  <2> DEFINE m == Len(incoming)
  <2> HIDE DEF m
  <2>2. CASE first = 0
    BY <1>4, <2>1, <2>2
  <2>3. CASE first # 0
    <3>1. first \in 1..m /\ m \in Nat
      BY <1>4, <2>1, <2>3 DEF m
    <3>2. first - 1 \in 0..m /\ (first - 1) + 1 = first
          /\ \A i \in 1..first-1 : i \in 1..m /\ i < first
      BY <3>1
    <3> QED BY <1>4, <2>3, <3>2 DEF m
  <2> QED BY <2>2, <2>3
<1> HIDE DEF n, through, heeded
<1>7. /\ Carried(chip, wired) /\ SameRead(chip, wired)
      /\ Order(took, Read, OnWire, wired.rxQueue, {}, SubSeq(incoming, n + 1, Len(incoming)), a)
      /\ Turn(OnWire, wired.rxQueue, {}, heeded, Called, wired.rxQuiet)
      /\ ThreeEach(wired.rxQueue)
  <2>1. ThreeEach(chip.rxQueue)
    BY DEF Threes, ThreeEach
  <2>2. \A i \in 1..n : Len(incoming[i]) >= 3 => Len(incoming[i]) = 3 /\ ~IsHandshake(incoming[i])
    BY <1>6 DEF Threes
  <2>3. Called => heeded
    BY DEF heeded
  <2> QED BY <1>2, <1>5, <1>6, <2>1, <2>2, <2>3, AllOnTheWireOrder
<1> HIDE DEF wired
<1>8. wired \in Channel /\ wired.rxQueue \in Seq(Frame)
  BY <1>7 DEF Carried, Channel
\* It is enough to look at the queue and at what is on offer.
<1>9. ASSUME Carried(chip, chip'), SameRead(chip, chip'), ThreeEach(chip'.rxQueue),
             port'.offered # NoFrame => Len(port'.offered) = 3 /\ Directed(port'.offered),
             \A i \in 1..Len(incoming') : incoming'[i] \in Among(incoming),
             Order(took, Read, OnWire, chip'.rxQueue, Offers', incoming', a),
             Turn(OnWire, chip'.rxQueue, Offers', heeded, Called, chip'.rxQuiet)
      PROVE  OrderIInv'
  <2>1. /\ Driven' /\ Stream'
        /\ Read' = Read /\ OnWire' = OnWire /\ (Called' <=> Called) /\ (Answering' <=> Answering)
        /\ took' = took /\ counts' = counts
    BY <1>9, PolledOrder
  <2>2. ASSUME NEW i \in 1..Len(incoming'), Len(incoming'[i]) >= 3
        PROVE  Len(incoming'[i]) = 3 /\ ~IsHandshake(incoming'[i])
    BY <1>9, <2>2 DEF Among, Threes
  <2>3. Threes'
    BY <1>9, <2>2 DEF Threes, ThreeEach, Carried
  <2>4. InOrder'
    BY <1>9, <2>1 DEF InOrder, Turn, heeded
  <2> QED BY <1>1, <2>1, <2>3, <2>4
<1>10. CASE first = 0
  <2>1. chip' = wired /\ incoming' = <<>> /\ port'.offered = NoFrame /\ Offers' = {}
    BY <1>2, <1>3, <1>10 DEF Offers
  <2>2. SubSeq(incoming, n + 1, Len(incoming)) = <<>>
    <3>1. n = Len(incoming)
      BY <1>10 DEF n
    <3>2. SubSeq(incoming, Len(incoming) + 1, Len(incoming)) = <<>>
      BY <1>2
    <3> QED BY <3>1, <3>2
  <2>3. \A i \in 1..Len(incoming') : incoming'[i] \in Among(incoming)
    BY <2>1
  <2> QED BY <1>7, <1>9, <2>1, <2>2, <2>3
<1>11. CASE first # 0
  <2> DEFINE f == incoming[first]
             s == SubSeq(incoming, first, Len(incoming))
             rts == <<To(f), From(f), lapRts>>
             q == wired.rxQueue
             r == IF Len(q) >= MaxQueued THEN Tail(q) ELSE q
  <2>1. first \in 1..Len(incoming) /\ HasToBeOffered(f) /\ n + 1 = first
    BY <1>4, <1>6, <1>11
  <2>2. f \in Seq(Nat) /\ Len(f) >= 3 /\ f \in Whole /\ f # NoFrame /\ Len(f) = 3 /\ Directed(f)
    <3>1. f \in Frame /\ Len(f) >= 3
      BY <1>2, <2>1 DEF HasToBeOffered
    <3>2. Len(f) = 3
      BY <2>1, <3>1 DEF Threes
    <3>3. f \in Seq(Nat) /\ f # NoFrame /\ f \in Whole
      BY <3>1 DEF Frame, Whole, NoFrame
    <3>4. Directed(f)
      BY <2>1 DEF HasToBeOffered, Directed, Numbered
    <3> QED BY <3>1, <3>2, <3>3, <3>4
  <2>3. port'.offered = f /\ chip' = Offer(wired, f) /\ incoming' = SubSeq(incoming, first + 1, Len(incoming))
    BY <1>3, <1>11
  <2>4. /\ s \in Seq(Frame) /\ s # <<>> /\ s[1] = f /\ Tail(s) = incoming'
    BY <1>2, <2>1, <2>3, RestOfNext
  <2>5. Order(took, Read, OnWire, q, {}, s, a)
    BY <1>7, <2>1
  <2>6. Offers' = {f}
    BY <2>2, <2>3 DEF Offers
  <2>7. \A i \in 1..Len(incoming') : incoming'[i] \in Among(incoming)
    <3>1. ASSUME NEW g \in Seq(Frame), NEW k \in 1..Len(g), NEW i \in 1..Len(SubSeq(g, k + 1, Len(g)))
          PROVE  k + i \in 1..Len(g) /\ SubSeq(g, k + 1, Len(g))[i] = g[k + i]
      OBVIOUS
    <3> QED BY <1>2, <2>1, <2>3, <3>1 DEF Among
  <2> HIDE DEF f, s
  <2>8. /\ Carried(wired, chip') /\ SameRead(wired, chip') /\ chip'.rxQuiet = wired.rxQuiet
        /\ Calls(rts) /\ ~Numbered(rts) /\ Len(rts) = 3
        /\ chip'.rxQueue = q \/ chip'.rxQueue = Append(r, rts)
    BY <1>8, <2>2, <2>3, OfferSends
  <2> HIDE DEF rts
  <2>9. Order(took, Read, OnWire, q, {f}, incoming', a)
    BY <2>4, <2>5, OrderOfOffer
  <2>10. r = q \/ (Len(q) >= 2 /\ r = Tail(q))
    <3>1. ASSUME NEW k \in Nat, k >= MaxQueued PROVE k >= 2
      BY <3>1, PortAssumption DEF InOrderAssumption
    <3>2. Len(q) \in Nat
      BY <1>8
    <3> QED BY <3>1, <3>2
  <2> HIDE DEF q
  <2>11. q \in Seq(Frame) /\ ThreeEach(q) /\ Turn(OnWire, q, {}, heeded, Called, wired.rxQuiet)
    BY <1>7, <1>8 DEF q
  <2>12. r \in Seq(Frame) /\ ThreeEach(r) /\ EachApart(r) /\ Among(r) \subseteq Among(q)
    <3>1. EachApart(q)
      BY <2>9 DEF Order
    <3>2. ASSUME NEW x \in Seq(Frame), Len(x) >= 2 PROVE x # <<>> /\ Tail(x) \in Seq(Frame)
      BY <3>2
    <3>3. Len(q) >= 2 => /\ Tail(q) \in Seq(Frame) /\ ThreeEach(Tail(q)) /\ EachApart(Tail(q))
                         /\ Among(Tail(q)) \subseteq Among(q)
      BY <2>8, <2>11, <3>1, <3>2, ThreeEachOf, EachOf, AmongIs
    <3> HIDE DEF r
    <3> QED BY <2>10, <2>11, <3>1, <3>3
  <2> HIDE DEF r
  <2>13. Order(took, Read, OnWire, Append(r, rts), {f}, incoming', a)
    <3>1. EachBefore(incoming')
      BY <2>9 DEF Order
    <3>2. Order(took, Read, OnWire, r, {f}, incoming', a)
      BY <2>9, <2>12, <3>1, OrderOfLess
    <3> QED BY <2>8, <2>12, <3>2, OrderOfOther
  <2>14. /\ Turn(OnWire, Append(r, rts), {f}, heeded, Called, wired.rxQuiet)
         /\ Turn(OnWire, q, {f}, heeded, Called, wired.rxQuiet)
    <3>1. Called => heeded
      BY DEF heeded
    <3> QED BY <2>8, <2>10, <2>11, <3>1, TurnOfOffer, TurnOfUntold
  <2>15. ThreeEach(Append(r, rts))
    BY <2>8, <2>12, ThreeEachOf
  <2>16. Carried(chip, chip') /\ SameRead(chip, chip')
    BY <1>7, <2>8, CarriedAgain, ReadSame
  <2> QED BY <1>9, <2>2, <2>3, <2>6, <2>7, <2>8, <2>9, <2>11, <2>13, <2>14, <2>15, <2>16
<1> QED BY <1>10, <1>11

-----------------------------------------------------------------------------
(* Every step, in order.                                                   *)

LEMMA NextOrder == ASSUME InOrderAssumption, OrderIInv, [Next]_vars PROVE OrderIInv'
<1>1. CASE Poll
  BY <1>1, PollWaitsOrder, PollOffersAgainOrder, PollTakesOrder DEF Poll
<1>2. CASE Chip
  BY <1>2, ByteLeavesOrder, QuietPassesOrder, StartsOrder, ReceivesOrder DEF Chip
<1>3. CASE Driver
  BY <1>3, TurnOnOrder, SendOrder, WriteByteOrder, ResetEomOrder, EndedOrder,
     InterruptOrder, ReadByteOrder DEF Driver
<1>4. CASE Deliver \/ TurnOff \/ CtsTimeout \/ Reset
  BY <1>4, DeliverOrder, TurnOffOrder, CtsTimeoutOrder, ResetOrder
<1>5. CASE UNCHANGED vars
  BY <1>5, StutterOrder
<1> QED BY <1>1, <1>2, <1>3, <1>4, <1>5 DEF Next

\* A data frame of the network is taken by the driver at most once, and those
\* for the machine alone in the order they came in, for every number of
\* resets, offers and scan lines, and every interleaving of the network, the
\* chip and the driver: as long as two frames at least fit in the queue of the
\* receiver and no more than four bytes in its FIFO, as in the program, fewer
\* frames come than can be numbered apart, and the machine sends no lapRTS or
\* lapCTS of its own (SendFrame, poll and offer of src/appletalk.go).
THEOREM TakenOnceInOrder == InOrderAssumption => (Spec => []TakenInOrderOnce)
<1>1. Init => OrderIInv
  BY InitOrder
<1>2. InOrderAssumption /\ OrderIInv /\ [Next]_vars => OrderIInv'
  BY NextOrder
<1>3. OrderIInv => TakenInOrderOnce
  <2>1. SUFFICES ASSUME OrderIInv, NEW i \in 1..Len(took), NEW j \in 1..Len(took), i < j
                 PROVE  /\ took[i] # took[j]
                        /\ To(took[i]) # Broadcast /\ To(took[j]) # Broadcast
                               => Kind(took[i]) < Kind(took[j])
    BY DEF TakenInOrderOnce
  <2>2. Before(took[i], took[j]) /\ Numbered(took[i]) /\ Numbered(took[j])
    BY <2>1 DEF OrderIInv, InOrder, Order, EachBefore, Among
  <2> QED BY <2>2 DEF Before, Directed
<1>4. ASSUME InOrderAssumption PROVE Spec => []TakenInOrderOnce
  BY <1>1, <1>2, <1>3, <1>4, PTL DEF Spec
<1> QED BY <1>4

=============================================================================
