----------------------------- MODULE MC_PortB -----------------------------
(* The model of PortB for TLC. *)
EXTENDS PortB

On(place, at, read, value) ==
    [on |-> place, at |-> at, read |-> read, value |-> value]

\* A low byte also by its extended address, a high one, an extended one.
MCCalls ==
    {On("pram", 1, FALSE, 165), On("extended", 17, TRUE, 0),
     On("extended", 10, FALSE, 129), On("pram", 18, TRUE, 0),
     On("extended", 32, FALSE, 7), On("protect", 0, FALSE, 128),
     On("seconds", 1, FALSE, 2)}
MCExtended == {32}
=============================================================================
