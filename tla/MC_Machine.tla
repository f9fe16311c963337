---------------------------- MODULE MC_Machine ----------------------------
(* The model of Machine for TLC. *)
EXTENDS Machine

\* A text with a character the Macintosh does not have becomes another one.
MCTexts == {"plain", "dash"}
MCMac == [text \in MCTexts |-> "plain"]
=============================================================================
