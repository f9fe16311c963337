------------------------------ MODULE MC_Port ------------------------------
(* The model of Port for TLC. *)
EXTENDS Port

MCArriving ==
    <<{"data", "other"}, {"data", "broadcast", "short", "ack", "enq"}>>
MCOutgoing == <<<<Server, Node, 3>>>>
=============================================================================
