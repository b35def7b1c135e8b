------------------------------- MODULE MCLink -------------------------------
(***************************************************************************)
(* The serial link for TLC, in two settings: in "mixed" the lane asks for  *)
(* everything; in "calm" it does not ask for reconnects, so the service    *)
(* thread has to bring a faulted link back, and threads are fair.          *)
(***************************************************************************)
EXTENDS SerialLink

VARIABLE bench

Calm == INSTANCE SerialLink WITH LaneOps <- LaneOps \ {"reconnect"}

MCInit == bench \in {"mixed", "calm"} /\ Init

MCNext ==
  \/ bench = "mixed" /\ Next /\ UNCHANGED bench
  \/ bench = "calm" /\ Calm!Next /\ UNCHANGED bench

MCFairSpec ==
  /\ MCInit /\ [][MCNext]_<<vars, bench>>
  /\ \/ bench = "mixed"
     \/ bench = "calm" /\ Calm!Fairness

-----------------------------------------------------------------------------
(* A link that faulted is online again, unless its lane waits for ever for  *)
(* a heartbeat thread to end.                                               *)
ServiceRestoresLink == bench = "calm" => LinkComesBack
=============================================================================
