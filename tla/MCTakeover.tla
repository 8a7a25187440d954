----------------------------- MODULE MCTakeover -----------------------------
(* One conversation; the .cfg files choose how many customer events, agent   *)
(* replies and faults it meets.                                              *)
EXTENDS Takeover
=============================================================================
