---------------------------- MODULE MCIdleTimer -----------------------------
(* IdleTimer as TLC runs it: the module itself, with its bounds as the only *)
(* constants.                                                               *)
EXTENDS IdleTimer
=============================================================================
