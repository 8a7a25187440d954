--------------------------- MODULE MCInboundQueue ---------------------------
(* Two gateway workers; chat a receives two customer events and an agent     *)
(* event that is stored as ignored, chat b receives one customer event.      *)
EXTENDS InboundQueue, TLC

CONSTANTS k1, k2, k3, k4, a, b, w1, w2

MCKeys == {k1, k2, k3, k4}
MCChats == {a, b}
MCChatOf == (k1 :> a) @@ (k2 :> a) @@ (k3 :> a) @@ (k4 :> b)
MCIgnored == {k3}
MCWorkers == {w1, w2}
=============================================================================
