--------------------------- MODULE MCHumanHandoff ---------------------------
(* HumanHandoff with leases that outlive the work and many faults, and with  *)
(* leases that run out under a living worker.                                *)
EXTENDS HumanHandoff

MCSetups == {[leaseOutlivesWork |-> TRUE, maxFaults |-> 5],
             [leaseOutlivesWork |-> FALSE, maxFaults |-> 2]}
=============================================================================
