--------------------------- MODULE BackendDispute ---------------------------
(***************************************************************************)
(* The backend conclusion a conversation remembers and the customer's      *)
(* disputes of it, as functions on slot_memory                             *)
(* (workflows/backend_dispute_escalation.py).  A conclusion is its         *)
(* fingerprint, "none" when there is none; event ids are positive numbers  *)
(* and 0 stands for a key that is absent.  The memory m has the fields     *)
(* conclusion, dCount, dEvent, recheck, origin, queued and qEvent.         *)
(*                                                                         *)
(* An operator X_Suffix before X is a plausible bug of X; nothing uses it. *)
(***************************************************************************)
EXTENDS Naturals

\* success with a reply intent of AUTHORITATIVE_REPLY_INTENTS: only these results
\* carry a fingerprint that can be disputed.
_is_authoritative_result(result) ==
    result.status = "success" /\ result.fingerprint # "none"

apply_backend_conclusion(m, result) ==
    IF ~_is_authoritative_result(result) THEN m
    ELSE IF m.conclusion = result.fingerprint THEN m
    ELSE [m EXCEPT !.conclusion = result.fingerprint, !.dCount = 0, !.dEvent = 0]

\* The customer disputes the conclusion with event `ev`.  While a recheck is
\* pending the dispute is only queued; otherwise it is counted, once per event.
evaluate_backend_dispute_NeverTwice(m, ev) ==
    LET counted == [m EXCEPT !.dCount = 1, !.dEvent = ev]
    IN  [memory |-> counted, should_handoff |-> counted.dCount >= 2, waiting |-> FALSE]

evaluate_backend_dispute(m, ev) ==
    IF m.recheck
    THEN [memory |-> [m EXCEPT !.queued = TRUE, !.qEvent = ev],
          should_handoff |-> FALSE, waiting |-> TRUE]
    ELSE LET counted == IF m.dEvent = ev THEN m
                        ELSE [m EXCEPT !.dCount = @ + 1, !.dEvent = ev]
         IN  [memory |-> counted, should_handoff |-> counted.dCount >= 2, waiting |-> FALSE]

mark_backend_recheck_pending(m) ==
    [m EXCEPT !.recheck = TRUE, !.origin = m.conclusion, !.queued = FALSE, !.qEvent = 0]

\* The memory after a result, and whether the queued dispute now goes to a human.
resolve_backend_recheck(m, result) ==
    LET applied == apply_backend_conclusion(m, result)
        same    == m.recheck /\ m.origin # "none" /\ applied.conclusion = m.origin
        handoff == same /\ m.queued
        cleared == [applied EXCEPT !.recheck = FALSE, !.origin = "none",
                                   !.queued = FALSE, !.qEvent = 0]
    IN  [memory |-> IF handoff /\ applied.dCount < 2 THEN [cleared EXCEPT !.dCount = 2]
                    ELSE cleared,
         should_handoff |-> handoff]

\* The keys resolve_backend_recheck and clear_backend_dispute_memory drop.
clear_backend_dispute_memory(m) ==
    [m EXCEPT !.dCount = 0, !.dEvent = 0, !.recheck = FALSE, !.origin = "none",
              !.queued = FALSE, !.qEvent = 0]
=============================================================================
