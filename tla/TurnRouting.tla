---------------------------- MODULE TurnRouting ----------------------------
(***************************************************************************)
(* One turn of the assistant: the gateway's fast paths for menu buttons    *)
(* and the workflow graph (rewrite, intent router, SOP / FAQ / care /      *)
(* handoff nodes, final reply) as functions from the state of a turn to    *)
(* the state and the commands that are committed.                          *)
(*                                                                         *)
(* A text is the set of the patterns it matches.  The LLM router may       *)
(* answer anything; what the guardrails refuse falls back to the rules.    *)
(* `cases` are the open money cases of the chat's other threads that the   *)
(* text may be about.                                                      *)
(*                                                                         *)
(* An operator X_Suffix before X is a plausible bug of X; nothing uses it. *)
(***************************************************************************)
EXTENDS Naturals, Sequences, FiniteSets, FiniteSetsExt, SopWorkflow

CANONICAL_FAQ_INTENTS == {"deposit_howto", "withdrawal_howto", "forgot_password_howto",
                          "screenshot_upload_howto"}

ACTIVE_WORKFLOW_GUARD_STAGES == {"waiting_backend", "backend_querying", "backend_replied",
                                 "collecting_slots", "lookup_pending_reply"}

FINAL_REPLY_INTENTS == {"acknowledgement", "contextual_followup", "casual_chat",
                        "conversation_memory_lookup", "clarification_needed",
                        "unsupported_concrete_issue"}

BUSINESS_BUTTON_ROUTES ==
    [main_deposito      |-> [intent |-> "deposit_missing", route |-> "sop"],
     main_retiro        |-> [intent |-> "withdrawal_missing", route |-> "sop"],
     withdrawal_blocked |-> [intent |-> Blocked, route |-> "sop"],
     main_pending_reply |-> [intent |-> Lookup, route |-> "sop"],
     deposit_howto      |-> [intent |-> "deposit_howto", route |-> "faq"],
     withdrawal_howto   |-> [intent |-> "withdrawal_howto", route |-> "faq"],
     forgot_password    |-> [intent |-> "forgot_password_howto", route |-> "faq"],
     global_human       |-> [intent |-> "explicit_human_request", route |-> "human_handoff"]]

--------------------------------------------------------------------------------
(* The state of a turn *)

\* What the graph starts from.  Once a turn was committed, slot_memory holds
\* at least the reply language.
build_graph_state_from_event(m, ev, conversation, cases) ==
    [ev |-> ev, kind |-> m.kind, raw |-> m.raw, says |-> m.raw, identity |-> m.identity,
     image |-> m.image, status |-> conversation.status, active |-> conversation.active,
     stage |-> conversation.stage, slots |-> [conversation.slots EXCEPT !.fresh = FALSE],
     cases |-> cases, matched |-> {},
     route |-> "none", intent |-> "none", relation |-> "none", cmds |-> {}]

\* ... and the gateway's fast paths: no status, no attachments, no candidates.
_base_pre_graph_state(m, ev, conversation) ==
    [build_graph_state_from_event(m, ev, conversation, {})
        EXCEPT !.status = "none", !.image = "none"]

\* A route to another intent than the conclusion's forgets the disputes.
_with_route(s, intent, route, relation) ==
    [s EXCEPT !.intent = intent, !.route = route, !.relation = relation,
              !.slots = IF /\ route # "human_handoff"
                           /\ s.slots.conclusion # "none"
                           /\ intent # Blocked
                        THEN clear_backend_dispute_memory(@) ELSE @]

_final_reply_route(s, intent, relation) == _with_route(s, intent, "final_reply", relation)

\* A table is read from the top: the first row whose pattern the text matches.
Matches(table, says) == \E i \in DOMAIN table : table[i].says \in says

FirstMatch(table, says) == table[Min({i \in DOMAIN table : table[i].says \in says})]

RouteOf(s, table) ==
    LET row == FirstMatch(table, s.says) IN _with_route(s, row.intent, row.route, "none")

\* The LLM rephrases the text; without it, or when it is not sure, the text
\* stays as it is.
rewrite_question_node(s, rewritten) == [s EXCEPT !.says = rewritten]

--------------------------------------------------------------------------------
(* Guards that come before any classification *)

_clear_backend_dispute_on_acceptance(s) ==
    IF "accepts" \in s.says
    THEN [s EXCEPT !.slots = clear_backend_dispute_memory(@)] ELSE s

DisputesConclusion(s) == s.slots.conclusion # "none" /\ "disputes" \in s.raw

_recent_backend_result_dispute_route(s) ==
    LET evaluation == evaluate_backend_dispute(s.slots, s.ev)
        memory     == IF evaluation.waiting THEN evaluation.memory
                      ELSE mark_backend_recheck_pending(evaluation.memory)
    IN  IF evaluation.should_handoff
        THEN _with_route([s EXCEPT !.slots = evaluation.memory],
                         "backend_conclusion_disputed_repeated", "human_handoff",
                         "human_escalation")
        ELSE _with_route([s EXCEPT !.slots = memory], Blocked, "sop", "current_sop_followup")

\* Within a day of the resolution; a day never ends here.
DisputesResolution(s) ==
    /\ ~s.slots.confirmed
    /\ s.slots.resolvedAt # 0 /\ s.ev >= s.slots.resolvedAt
    /\ "still_missing" \in s.says

_recent_authoritative_result_dispute_route(s) ==
    _with_route(s, "authoritative_result_disputed", "human_handoff", "human_escalation")

HumanRequest(s) == _with_route(s, "explicit_human_request", "human_handoff", "none")

MemoryLookup(s) == _final_reply_route(s, "conversation_memory_lookup", "contextual_followup")

ForgotPasswordFailed(s) ==
    /\ s.active = "forgot_password_howto" /\ s.stage = "awaiting_password_reset_result"
    /\ \/ s.kind = "file" /\ s.image # "none"
       \/ "still_cannot_log_in" \in s.says

_forgot_password_followup_route(s) ==
    _with_route(s, "forgot_password_followup_failed", "human_handoff", "human_escalation")

--------------------------------------------------------------------------------
(* A money case of another thread *)

\* "follows_up": still not received; "received": it has arrived.
AsksAfterCase(s) == s.cases # {} /\ s.says \cap {"follows_up", "received"} # {}

\* The one case the message is about, as a set: the only candidate, or the one
\* the row inherited.  An order number in the text leaves one candidate.
resolve_money_case_followup(s) ==
    IF Cardinality(s.cases) = 1 THEN s.cases ELSE {k \in s.cases : k.ev = s.slots.case}

_cross_thread_money_case_route(s) ==
    LET case == CHOOSE k \in s.cases : k \in resolve_money_case_followup(s)
        confirmed == "follows_up" \notin s.says
    IN  IF resolve_money_case_followup(s) = {}
        THEN _final_reply_route(s, "money_case_followup_ambiguous", "none")
        ELSE [_with_route(s, case.intent, "sop",
                          IF confirmed THEN "current_workflow_resolution"
                          ELSE "current_sop_supplement")
                 EXCEPT !.active = case.intent, !.stage = "waiting_backend",
                        !.matched = {case}]

--------------------------------------------------------------------------------
(* Pictures without words *)

ImageCandidate(s) ==
    s.active = "none" /\ s.kind = "file" /\ s.says = {} /\ s.identity = "none"
        /\ s.image # "none"

_image_candidate_only_route(s) ==
    [s EXCEPT !.route = "final_reply", !.intent = "image_candidate", !.active = "none",
              !.slots.image = IF s.image \in {"deposit", "withdrawal"} THEN s.image ELSE @]

\* The candidate stays in slot_memory after it was promoted.
Promotable(s) ==
    /\ s.active = "none" /\ s.slots.image # "none"
    /\ s.says \cap {"confirms", "amount"} # {} \/ s.identity # "none"

_promote_pending_image_candidate_route(s) ==
    LET intent == IF s.slots.image = "deposit" THEN "deposit_missing" ELSE "withdrawal_missing"
    IN  _with_route([s EXCEPT !.slots = [@ EXCEPT !.receipt = intent, ![s.slots.image] = intent]],
                    intent, "sop", "current_workflow_supplement")

--------------------------------------------------------------------------------
(* The rules *)

Mentions(s) == s.says \cap {"deposit", "withdrawal"}

_is_cross_workflow_business_object(s) ==
    s.active \in MoneySops /\ Mentions(s) = {Opposite(s.active)}

FaqTable ==
    <<[says |-> "asks_deposit",    intent |-> "deposit_howto", route |-> "faq"],
      [says |-> "asks_withdrawal", intent |-> "withdrawal_howto", route |-> "faq"],
      [says |-> "forgot_password", intent |-> "forgot_password_howto", route |-> "faq"],
      [says |-> "asks_upload",     intent |-> "screenshot_upload_howto", route |-> "faq"]>>

SopTable ==
    <<[says |-> "previous_case",         intent |-> Lookup, route |-> "sop"],
      [says |-> "deposit_missing",       intent |-> "deposit_missing", route |-> "sop"],
      [says |-> "withdrawal_missing",    intent |-> "withdrawal_missing", route |-> "sop"],
      [says |-> "withdrawal_blocked",    intent |-> Blocked, route |-> "sop"]>>

\* What only staff can settle; the intent is named after the pattern.
ToStaff(topic) == [says |-> topic, intent |-> topic, route |-> "human_handoff"]

_auto_handoff_route ==
    <<ToStaff("screenshot_upload_failed"), ToStaff("wallet_identity_risk"),
      ToStaff("account_verification_issue"), ToStaff("promo_refund_unsupported"),
      ToStaff("game_technical_issue"), ToStaff("abuse_or_fraud_risk"),
      ToStaff("tutorial_failed_aftercare")>>

ManualTable ==
    <<ToStaff("account_access_issue"), ToStaff("account_profile_or_wallet_change"),
      [says |-> "frustrated",     intent |-> "service_frustration", route |-> "emotion_care"],
      [says |-> "abusive",        intent |-> "abusive_or_emotional", route |-> "emotion_care"]>>

_active_workflow_conflict_has_data(s) ==
    /\ s.active # "none" /\ s.stage \in ACTIVE_WORKFLOW_GUARD_STAGES
    /\ ~Matches(FaqTable, s.says)
    /\ _is_cross_workflow_business_object(s)
    /\ \/ s.image # "none"
       \/ s.slots.amount \/ s.slots.identity # "none" \/ s.slots.case # 0
       \/ {s.slots.receipt, s.slots.deposit, s.slots.withdrawal} # {"none"}

Clarify(s, relation) == _final_reply_route(s, "clarification_needed", relation)

NewWorkflow(s) ==
    /\ Matches(SopTable \o ManualTable, s.says)
    /\ FirstMatch(SopTable \o ManualTable, s.says).intent # s.active

_is_current_workflow_supplement(s) ==
    \/ s.image # "none" /\ s.active \in MoneySops
    \/ s.identity # "none"
    \/ s.says \cap {"amount", "contact", s.active} # {}

\* A message in the middle of a workflow, when the LLM is of no help.
_active_workflow_deterministic_route(s) ==
    IF "ack" \in s.says
    THEN _final_reply_route(s, "acknowledgement", "acknowledgement")
    ELSE IF s.says \cap {"offers_name", "asks_rollover"} # {}
    THEN _final_reply_route(s, "contextual_followup", "contextual_followup")
    ELSE IF Matches(FaqTable, s.says)
    THEN _with_route(s, FirstMatch(FaqTable, s.says).intent, "faq", "independent_faq")
    ELSE IF _is_cross_workflow_business_object(s) \/ NewWorkflow(s)
    THEN Clarify(s, "new_workflow_request")
    ELSE IF _is_current_workflow_supplement(s)
    THEN _with_route(s, s.active, "sop", "current_workflow_supplement")
    ELSE Clarify(s, "unclear")

MenuHelp(s) ==
    LET counted == [s EXCEPT !.slots.menuStuck = @ + 1]
    IN  IF counted.slots.menuStuck >= 2
        THEN _with_route(counted, "menu_stuck_repeated", "human_handoff", "none")
        ELSE Clarify(counted, "none")

\* The rules alone.
intent_router_node(t) ==
    LET s == _clear_backend_dispute_on_acceptance(t)
    IN  IF ForgotPasswordFailed(t) THEN _forgot_password_followup_route(t)
        ELSE IF DisputesConclusion(s) THEN _recent_backend_result_dispute_route(s)
        ELSE IF DisputesResolution(s) THEN _recent_authoritative_result_dispute_route(s)
        ELSE IF "human" \in s.says THEN HumanRequest(s)
        ELSE IF AsksAfterCase(s) THEN _cross_thread_money_case_route(s)
        ELSE IF Promotable(s) THEN _promote_pending_image_candidate_route(s)
        ELSE IF ImageCandidate(s) THEN _image_candidate_only_route(s)
        ELSE IF _active_workflow_conflict_has_data(s)
        THEN _with_route(s, "active_workflow_conflict_with_data", "human_handoff",
                         "human_escalation")
        ELSE IF Matches(_auto_handoff_route, s.says) THEN RouteOf(s, _auto_handoff_route)
        ELSE IF "recalls" \in s.says THEN MemoryLookup(s)
        ELSE IF s.active # "none" /\ s.stage \in ACTIVE_WORKFLOW_GUARD_STAGES
        THEN _active_workflow_deterministic_route(s)
        ELSE IF Matches(SopTable \o FaqTable \o ManualTable, s.says)
        THEN RouteOf(s, SopTable \o FaqTable \o ManualTable)
        ELSE IF "lost_in_menu" \in s.says THEN MenuHelp(s)
        ELSE IF "ack" \in s.says /\ s.active = "none" /\ s.stage = "none" /\ s.kind = "text"
        THEN _final_reply_route(s, "casual_chat", "none")
        ELSE Clarify(s, "none")

--------------------------------------------------------------------------------
(* The LLM's decision and its guardrails *)

_validate_workflow_relation(s, d) ==
    s.active # "none" =>
        d.relation \in {"current_workflow_supplement", "current_workflow_resolution",
                        "independent_faq", "new_workflow_request", "human_escalation",
                        "acknowledgement", "contextual_followup", "unclear"}

\* What each relation to the active workflow demands of the route and intent.
RelationContract(s, d) ==
    LET keeps == d.preserve
        about == d.route = "sop" /\ d.intent = s.active /\ ~_is_cross_workflow_business_object(s)
        reply(intent) == d.route = "final_reply" /\ d.intent = intent /\ keeps
    IN  CASE d.relation = "current_workflow_supplement" -> about
          [] d.relation = "current_workflow_resolution" -> about /\ ~keeps
          [] d.relation = "independent_faq"      -> d.route = "faq" /\ keeps
          [] d.relation = "new_workflow_request" -> reply("clarification_needed")
          [] d.relation = "human_escalation"     -> d.route = "human_handoff"
          [] d.relation = "acknowledgement"      -> reply("acknowledgement")
          [] d.relation = "contextual_followup"  -> reply("contextual_followup")
          [] d.relation = "unclear"              -> d.route = "final_reply" /\ keeps
          [] OTHER -> FALSE

validate_intent_classification_output_Lenient(s, d) ==
    \/ d.route = "human_handoff"
    \/ d.route \in {"sop", "faq", "final_reply"}

validate_intent_classification_output(s, d) ==
    /\ d.route \in {"sop", "faq", "human_handoff", "emotion_care", "final_reply"}
    /\ d.route = "faq" => d.intent \in CANONICAL_FAQ_INTENTS
    /\ d.route = "final_reply" => d.intent \in FINAL_REPLY_INTENTS
    /\ _validate_workflow_relation(s, d)
    /\ s.active # "none" =>
          /\ \/ d.preserve
             \/ d.route = "human_handoff"
             \/ d.relation = "current_workflow_resolution"
          /\ RelationContract(s, d)

\* d is the LLM's answer, confident or not.
make_intent_router_node(t, d) ==
    LET s == _clear_backend_dispute_on_acceptance(t)
    IN  IF DisputesConclusion(s) THEN _recent_backend_result_dispute_route(s)
        ELSE IF DisputesResolution(s) THEN _recent_authoritative_result_dispute_route(s)
        ELSE IF "human" \in s.raw THEN HumanRequest(s)
        ELSE IF s.kind = "file" /\ s.active = "none" /\ s.raw = {} THEN intent_router_node(s)
        ELSE IF "recalls" \in s.says THEN MemoryLookup(s)
        ELSE IF AsksAfterCase(s) THEN _cross_thread_money_case_route(s)
        ELSE IF d.confident /\ validate_intent_classification_output(s, d)
        THEN [s EXCEPT !.intent = d.intent, !.route = d.route,
                       !.relation = IF s.active = "none" THEN "none" ELSE d.relation]
        ELSE intent_router_node(s)

--------------------------------------------------------------------------------
(* The nodes *)

sop_node(s, plan) ==
    IF \/ /\ s.active # "none"
          /\ "current_workflow_resolution" \in
                 {s.relation} \cup (IF plan.llm THEN {plan.relation} ELSE {})
          /\ has_workflow_resolution_signal(s, s.slots)
       \/ s.stage \in AwaitingStages
    THEN handle_waiting_backend(s, plan)
    ELSE run_sop(s, plan)

\* A FAQ answer drops the workflow, also while a case is open.
rag_node(s) ==
    IF s.intent = "forgot_password_howto"
    THEN [s EXCEPT !.active = "forgot_password_howto",
                   !.stage = "awaiting_password_reset_result"]
    ELSE IF s.active # "none" THEN [s EXCEPT !.active = "none", !.stage = "none"]
    ELSE s

\* human_handoff_node, _build_fast_handoff_state and, when the final reply
\* fails for good, _build_ai_service_failure_handoff_state: whatever the turn
\* was about to do, its only command is now the handoff.
human_handoff_node(s) ==
    [s EXCEPT !.status = "HANDOFF_REQUESTED", !.active = "human_handoff",
              !.stage = "handoff_requested",
              !.cmds = {Command("handoff", "human_handoff", s.slots)}]

\* Slot extraction by the LLM runs for money SOPs that are not waiting.
_should_run_sop_slot_extraction(s) ==
    s.intent \in MoneySops /\ s.stage \notin {"waiting_backend", "backend_querying"}

run_graph(s, rewritten, d, plan) ==
    LET routed == make_intent_router_node(rewrite_question_node(s, rewritten), d)
    IN  CASE routed.route = "sop" ->
                sop_node(routed, IF _should_run_sop_slot_extraction(routed) THEN plan
                                 ELSE RulesPlan)
          [] routed.route = "faq" -> rag_node(routed)
          [] routed.route = "human_handoff" -> human_handoff_node(routed)
          [] OTHER -> routed

--------------------------------------------------------------------------------
(* The gateway around the graph *)

\* Business buttons call run_sop directly: the stage is not looked at.
_build_business_button_state(s, button) ==
    LET row    == BUSINESS_BUTTON_ROUTES[button]
        routed == [s EXCEPT !.intent = row.intent, !.route = row.route]
    IN  CASE row.route = "sop" -> run_sop(routed, RulesPlan)
          [] row.route = "faq" -> rag_node(routed)
          [] OTHER -> human_handoff_node(routed)

_build_ai_service_failure_handoff_state(s) == human_handoff_node(s)

\* The state committed for event ev with message m, read as `conversation`.
process_event(m, ev, conversation, cases, d, plan, finalReplyFails) ==
    LET answered == IF m.button \in DOMAIN BUSINESS_BUTTON_ROUTES
                    THEN _build_business_button_state(
                             _base_pre_graph_state(m, ev, conversation), m.button)
                    ELSE run_graph(build_graph_state_from_event(m, ev, conversation, cases),
                                   m.says, d, plan)
    IN  IF finalReplyFails THEN _build_ai_service_failure_handoff_state(answered) ELSE answered
=============================================================================
