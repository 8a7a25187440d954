---------------------------- MODULE SopWorkflow ----------------------------
(***************************************************************************)
(* The standard operating procedures of the assistant (src/app/workflows): *)
(* collecting what a money case needs, sending it to the staff's Telegram  *)
(* group, querying the backend, and what a message means while an answer   *)
(* is awaited.  Every operator maps the state of a turn to the next one.   *)
(*                                                                         *)
(* A turn state s is a record: ev (number of the customer event), kind     *)
(* ("text" or "file"), raw and says (the patterns matched by the text the  *)
(* customer wrote and by its rewritten form), identity (the user name or   *)
(* phone in the text), image (what the attached picture is), status,       *)
(* active (workflow), stage, slots (slot_memory), route, intent, relation, *)
(* cases and matched (the cases of other threads the text may be about and *)
(* the one it is about) and cmds (the external commands of the turn).  A   *)
(* plan is what slot extraction yields: with the LLM's planner (llm) or by *)
(* the patterns.                                                           *)
(* Reply texts, templates and reply plans are left out.                    *)
(*                                                                         *)
(* An operator X_Suffix before X is a plausible bug of X; nothing uses it. *)
(***************************************************************************)
EXTENDS Naturals, FiniteSets, BackendDispute

MoneySops == {"deposit_missing", "withdrawal_missing"}
Blocked   == "withdrawal_blocked_or_rollover"
Lookup    == "pending_reply_lookup"

\* Stages in which a message is about an answer that is awaited (sop_node).
AwaitingStages == {"waiting_backend", "backend_querying", "backend_replied",
                   "waiting_customer_supplement"}

\* slot_memory of a conversation nobody has written to.  receipt, deposit and
\* withdrawal name the SOP for which the picture in receipt_screenshot,
\* deposit_screenshot and withdrawal_screenshot was collected.
NoSlots ==
    [conclusion |-> "none", dCount |-> 0, dEvent |-> 0, recheck |-> FALSE,
     origin |-> "none", queued |-> FALSE, qEvent |-> 0,
     identity |-> "none", amount |-> FALSE, receipt |-> "none", deposit |-> "none", withdrawal |-> "none",
     lookup |-> "none", case |-> 0, resolvedAt |-> 0, confirmed |-> FALSE,
     staff |-> "none", waits |-> 0, menuStuck |-> 0, image |-> "none",
     nfCount |-> 0, nfValue |-> "none", failCount |-> 0, handoffReq |-> FALSE,
     fresh |-> TRUE]

RulesPlan == [llm |-> FALSE, identity |-> TRUE, relation |-> "current_sop_supplement"]

--------------------------------------------------------------------------------
(* Slots *)

Shot(intent) == IF intent = "deposit_missing" THEN "deposit" ELSE "withdrawal"

Opposite(intent) == IF intent = "deposit_missing" THEN "withdrawal" ELSE "deposit"

\* A picture counts for a money SOP unless it was recognised as the other kind.
_verified_receipt_attachment(s, intent) ==
    intent \in MoneySops /\ s.image \notin {"none", Opposite(intent)}

\* The patterns read the text; the planner may overlook what the text says.
TakesIdentity(s, plan) == s.identity # "none" /\ (~plan.llm \/ plan.identity)

\* extract_sop_slots replaces the SOP's own screenshot, the LLM's plan keeps it.
WithAttachment(s, intent, plan, slots) ==
    IF ~_verified_receipt_attachment(s, intent) THEN slots
    ELSE [slots EXCEPT
            ![Shot(intent)] = IF ~plan.llm \/ @ = "none" THEN intent ELSE @,
            !.receipt = IF @ = "none" THEN intent ELSE @]

_sync_legacy_aliases(intent, slots) ==
    LET shot == Shot(intent)
    IN  IF slots.receipt # "none"
        THEN [slots EXCEPT ![shot] = IF @ = "none" THEN slots.receipt ELSE @]
        ELSE [slots EXCEPT !.receipt = slots[shot]]

\* slot_memory and whether any slot was updated.
plan_sop_dialogue_from_state(s, intent, plan) ==
    LET named == IF TakesIdentity(s, plan)
                 THEN [s.slots EXCEPT !.identity = s.identity] ELSE s.slots
        counted  == [named EXCEPT !.amount = @ \/ "amount" \in s.says]
        pictured == WithAttachment(s, intent, plan, counted)
    IN  [slots   |-> _sync_legacy_aliases(intent, pictured),
         updated |-> \/ TakesIdentity(s, plan)
                     \/ "amount" \in s.says
                     \/ _verified_receipt_attachment(s, intent)]

compute_missing_slots(intent, slots) ==
    (IF slots.identity = "none" THEN {"account_or_phone"} ELSE {})
    \cup (IF intent \in MoneySops /\ slots.receipt = "none" /\ slots[Shot(intent)] = "none"
          THEN {"receipt_screenshot"} ELSE {})

--------------------------------------------------------------------------------
(* Policy: what a money SOP does next while it collects *)

evaluate_sop_policy_NoCaseCheck(s, intent, slots) ==
    CASE compute_missing_slots(intent, slots) # {} -> "ask_missing_slots"
      [] OTHER -> "send_telegram_case"

evaluate_sop_policy(s, intent, slots) ==
    CASE compute_missing_slots(intent, slots) # {} -> "ask_missing_slots"
      [] compute_missing_slots(intent, slots) = {} /\ slots.case # 0 -> "waiting_followup"
      [] OTHER -> IF s.active \notin {"none", intent} THEN "blocked" ELSE "send_telegram_case"

Command(type, intent, slots) ==
    [type |-> type, intent |-> intent, identity |-> slots.identity,
     shot |-> IF intent \in MoneySops THEN slots[Shot(intent)] ELSE "none",
     case |-> slots.case]

_money_missing_sop(s, intent, plan) ==
    LET slots  == plan_sop_dialogue_from_state(s, intent, plan).slots
        sends  == evaluate_sop_policy(s, intent, slots) = "send_telegram_case"
        next   == [s EXCEPT !.slots = slots, !.active = intent]
    IN  IF sends
        THEN [next EXCEPT !.status = "WAITING_EXTERNAL", !.stage = "waiting_backend",
                          !.cmds = {Command("card", intent, slots)}]
        ELSE [next EXCEPT !.stage = "collecting_slots", !.cmds = {}]

\* The identity is taken from the raw text.
_withdrawal_blocked_sop(s) ==
    LET slots == IF s.identity # "none" THEN [s.slots EXCEPT !.identity = s.identity]
                 ELSE s.slots
        next  == [s EXCEPT !.slots = slots, !.active = Blocked]
        asks  == \/ "wallet_change" \in s.says /\ s.identity = "none"
                 \/ slots.identity = "none"
    IN  IF asks
        THEN [next EXCEPT !.stage = "collecting_slots", !.cmds = {}]
        ELSE [next EXCEPT !.status = "WAITING_EXTERNAL", !.stage = "backend_querying",
                          !.cmds = {Command("query", Blocked, slots)}]

_pending_reply_lookup_sop(s) ==
    LET slots == IF s.identity # "none" THEN [s.slots EXCEPT !.lookup = s.identity]
                 ELSE s.slots
        next  == [s EXCEPT !.slots = slots, !.active = Lookup]
    IN  IF slots.lookup = "none"
        THEN [next EXCEPT !.stage = "collecting_slots", !.cmds = {}]
        ELSE [next EXCEPT !.status = "WAITING_EXTERNAL", !.stage = "lookup_pending_reply",
                          !.cmds = {Command("lookup", Lookup, slots)}]

run_sop(s, plan) ==
    CASE s.intent \in MoneySops -> _money_missing_sop(s, s.intent, plan)
      [] s.intent = Blocked     -> _withdrawal_blocked_sop(s)
      [] s.intent = Lookup      -> _pending_reply_lookup_sop(s)
      [] OTHER                  -> s

--------------------------------------------------------------------------------
(* A message while an answer is awaited *)

\* The event occurred before staff closed the case and is handled after it.
_is_delayed_supplement_for_resolved_case(s, slots) ==
    slots.resolvedAt # 0 /\ s.ev < slots.resolvedAt

\* "resolved": the customer says so, or an answer in the recent messages did.
has_workflow_resolution_signal(s, slots) ==
    "resolved" \in s.says \/ slots.staff = "resolution"

_resolved_state(s, slots) ==
    [s EXCEPT !.slots = [slots EXCEPT !.confirmed = TRUE], !.active = "none",
              !.stage = "completed", !.cmds = {}]

_delayed_resolved_supplement_state(s, slots) ==
    [s EXCEPT !.slots = slots, !.active = "none", !.stage = "completed", !.cmds = {}]

\* _acknowledgement_state and _contextual_followup_state
Acknowledged(s, slots) == [s EXCEPT !.slots = slots, !.cmds = {}]

_waiting_followup_state(s, slots) ==
    [s EXCEPT !.slots = slots, !.stage = "waiting_backend", !.cmds = {}]

_backend_query_state(s, slots) ==
    [s EXCEPT !.slots = slots, !.status = "WAITING_EXTERNAL", !.active = Blocked,
              !.stage = "backend_querying", !.cmds = {Command("query", Blocked, slots)}]

_build_handoff_state(s, slots) ==
    [s EXCEPT !.slots = slots, !.status = "HANDOFF_REQUESTED",
              !.cmds = {Command("handoff", s.active, slots)}]

AppendToCase(s, slots) ==
    [s EXCEPT !.slots = slots, !.stage = "waiting_backend",
              !.cmds = {Command("append", s.active, slots)}]

\* "contact" with a phone number names the phone, which the planner may overlook.
_merge_waiting_customer_supplement(s, slots) ==
    IF /\ s.stage = "waiting_customer_supplement" \/ slots.staff = "ask_customer"
       /\ "contact" \in s.says /\ s.identity # "none"
    THEN [slots EXCEPT !.identity = s.identity] ELSE slots

\* The case of another thread is continued here; its staff are reminded once.
_money_case_followup_state(s, slots) ==
    LET case == CHOOSE k \in s.matched : TRUE
    IN  [s EXCEPT !.slots = slots, !.active = case.intent, !.stage = "waiting_backend",
                  !.cmds = {[Command("remind", case.intent, slots) EXCEPT !.case = case.ev]}]

\* What the rest of handle_waiting_backend does with information for the case.
Supplemented(s, slots, human) ==
    IF s.active = Blocked /\ slots.identity # "none" THEN _backend_query_state(s, slots)
    ELSE IF slots.case # 0 THEN AppendToCase(s, slots)
    ELSE IF human THEN _build_handoff_state(s, slots)
    ELSE _waiting_followup_state(s, slots)

\* ... and with a message that brings nothing.  The second complaint about
\* the wait goes to a human.
NothingNew(s, slots, human) ==
    LET waits == [slots EXCEPT !.waits = @ + 1]
    IN  IF human THEN _build_handoff_state(s, slots)
        ELSE IF slots.recheck THEN _waiting_followup_state(s, slots)
        ELSE IF "complains_of_wait" \notin s.says THEN _waiting_followup_state(s, slots)
        ELSE IF waits.waits >= 2 THEN _build_handoff_state(s, waits)
        ELSE _waiting_followup_state(s, waits)

handle_waiting_backend(s, plan) ==
    LET planned  == plan_sop_dialogue_from_state(s, s.active, plan)
        slots    == planned.slots
        merged   == _merge_waiting_customer_supplement(s, slots)
        relation == IF s.relation # "none" THEN s.relation ELSE plan.relation
        human    == relation = "human_request" \/ "human" \in s.says
        supplement == \/ planned.updated
                      \/ "contact" \in s.says
                      \/ plan.llm /\ relation = "current_sop_supplement"
    IN  IF _is_delayed_supplement_for_resolved_case(s, slots)
        THEN _delayed_resolved_supplement_state(s, slots)
        ELSE IF /\ relation = "current_workflow_resolution"
                /\ has_workflow_resolution_signal(s, slots)
        THEN _resolved_state(s, slots)
        ELSE IF relation \in {"acknowledgement", "contextual_followup"}
                \/ s.says \cap {"ack", "offers_name"} # {}
        THEN Acknowledged(s, slots)
        ELSE IF s.matched # {} THEN _money_case_followup_state(s, merged)
        ELSE IF supplement THEN Supplemented(s, merged, human)
        ELSE NothingNew(s, merged, human)
=============================================================================
