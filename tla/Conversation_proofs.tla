------------------------- MODULE Conversation_proofs -------------------------
(***************************************************************************)
(* Proofs about Conversation for every set of messages, whatever the LLM   *)
(* router and the planner answer, for every number of messages, crashes    *)
(* and staff replies: what a turn of the assistant may do to the row it    *)
(* was computed from, what that means for rows that are written from an    *)
(* older read, and what a row remembers of the disputes of its conclusion. *)
(***************************************************************************)
EXTENDS Conversation, FiniteSetTheorems, WellFoundedInduction, TLAPS

-----------------------------------------------------------------------------
(* Rows and turns *)

SlotNames == DOMAIN NoSlots

\* Every slot is there; a picture that waits for its case is a receipt.
IsSlots(m) == DOMAIN m = SlotNames /\ m.image \in {"none", "deposit", "withdrawal"}

\* What becomes of slot_memory on the way of a turn.
KeepsCase(m, n) == IsSlots(n) /\ n.case = m.case /\ n.fresh = m.fresh

IsRow(row) == row.status \in Statuses /\ IsSlots(row.slots)

TurnFields == {"ev", "kind", "raw", "says", "identity", "image", "status", "active", "stage",
               "slots", "route", "intent", "relation", "cases", "matched", "cmds"}

\* A turn that has been computed from the row: the case and what is known of
\* it stay, whatever else is remembered.
TurnOf(s, row) ==
    /\ DOMAIN s = TurnFields
    /\ IsSlots(s.slots) /\ s.slots.case = row.slots.case /\ s.slots.fresh = FALSE

\* A turn that has been routed and no further.
Routed(s, row) ==
    /\ TurnOf(s, row)
    /\ s.status \in {"none", row.status} /\ s.active = row.active /\ s.stage = row.stage
    /\ s.cmds = {}
    /\ \A k \in s.matched : k.intent = row.active /\ k.intent \in MoneySops

\* A row as it is seen by a message about a case of another thread.
Moved(row, k) ==
    [status |-> row.status, active |-> k.intent, stage |-> "waiting_backend", slots |-> row.slots]

\* The cases are of money.
MoneyCases(s) == \A k \in s.cases : k.intent \in MoneySops

\* What turn s may go on from: its row, or one of the cases it asks after.
Origins(row, s) == {row} \cup {Moved(row, k) : k \in {x \in s.cases : AsksAfterCase(s)}}

\* A turn that may be committed: a human is asked for exactly when the status
\* says so, a query is sent when the stage newly says so, cards are of money, and
\* none is sent for a case that the row knows.
Sound(s, row) ==
    /\ TurnOf(s, row)
    /\ s.status \in {"none", row.status, "WAITING_EXTERNAL", "HANDOFF_REQUESTED"}
    /\ s.status = "HANDOFF_REQUESTED" <=> \E c \in s.cmds : c.type = "handoff"
    /\ s.stage = "backend_querying" =>
          row.stage = "backend_querying" \/ \E c \in s.cmds : c.type = "query"
    /\ (\E c \in s.cmds : c.type = "card") => row.slots.case = 0
    /\ \A c \in s.cmds : c.type = "card" => c.intent \in MoneySops

-----------------------------------------------------------------------------
(* slot_memory *)

\* The slots the proofs look at.
LEMMA KnownSlots ==
    /\ "case" \in SlotNames /\ "fresh" \in SlotNames /\ "image" \in SlotNames
    /\ "receipt" \in SlotNames /\ "deposit" \in SlotNames /\ "withdrawal" \in SlotNames
BY DEF SlotNames, NoSlots

\* The bookkeeping of disputes leaves the case alone (clear_backend_dispute_memory,
\* mark_backend_recheck_pending, evaluate_backend_dispute).
LEMMA DisputesKeepCase ==
    ASSUME NEW m, NEW ev, IsSlots(m)
    PROVE  /\ KeepsCase(m, clear_backend_dispute_memory(m))
           /\ KeepsCase(m, mark_backend_recheck_pending(m))
           /\ KeepsCase(m, evaluate_backend_dispute(m, ev).memory)
           /\ KeepsCase(m, mark_backend_recheck_pending(evaluate_backend_dispute(m, ev).memory))
<1>1. ASSUME NEW n, IsSlots(n) PROVE KeepsCase(n, mark_backend_recheck_pending(n))
  BY <1>1, KnownSlots DEF KeepsCase, IsSlots, mark_backend_recheck_pending
<1>2. KeepsCase(m, clear_backend_dispute_memory(m))
  BY KnownSlots DEF KeepsCase, IsSlots, clear_backend_dispute_memory
<1>3. KeepsCase(m, evaluate_backend_dispute(m, ev).memory)
  BY KnownSlots DEF KeepsCase, IsSlots, evaluate_backend_dispute
<1>4. KeepsCase(evaluate_backend_dispute(m, ev).memory,
                mark_backend_recheck_pending(evaluate_backend_dispute(m, ev).memory))
  BY <1>1, <1>3 DEF KeepsCase
<1>. QED  BY <1>1, <1>2, <1>3, <1>4 DEF KeepsCase

\* Collecting slots leaves the case alone (plan_sop_dialogue_from_state).
LEMMA CollectingKeepsCase ==
    ASSUME NEW s, NEW intent, NEW plan, IsSlots(s.slots)
    PROVE  KeepsCase(s.slots, plan_sop_dialogue_from_state(s, intent, plan).slots)
<1>. DEFINE told == IF TakesIdentity(s, plan)
                    THEN [s.slots EXCEPT !.identity = s.identity] ELSE s.slots
            named == [told EXCEPT !.amount = @ \/ "amount" \in s.says]
            pictured == WithAttachment(s, intent, plan, named)
            synced == _sync_legacy_aliases(intent, pictured)
<1>1. KeepsCase(s.slots, named)
  <2>1. ASSUME NEW n, IsSlots(n) PROVE KeepsCase(n, [n EXCEPT !.amount = @ \/ "amount" \in s.says])
    BY <2>1, KnownSlots DEF KeepsCase, IsSlots
  <2>2. ASSUME NEW n, IsSlots(n) PROVE KeepsCase(n, [n EXCEPT !.identity = s.identity])
    BY <2>2, KnownSlots DEF KeepsCase, IsSlots
  <2>. QED  BY <2>1, <2>2 DEF KeepsCase
<1>2. ASSUME NEW n, IsSlots(n) PROVE KeepsCase(n, WithAttachment(s, intent, plan, n))
  BY <1>2, KnownSlots DEF KeepsCase, IsSlots, WithAttachment, Shot
<1>3. ASSUME NEW n, IsSlots(n) PROVE KeepsCase(n, _sync_legacy_aliases(intent, n))
  BY <1>3, KnownSlots DEF KeepsCase, IsSlots, _sync_legacy_aliases, Shot
<1>4. plan_sop_dialogue_from_state(s, intent, plan).slots = synced
  BY DEF plan_sop_dialogue_from_state
<1>5. KeepsCase(named, pictured)
  <2>. HIDE DEF named
  <2>. QED  BY <1>1, <1>2 DEF KeepsCase
<1>6. KeepsCase(pictured, synced)
  <2>. HIDE DEF named, pictured
  <2>. QED  BY <1>3, <1>5 DEF KeepsCase
<1>. HIDE DEF named, pictured, synced
<1>. QED  BY <1>1, <1>4, <1>5, <1>6 DEF KeepsCase

-----------------------------------------------------------------------------
(* Routing *)

\* The fields of a turn the proofs look at.
LEMMA TurnKnown ==
    ASSUME NEW s, NEW row, Routed(s, row)
    PROVE  /\ DOMAIN s = TurnFields /\ IsSlots(s.slots) /\ s.slots.case = row.slots.case
           /\ s.slots.fresh = FALSE /\ s.active = row.active
BY DEF Routed, TurnOf

\* Other slots of the same case, or other words, do not decide anything.
LEMMA SlotsRouted ==
    ASSUME NEW s, NEW row, NEW m, Routed(s, row), KeepsCase(s.slots, m)
    PROVE  Routed([s EXCEPT !.slots = m], row) /\ [s EXCEPT !.slots = m].slots = m
BY DEF Routed, TurnOf, KeepsCase, TurnFields

\* A route does not decide anything yet (_with_route).
LEMMA WithRouteRouted ==
    ASSUME NEW s, NEW row, NEW intent, NEW route, NEW relation, Routed(s, row)
    PROVE  /\ Routed(_with_route(s, intent, route, relation), row)
           /\ _with_route(s, intent, route, relation).intent = intent
           /\ _with_route(s, intent, route, relation).route = route
<1>1. KeepsCase(s.slots, clear_backend_dispute_memory(s.slots))
  BY DisputesKeepCase DEF Routed, TurnOf
<1>2. KeepsCase(s.slots, s.slots)
  BY DEF Routed, TurnOf, KeepsCase
<1>. QED  BY <1>1, <1>2 DEF Routed, TurnOf, KeepsCase, TurnFields, _with_route

\* An acceptance only forgets the disputes (_clear_backend_dispute_on_acceptance).
LEMMA AcceptanceRouted ==
    ASSUME NEW s, NEW row, Routed(s, row)
    PROVE  /\ Routed(_clear_backend_dispute_on_acceptance(s), row)
           /\ _clear_backend_dispute_on_acceptance(s).raw = s.raw
           /\ Origins(row, _clear_backend_dispute_on_acceptance(s)) = Origins(row, s)
           /\ _clear_backend_dispute_on_acceptance(s).cases = s.cases
<1>1. KeepsCase(s.slots, clear_backend_dispute_memory(s.slots))
  BY DisputesKeepCase DEF Routed, TurnOf
<1>2. /\ Routed(_clear_backend_dispute_on_acceptance(s), row)
      /\ _clear_backend_dispute_on_acceptance(s).raw = s.raw
      /\ _clear_backend_dispute_on_acceptance(s).cases = s.cases
      /\ _clear_backend_dispute_on_acceptance(s).says = s.says
  BY <1>1 DEF Routed, TurnOf, KeepsCase, TurnFields, _clear_backend_dispute_on_acceptance
<1>. QED  BY <1>2 DEF Origins, AsksAfterCase

\* The text asks after a case of another thread: it is clear which, or it is asked back
\* (_cross_thread_money_case_route).
LEMMA CaseRouted ==
    ASSUME NEW s, NEW row, Routed(s, row), AsksAfterCase(s), MoneyCases(s)
    PROVE  LET r == _cross_thread_money_case_route(s)
           IN  /\ \E o \in Origins(row, s) : Routed(r, o)
               /\ r.route = "sop" => r.intent = r.active
               /\ r.slots \in {s.slots, clear_backend_dispute_memory(s.slots)}
<1>. DEFINE r == _cross_thread_money_case_route(s)
            case == CHOOSE k \in s.cases : k \in resolve_money_case_followup(s)
            relation == IF "follows_up" \notin s.says THEN "current_workflow_resolution"
                        ELSE "current_sop_supplement"
            w == _with_route(s, case.intent, "sop", relation)
<1>1. CASE resolve_money_case_followup(s) = {}
  <2>. DEFINE a == _with_route(s, "money_case_followup_ambiguous", "final_reply", "none")
  <2>1. r = a
    BY <1>1 DEF _cross_thread_money_case_route, _final_reply_route
  <2>2. a.slots \in {s.slots, clear_backend_dispute_memory(s.slots)}
    BY DEF _with_route, Routed, TurnOf, TurnFields
  <2>3. Routed(a, row) /\ a.route = "final_reply"
    BY WithRouteRouted
  <2>. QED  BY <2>1, <2>2, <2>3 DEF Origins
<1>2. CASE resolve_money_case_followup(s) # {}
  <2>1. case \in s.cases /\ case.intent \in MoneySops
    BY <1>2 DEF resolve_money_case_followup, MoneyCases
  <2>2. Routed(w, row) /\ w.intent = case.intent
    BY WithRouteRouted
  <2>3. w.slots \in {s.slots, clear_backend_dispute_memory(s.slots)}
    BY DEF _with_route, Routed, TurnOf, TurnFields
  <2>4. r = [w EXCEPT !.active = case.intent, !.stage = "waiting_backend", !.matched = {case}]
    BY <1>2 DEF _cross_thread_money_case_route
  <2>. HIDE DEF w, case, r
  <2>5. /\ Routed(r, Moved(row, case)) /\ r.intent = r.active /\ r.slots = w.slots
    BY <2>1, <2>2, <2>4 DEF Routed, TurnOf, TurnFields, Moved
  <2>6. Moved(row, case) \in Origins(row, s)
    BY <2>1 DEF Origins
  <2>7. /\ \E o \in Origins(row, s) : Routed(r, o)
        /\ r.route = "sop" => r.intent = r.active
        /\ r.slots \in {s.slots, clear_backend_dispute_memory(s.slots)}
    BY <2>3, <2>5, <2>6
  <2>. QED  BY <2>7 DEF r
<1>. QED  BY <1>1, <1>2

\* A dispute is counted and routed to a recheck or to a human
\* (_recent_backend_result_dispute_route).
LEMMA DisputeRouted ==
    ASSUME NEW s, NEW row, Routed(s, row)
    PROVE  Routed(_recent_backend_result_dispute_route(s), row)
<1>. DEFINE evaluation == evaluate_backend_dispute(s.slots, s.ev)
            memory == IF evaluation.waiting THEN evaluation.memory
                      ELSE mark_backend_recheck_pending(evaluation.memory)
<1>1. KeepsCase(s.slots, evaluation.memory) /\ KeepsCase(s.slots, memory)
  BY DisputesKeepCase DEF Routed, TurnOf
<1>2. \/ _recent_backend_result_dispute_route(s) =
             _with_route([s EXCEPT !.slots = evaluation.memory],
                         "backend_conclusion_disputed_repeated", "human_handoff",
                         "human_escalation")
      \/ _recent_backend_result_dispute_route(s) =
             _with_route([s EXCEPT !.slots = memory], Blocked, "sop", "current_sop_followup")
  BY DEF _recent_backend_result_dispute_route
<1>. HIDE DEF evaluation, memory
<1>3. /\ Routed([s EXCEPT !.slots = evaluation.memory], row)
      /\ Routed([s EXCEPT !.slots = memory], row)
  BY <1>1, SlotsRouted
<1>. QED  BY <1>2, <1>3, WithRouteRouted

\* A picture without words is remembered, one with words becomes the receipt
\* (_image_candidate_only_route, _promote_pending_image_candidate_route).
LEMMA PictureRouted ==
    ASSUME NEW s, NEW row, Routed(s, row)
    PROVE  /\ ImageCandidate(s) => Routed(_image_candidate_only_route(s), row)
           /\ Promotable(s) => Routed(_promote_pending_image_candidate_route(s), row)
<1>1. ASSUME ImageCandidate(s) PROVE Routed(_image_candidate_only_route(s), row)
  BY <1>1, KnownSlots
     DEF ImageCandidate, Routed, TurnOf, IsSlots, TurnFields, _image_candidate_only_route
<1>2. ASSUME Promotable(s) PROVE Routed(_promote_pending_image_candidate_route(s), row)
  <2>. DEFINE intent == IF s.slots.image = "deposit" THEN "deposit_missing"
                        ELSE "withdrawal_missing"
              m == [s.slots EXCEPT !.receipt = intent, ![s.slots.image] = intent]
  <2>1. KeepsCase(s.slots, m)
    BY <1>2, KnownSlots DEF Promotable, Routed, TurnOf, IsSlots, KeepsCase
  <2>2. _promote_pending_image_candidate_route(s) =
            _with_route([s EXCEPT !.slots = m], intent, "sop", "current_workflow_supplement")
    BY DEF _promote_pending_image_candidate_route
  <2>. HIDE DEF m, intent
  <2>. QED  BY <2>1, <2>2, SlotsRouted, WithRouteRouted
<1>. QED  BY <1>1, <1>2

\* A customer lost in the menu is counted (MenuHelp).
LEMMA MenuRouted ==
    ASSUME NEW s, NEW row, Routed(s, row)
    PROVE  Routed(MenuHelp(s), row)
<1>. DEFINE counted == [s EXCEPT !.slots.menuStuck = @ + 1]
<1>1. Routed(counted, row)
  BY KnownSlots DEF Routed, TurnOf, IsSlots, TurnFields
<1>2. \/ MenuHelp(s) = _with_route(counted, "menu_stuck_repeated", "human_handoff", "none")
      \/ MenuHelp(s) = _with_route(counted, "clarification_needed", "final_reply", "none")
  BY DEF MenuHelp, Clarify, _final_reply_route
<1>. HIDE DEF counted
<1>. QED  BY <1>1, <1>2, WithRouteRouted

\* Whatever the rules answer for the message, nothing is decided yet
\* (intent_router_node, _active_workflow_deterministic_route).
LEMMA RulesRouted ==
    ASSUME NEW t, NEW row, Routed(t, row), MoneyCases(t)
    PROVE  \E o \in Origins(row, t) : Routed(intent_router_node(t), o)
<1>. DEFINE s == _clear_backend_dispute_on_acceptance(t)
<1>1. Routed(s, row) /\ Origins(row, s) = Origins(row, t) /\ MoneyCases(s)
  BY AcceptanceRouted DEF MoneyCases
<1>2. Routed(_active_workflow_deterministic_route(s), row)
  <2>. HIDE DEF s
  <2>. QED  BY <1>1, WithRouteRouted
            DEF _active_workflow_deterministic_route, Clarify, _final_reply_route
<1>3. /\ Routed(_forgot_password_followup_route(t), row)
      /\ Routed(_recent_backend_result_dispute_route(s), row)
      /\ Routed(_recent_authoritative_result_dispute_route(s), row)
      /\ Routed(HumanRequest(s), row) /\ Routed(MemoryLookup(s), row)
      /\ Promotable(s) => Routed(_promote_pending_image_candidate_route(s), row)
      /\ ImageCandidate(s) => Routed(_image_candidate_only_route(s), row)
      /\ Routed(MenuHelp(s), row) /\ Routed(Clarify(s, "none"), row)
  <2>. HIDE DEF s
  <2>. QED  BY <1>1, WithRouteRouted, DisputeRouted, PictureRouted, MenuRouted
            DEF _forgot_password_followup_route, _recent_authoritative_result_dispute_route,
                HumanRequest, MemoryLookup, Clarify, _final_reply_route
<1>4. \A table : Routed(RouteOf(s, table), row)
  <2>. HIDE DEF s
  <2>. QED  BY <1>1, WithRouteRouted DEF RouteOf
<1>5. /\ Routed(_with_route(s, "active_workflow_conflict_with_data", "human_handoff",
                            "human_escalation"), row)
      /\ Routed(_final_reply_route(s, "casual_chat", "none"), row)
  <2>. HIDE DEF s
  <2>. QED  BY <1>1, WithRouteRouted DEF _final_reply_route
<1>6. AsksAfterCase(s) => \E o \in Origins(row, t) : Routed(_cross_thread_money_case_route(s), o)
  BY <1>1, CaseRouted
<1>7. \/ Routed(intent_router_node(t), row)
      \/ AsksAfterCase(s) /\ intent_router_node(t) = _cross_thread_money_case_route(s)
  BY <1>2, <1>3, <1>4, <1>5 DEF intent_router_node
<1>. QED  BY <1>6, <1>7 DEF Origins

\* ... nor by what the LLM answers (make_intent_router_node).
LEMMA RouterRouted ==
    ASSUME NEW t, NEW row, NEW d, Routed(t, row), MoneyCases(t)
    PROVE  \E o \in Origins(row, t) : Routed(make_intent_router_node(t, d), o)
<1>. DEFINE s == _clear_backend_dispute_on_acceptance(t)
            decided == [s EXCEPT !.intent = d.intent, !.route = d.route,
                            !.relation = IF s.active = "none" THEN "none" ELSE d.relation]
<1>1. Routed(s, row) /\ Origins(row, s) = Origins(row, t) /\ MoneyCases(s)
  BY AcceptanceRouted DEF MoneyCases
<1>2. Routed(decided, row)
  <2>. HIDE DEF s
  <2>. QED  BY <1>1 DEF Routed, TurnOf, TurnFields
<1>3. /\ Routed(_recent_backend_result_dispute_route(s), row)
      /\ Routed(_recent_authoritative_result_dispute_route(s), row)
      /\ Routed(HumanRequest(s), row) /\ Routed(MemoryLookup(s), row)
  <2>. HIDE DEF s
  <2>. QED  BY <1>1, WithRouteRouted, DisputeRouted
            DEF _recent_authoritative_result_dispute_route, HumanRequest, MemoryLookup,
                _final_reply_route
<1>4. /\ \E o \in Origins(row, t) : Routed(intent_router_node(s), o)
      /\ AsksAfterCase(s) => \E o \in Origins(row, t) : Routed(_cross_thread_money_case_route(s), o)
  <2>. HIDE DEF s
  <2>. QED  BY <1>1, CaseRouted, RulesRouted
<1>5. \/ Routed(make_intent_router_node(t, d), row)
      \/ make_intent_router_node(t, d) = intent_router_node(s)
      \/ AsksAfterCase(s) /\ make_intent_router_node(t, d) = _cross_thread_money_case_route(s)
  BY <1>2, <1>3 DEF make_intent_router_node
<1>. QED  BY <1>4, <1>5 DEF Origins

-----------------------------------------------------------------------------
(* The nodes *)

\* Nothing decided is sound.
LEMMA RoutedSound ==
    ASSUME NEW s, NEW row, Routed(s, row), ~Locked(row)
    PROVE  Sound(s, row)
BY DEF Routed, Sound, TurnOf, Locked

\* Asking for a human replaces whatever the turn was about to do
\* (human_handoff_node, _build_ai_service_failure_handoff_state).
LEMMA HandoffSound ==
    ASSUME NEW s, NEW row, TurnOf(s, row)
    PROVE  Sound(human_handoff_node(s), row)
<1>. DEFINE handoff == Command("handoff", "human_handoff", s.slots)
<1>1. handoff.type = "handoff"
  BY DEF Command
<1>2. human_handoff_node(s) = [s EXCEPT !.status = "HANDOFF_REQUESTED", !.active = "human_handoff",
                                        !.stage = "handoff_requested", !.cmds = {handoff}]
  BY DEF human_handoff_node
<1>. HIDE DEF handoff
<1>. QED  BY <1>1, <1>2 DEF Sound, TurnOf, TurnFields

\* A FAQ answer sends nothing (rag_node).
LEMMA FaqSound ==
    ASSUME NEW s, NEW row, Routed(s, row), ~Locked(row)
    PROVE  Sound(rag_node(s), row)
BY DEF Routed, Sound, TurnOf, TurnFields, Locked, rag_node

\* A money case is sent only when no case is known (_money_missing_sop,
\* evaluate_sop_policy).
LEMMA MoneySound ==
    ASSUME NEW s, NEW row, NEW intent \in MoneySops, NEW plan, Routed(s, row), ~Locked(row)
    PROVE  Sound(_money_missing_sop(s, intent, plan), row)
<1>. DEFINE slots == plan_sop_dialogue_from_state(s, intent, plan).slots
            card == Command("card", intent, slots)
            next == [s EXCEPT !.slots = slots, !.active = intent]
            sending == [next EXCEPT !.status = "WAITING_EXTERNAL", !.stage = "waiting_backend",
                                    !.cmds = {card}]
            asking == [next EXCEPT !.stage = "collecting_slots", !.cmds = {}]
<1>1. KeepsCase(s.slots, slots)
  BY CollectingKeepsCase DEF Routed, TurnOf
<1>2. \/ evaluate_sop_policy(s, intent, slots) = "send_telegram_case"
         /\ _money_missing_sop(s, intent, plan) = sending
      \/ _money_missing_sop(s, intent, plan) = asking
  BY DEF _money_missing_sop
<1>3. evaluate_sop_policy(s, intent, slots) = "send_telegram_case" => slots.case = 0
  <2>. HIDE DEF slots
  <2>. QED  BY DEF evaluate_sop_policy
<1>4. card.type = "card" /\ card.intent = intent
  BY DEF Command
<1>. HIDE DEF slots, card
<1>5. Sound(asking, row)
  BY <1>1 DEF Routed, Sound, TurnOf, TurnFields, Locked, KeepsCase
<1>6. slots.case = 0 => Sound(sending, row)
  BY <1>1, <1>4 DEF Routed, Sound, TurnOf, TurnFields, Locked, KeepsCase
<1>. HIDE DEF next, sending, asking
<1>. QED  BY <1>2, <1>3, <1>5, <1>6

\* A blocked withdrawal is queried once there is a name (_withdrawal_blocked_sop).
LEMMA BlockedSound ==
    ASSUME NEW s, NEW row, Routed(s, row), ~Locked(row)
    PROVE  Sound(_withdrawal_blocked_sop(s), row)
<1>. DEFINE slots == IF s.identity # "none" THEN [s.slots EXCEPT !.identity = s.identity]
                     ELSE s.slots
            query == Command("query", Blocked, slots)
            next == [s EXCEPT !.slots = slots, !.active = Blocked]
            sending == [next EXCEPT !.status = "WAITING_EXTERNAL", !.stage = "backend_querying",
                                    !.cmds = {query}]
            asking == [next EXCEPT !.stage = "collecting_slots", !.cmds = {}]
<1>1. KeepsCase(s.slots, slots)
  BY KnownSlots DEF Routed, TurnOf, KeepsCase, IsSlots
<1>2. _withdrawal_blocked_sop(s) \in {sending, asking}
  BY DEF _withdrawal_blocked_sop
<1>3. query.type = "query"
  BY DEF Command
<1>. HIDE DEF slots, query
<1>4. Sound(asking, row)
  BY <1>1 DEF Routed, Sound, TurnOf, TurnFields, Locked, KeepsCase
<1>5. Sound(sending, row)
  BY <1>1, <1>3 DEF Routed, Sound, TurnOf, TurnFields, Locked, KeepsCase
<1>. HIDE DEF next, sending, asking
<1>. QED  BY <1>2, <1>4, <1>5

\* So is an older case (_pending_reply_lookup_sop).
LEMMA LookupSound ==
    ASSUME NEW s, NEW row, Routed(s, row), ~Locked(row)
    PROVE  Sound(_pending_reply_lookup_sop(s), row)
<1>. DEFINE slots == IF s.identity # "none" THEN [s.slots EXCEPT !.lookup = s.identity]
                     ELSE s.slots
            lookup == Command("lookup", Lookup, slots)
            next == [s EXCEPT !.slots = slots, !.active = Lookup]
            sending == [next EXCEPT !.status = "WAITING_EXTERNAL",
                                    !.stage = "lookup_pending_reply", !.cmds = {lookup}]
            asking == [next EXCEPT !.stage = "collecting_slots", !.cmds = {}]
<1>1. KeepsCase(s.slots, slots)
  BY KnownSlots DEF Routed, TurnOf, KeepsCase, IsSlots
<1>2. _pending_reply_lookup_sop(s) \in {sending, asking}
  BY DEF _pending_reply_lookup_sop
<1>3. lookup.type = "lookup"
  BY DEF Command
<1>. HIDE DEF slots, lookup
<1>4. Sound(asking, row)
  BY <1>1 DEF Routed, Sound, TurnOf, TurnFields, Locked, KeepsCase
<1>5. Sound(sending, row)
  BY <1>1, <1>3 DEF Routed, Sound, TurnOf, TurnFields, Locked, KeepsCase
<1>. HIDE DEF next, sending, asking
<1>. QED  BY <1>2, <1>4, <1>5

\* Whatever the intent (run_sop).
LEMMA SopSound ==
    ASSUME NEW s, NEW row, NEW plan, Routed(s, row), ~Locked(row)
    PROVE  Sound(run_sop(s, plan), row)
BY MoneySound, BlockedSound, LookupSound, RoutedSound DEF run_sop

\* What a message may lead to while an answer is awaited.
LEMMA WaitingStates ==
    ASSUME NEW s, NEW row, NEW m, Routed(s, row), ~Locked(row), KeepsCase(s.slots, m)
    PROVE  /\ Sound(_delayed_resolved_supplement_state(s, m), row)
           /\ Sound(_resolved_state(s, m), row)
           /\ Sound(Acknowledged(s, m), row)
           /\ Sound(_waiting_followup_state(s, m), row)
           /\ Sound(_backend_query_state(s, m), row)
           /\ Sound(_build_handoff_state(s, m), row)
           /\ Sound(AppendToCase(s, m), row)
           /\ Sound(_money_case_followup_state(s, m), row)
<1>1. KeepsCase(s.slots, [m EXCEPT !.confirmed = TRUE])
  BY KnownSlots DEF KeepsCase, IsSlots
<1>2. Sound(_delayed_resolved_supplement_state(s, m), row)
  BY DEF Routed, Sound, TurnOf, TurnFields, Locked, KeepsCase, _delayed_resolved_supplement_state
<1>3. Sound(_resolved_state(s, m), row)
  BY <1>1 DEF Routed, Sound, TurnOf, TurnFields, Locked, KeepsCase, _resolved_state
<1>4. Sound(Acknowledged(s, m), row) /\ Sound(_waiting_followup_state(s, m), row)
  BY DEF Routed, Sound, TurnOf, TurnFields, Locked, KeepsCase, Acknowledged,
         _waiting_followup_state
<1>5. \A type, intent : Command(type, intent, m).type = type
  BY DEF Command
<1>6. Sound(_backend_query_state(s, m), row)
  BY <1>5 DEF Routed, Sound, TurnOf, TurnFields, Locked, KeepsCase, _backend_query_state
<1>7. Sound(_build_handoff_state(s, m), row)
  BY <1>5 DEF Routed, Sound, TurnOf, TurnFields, Locked, KeepsCase, _build_handoff_state
<1>8. Sound(AppendToCase(s, m), row)
  BY <1>5 DEF Routed, Sound, TurnOf, TurnFields, Locked, KeepsCase, AppendToCase
<1>9. Sound(_money_case_followup_state(s, m), row)
  <2>. DEFINE case == CHOOSE k \in s.matched : TRUE
              remind == [Command("remind", case.intent, m) EXCEPT !.case = case.ev]
  <2>1. remind.type = "remind"
    BY DEF Command
  <2>2. _money_case_followup_state(s, m) =
            [s EXCEPT !.slots = m, !.active = case.intent, !.stage = "waiting_backend",
                      !.cmds = {remind}]
    BY DEF _money_case_followup_state
  <2>. HIDE DEF remind, case
  <2>. QED  BY <2>1, <2>2 DEF Routed, Sound, TurnOf, TurnFields, Locked, KeepsCase
<1>. QED  BY <1>2, <1>3, <1>4, <1>6, <1>7, <1>8, <1>9

\* What staff asked the customer for is remembered (_merge_waiting_customer_supplement).
LEMMA MergedKeepsCase ==
    ASSUME NEW s, NEW m, NEW n, KeepsCase(m, n)
    PROVE  KeepsCase(m, _merge_waiting_customer_supplement(s, n))
BY KnownSlots DEF KeepsCase, IsSlots, _merge_waiting_customer_supplement

\* ... and it leads to one of those (handle_waiting_backend).
LEMMA WaitingSound ==
    ASSUME NEW s, NEW row, NEW plan, Routed(s, row), ~Locked(row)
    PROVE  Sound(handle_waiting_backend(s, plan), row)
<1>. DEFINE l == plan_sop_dialogue_from_state(s, s.active, plan).slots
            m == _merge_waiting_customer_supplement(s, l)
            waits == [m EXCEPT !.waits = @ + 1]
<1>1. KeepsCase(s.slots, l) /\ KeepsCase(s.slots, m)
  BY CollectingKeepsCase, MergedKeepsCase DEF Routed, TurnOf
<1>. HIDE DEF l
<1>2. KeepsCase(s.slots, waits)
  <2>. HIDE DEF m
  <2>. QED  BY <1>1, KnownSlots DEF KeepsCase, IsSlots
<1>. HIDE DEF waits
<1>3. ASSUME NEW human PROVE Sound(NothingNew(s, m, human), row)
  <2>1. NothingNew(s, m, human) \in {_build_handoff_state(s, m), _waiting_followup_state(s, m),
                                     _build_handoff_state(s, waits),
                                     _waiting_followup_state(s, waits)}
    BY DEF NothingNew, waits
  <2>. HIDE DEF m
  <2>. QED  BY <1>1, <1>2, <2>1, WaitingStates
<1>4. ASSUME NEW human PROVE Sound(Supplemented(s, m, human), row)
  <2>. HIDE DEF m
  <2>. QED  BY <1>1, WaitingStates DEF Supplemented
<1>5. \/ handle_waiting_backend(s, plan) \in {_delayed_resolved_supplement_state(s, l),
                                              _resolved_state(s, l), Acknowledged(s, l),
                                              _money_case_followup_state(s, m)}
      \/ \E human : handle_waiting_backend(s, plan) = Supplemented(s, m, human)
      \/ \E human : handle_waiting_backend(s, plan) = NothingNew(s, m, human)
  BY DEF handle_waiting_backend, l
<1>. HIDE DEF m
<1>. QED  BY <1>1, <1>3, <1>4, <1>5, WaitingStates

\* The state of a turn before anything is looked at
\* (build_graph_state_from_event, _base_pre_graph_state).
LEMMA StartRouted ==
    ASSUME NEW m, NEW ev, NEW row, NEW cases, IsRow(row)
    PROVE  /\ Routed(build_graph_state_from_event(m, ev, row, cases), row)
           /\ Routed(_base_pre_graph_state(m, ev, row), row)
<1>1. KeepsCase([row.slots EXCEPT !.fresh = FALSE], [row.slots EXCEPT !.fresh = FALSE])
      /\ [row.slots EXCEPT !.fresh = FALSE].case = row.slots.case
      /\ [row.slots EXCEPT !.fresh = FALSE].fresh = FALSE
  BY KnownSlots DEF IsRow, IsSlots, KeepsCase
<1>2. ASSUME NEW cs PROVE Routed(build_graph_state_from_event(m, ev, row, cs), row)
  BY <1>1 DEF Routed, TurnOf, TurnFields, KeepsCase, build_graph_state_from_event
<1>3. Routed(build_graph_state_from_event(m, ev, row, {}), row)
  BY <1>2
<1>. QED  BY <1>2, <1>3 DEF Routed, TurnOf, TurnFields, _base_pre_graph_state

\* A turn that is sound for the row it goes on from is sound for the row it was computed from.
LEMMA OriginSound ==
    ASSUME NEW t, NEW row, NEW o \in Origins(row, t), NEW g
    PROVE  /\ Sound(g, o) => Sound(g, row)
           /\ Locked(o) <=> Locked(row)
           /\ o.slots = row.slots
<1>1. CASE o = row
  BY <1>1
<1>2. CASE \E k : o = Moved(row, k)
  BY <1>2 DEF Moved, Sound, TurnOf, Locked
<1>. QED  BY <1>1, <1>2 DEF Origins

\* What the graph makes of an event (run_graph).
LEMMA GraphSound ==
    ASSUME NEW m, NEW ev, NEW row, NEW cases, NEW d, NEW plan, IsRow(row), ~Locked(row),
           \A k \in cases : k.intent \in MoneySops
    PROVE  Sound(run_graph(build_graph_state_from_event(m, ev, row, cases), m.says, d, plan), row)
<1>. DEFINE start == build_graph_state_from_event(m, ev, row, cases)
            rewritten == rewrite_question_node(start, m.says)
            routed == make_intent_router_node(rewritten, d)
            g == run_graph(start, m.says, d, plan)
<1>1. Routed(start, row) /\ start.cases = cases
  BY StartRouted DEF build_graph_state_from_event
<1>2. Routed(rewritten, row) /\ MoneyCases(rewritten)
  <2>. HIDE DEF start
  <2>. QED  BY <1>1 DEF Routed, TurnOf, TurnFields, rewrite_question_node, MoneyCases
<1>3. PICK o \in Origins(row, rewritten) : Routed(routed, o)
  BY <1>2, RouterRouted
<1>. HIDE DEF rewritten
<1>4. ~Locked(o)
  BY OriginSound
<1>5. \A p : Sound(sop_node(routed, p), o)
  <2>. HIDE DEF routed
  <2>. QED  BY <1>3, <1>4, WaitingSound, SopSound DEF sop_node
<1>6. /\ Sound(rag_node(routed), o) /\ Sound(human_handoff_node(routed), o)
      /\ Sound(routed, o)
  <2>. HIDE DEF routed
  <2>. QED  BY <1>3, <1>4, FaqSound, HandoffSound, RoutedSound DEF Routed
<1>7. Sound(g, o)
  BY <1>5, <1>6 DEF run_graph, rewritten
<1>. HIDE DEF g
<1>8. Sound(g, row)
  BY <1>7, OriginSound
<1>. QED  BY <1>8 DEF g

\* What a menu button leads to (_build_business_button_state).
LEMMA ButtonSound ==
    ASSUME NEW m, NEW ev, NEW row, IsRow(row), ~Locked(row)
    PROVE  Sound(_build_business_button_state(_base_pre_graph_state(m, ev, row), m.button), row)
<1>. DEFINE base == _base_pre_graph_state(m, ev, row)
            button == _build_business_button_state(base, m.button)
            at == BUSINESS_BUTTON_ROUTES[m.button]
            routed == [base EXCEPT !.intent = at.intent, !.route = at.route]
<1>1. Routed(base, row)
  BY StartRouted
<1>2. Routed(routed, row)
  <2>. HIDE DEF base, at
  <2>. QED  BY <1>1 DEF Routed, TurnOf, TurnFields
<1>3. button \in {run_sop(routed, RulesPlan), rag_node(routed), human_handoff_node(routed)}
  BY DEF _build_business_button_state
<1>4. TurnOf(routed, row)
  BY <1>2 DEF Routed
<1>5. Sound(button, row)
  <2>. HIDE DEF routed, button
  <2>. QED  BY <1>2, <1>3, <1>4, SopSound, FaqSound, HandoffSound
<1>. QED  BY <1>5

\* What the gateway commits for an event (process_event).
LEMMA TurnSound ==
    ASSUME NEW m, NEW ev, NEW row, NEW cases, NEW d, NEW plan, NEW fails,
           IsRow(row), ~Locked(row), \A k \in cases : k.intent \in MoneySops
    PROVE  Sound(process_event(m, ev, row, cases, d, plan, fails), row)
<1>. DEFINE graph == run_graph(build_graph_state_from_event(m, ev, row, cases), m.says, d, plan)
            button == _build_business_button_state(_base_pre_graph_state(m, ev, row), m.button)
            answered == IF m.button \in DOMAIN BUSINESS_BUTTON_ROUTES THEN button ELSE graph
<1>1. Sound(answered, row)
  BY GraphSound, ButtonSound
<1>2. process_event(m, ev, row, cases, d, plan, fails) \in {answered, human_handoff_node(answered)}
  BY DEF process_event, _build_ai_service_failure_handoff_state
<1>. HIDE DEF answered
<1>3. TurnOf(answered, row)
  BY <1>1 DEF Sound
<1>. QED  BY <1>1, <1>2, <1>3, HandoffSound

-----------------------------------------------------------------------------
(* A text in the middle of a money case *)

\* A message that does not dispute a conclusion, for a money case in progress.
Guarded(s) ==
    /\ s.active \in MoneySops /\ s.stage \in ACTIVE_WORKFLOW_GUARD_STAGES
    /\ "disputes" \notin s.raw

\* The first row of a table that matches is one of its rows (Matches, FirstMatch).
LEMMA FirstMatchInTable ==
    ASSUME NEW table, NEW says, DOMAIN table \subseteq Nat, Matches(table, says)
    PROVE  \E i \in DOMAIN table : FirstMatch(table, says) = table[i]
<1>. DEFINE S == {i \in DOMAIN table : table[i].says \in says}
<1>1. S # {} /\ S \subseteq Nat
  BY DEF Matches
<1>2. PICK u \in S : \A v \in S : ~(<<v, u>> \in OpToRel(<, Nat))
  <2>. HIDE DEF S
  <2>. QED  BY <1>1, NatLessThanWellFounded, WFMin, Zenon
<1>3. \A v \in S : u <= v
  <2>1. ASSUME NEW v \in S PROVE ~(v < u)
    <3>. HIDE DEF S
    <3>. QED  BY <1>1, <1>2, <2>1 DEF OpToRel
  <2>. HIDE DEF S
  <2>. QED  BY <1>1, <2>1
<1>4. Min(S) \in S
  <2>. HIDE DEF S
  <2>. QED  BY <1>3 DEF Min
<1>. QED  BY <1>4 DEF FirstMatch

\* What only staff can settle goes to them (_auto_handoff_route).
LEMMA AutoHandoff ==
    ASSUME NEW s, NEW row, Routed(s, row), Matches(_auto_handoff_route, s.says)
    PROVE  RouteOf(s, _auto_handoff_route).route = "human_handoff"
<1>1. DOMAIN _auto_handoff_route = 1 .. 7
  BY DEF _auto_handoff_route
<1>2. \A i \in 1 .. 7 : _auto_handoff_route[i].route = "human_handoff"
  BY DEF _auto_handoff_route, ToStaff
<1>3. FirstMatch(_auto_handoff_route, s.says).route = "human_handoff"
  BY <1>1, <1>2, FirstMatchInTable
<1>. QED  BY <1>3, WithRouteRouted DEF RouteOf

\* The rules lead a text in a money case to no SOP but its own, or that of the case it asks
\* after (_active_workflow_deterministic_route, _cross_thread_money_case_route).
LEMMA RulesKeepCase ==
    ASSUME NEW t, NEW row, Routed(t, row), Guarded(t), MoneyCases(t)
    PROVE  intent_router_node(t).route = "sop" =>
               intent_router_node(t).intent = intent_router_node(t).active
<1>. DEFINE s == _clear_backend_dispute_on_acceptance(t)
            Fits(r) == r.route = "sop" => r.intent = r.active
<1>1. Routed(s, row) /\ s.raw = t.raw /\ s.active = t.active /\ s.stage = t.stage /\ MoneyCases(s)
  BY AcceptanceRouted DEF Routed, MoneyCases
<1>2. /\ s.active \in MoneySops /\ s.active # "none" /\ s.stage \in ACTIVE_WORKFLOW_GUARD_STAGES
      /\ ~DisputesConclusion(s) /\ ~Promotable(s) /\ ~ImageCandidate(s)
  <2>. HIDE DEF s
  <2>. QED  BY <1>1 DEF Guarded, MoneySops, DisputesConclusion, Promotable, ImageCandidate
<1>3. \A intent, route, relation :
        /\ _with_route(s, intent, route, relation).route = route
        /\ _with_route(s, intent, route, relation).intent = intent
        /\ _with_route(s, intent, route, relation).active = s.active
        /\ _with_route(t, intent, route, relation).route = route
  <2>. HIDE DEF s
  <2>1. \A intent, route, relation :
           /\ Routed(_with_route(s, intent, route, relation), row)
           /\ _with_route(s, intent, route, relation).route = route
           /\ _with_route(s, intent, route, relation).intent = intent
           /\ _with_route(t, intent, route, relation).route = route
    BY <1>1, WithRouteRouted
  <2>2. \A r : Routed(r, row) => r.active = s.active
    BY <1>1 DEF Routed
  <2>. QED  BY <2>1, <2>2
<1>4. Fits(_active_workflow_deterministic_route(s))
  <2>. HIDE DEF s
  <2>. QED  BY <1>3 DEF _active_workflow_deterministic_route, Clarify, _final_reply_route
<1>5. /\ _forgot_password_followup_route(t).route = "human_handoff"
      /\ _recent_authoritative_result_dispute_route(s).route = "human_handoff"
      /\ HumanRequest(s).route = "human_handoff" /\ MemoryLookup(s).route = "final_reply"
  <2>. HIDE DEF s
  <2>. QED  BY <1>3 DEF _forgot_password_followup_route, HumanRequest, MemoryLookup,
                      _recent_authoritative_result_dispute_route, _final_reply_route
<1>6. /\ Matches(_auto_handoff_route, s.says) =>
            RouteOf(s, _auto_handoff_route).route = "human_handoff"
      /\ AsksAfterCase(s) => Fits(_cross_thread_money_case_route(s))
  BY <1>1, AutoHandoff, CaseRouted
<1>. HIDE DEF s
<1>7. \/ intent_router_node(t) \in
           {_forgot_password_followup_route(t), _recent_authoritative_result_dispute_route(s),
            HumanRequest(s), MemoryLookup(s), _active_workflow_deterministic_route(s),
            _with_route(s, "active_workflow_conflict_with_data", "human_handoff",
                        "human_escalation")}
      \/ intent_router_node(t) = RouteOf(s, _auto_handoff_route)
         /\ Matches(_auto_handoff_route, s.says)
      \/ intent_router_node(t) = _cross_thread_money_case_route(s) /\ AsksAfterCase(s)
  BY <1>2 DEF intent_router_node, s
<1>. QED  BY <1>1, <1>3, <1>4, <1>5, <1>6, <1>7

\* Nor does anything the LLM may answer (validate_intent_classification_output).
LEMMA ValidatedKeepsCase ==
    ASSUME NEW s, NEW d, s.active # "none", validate_intent_classification_output(s, d),
           d.route = "sop"
    PROVE  d.intent = s.active
BY DEF validate_intent_classification_output, RelationContract, _validate_workflow_relation

\* (make_intent_router_node)
LEMMA RouterKeepsCase ==
    ASSUME NEW t, NEW row, NEW d, Routed(t, row), Guarded(t), MoneyCases(t)
    PROVE  make_intent_router_node(t, d).route = "sop" =>
               make_intent_router_node(t, d).intent = make_intent_router_node(t, d).active
<1>. DEFINE s == _clear_backend_dispute_on_acceptance(t)
            decided == [s EXCEPT !.intent = d.intent, !.route = d.route,
                            !.relation = IF s.active = "none" THEN "none" ELSE d.relation]
<1>1. /\ Routed(s, row) /\ s.raw = t.raw /\ s.active = t.active /\ s.stage = t.stage
      /\ MoneyCases(s)
  BY AcceptanceRouted DEF Routed, MoneyCases
<1>. HIDE DEF s
<1>2. Guarded(s) /\ s.active # "none" /\ ~DisputesConclusion(s)
  BY <1>1 DEF Guarded, MoneySops, DisputesConclusion
<1>3. /\ _recent_authoritative_result_dispute_route(s).route = "human_handoff"
      /\ HumanRequest(s).route = "human_handoff" /\ MemoryLookup(s).route = "final_reply"
  <2>1. \A intent, route, relation : _with_route(s, intent, route, relation).route = route
    BY <1>1, WithRouteRouted
  <2>. QED  BY <2>1 DEF HumanRequest, MemoryLookup, _final_reply_route,
                      _recent_authoritative_result_dispute_route
<1>4. /\ intent_router_node(s).route = "sop" =>
            intent_router_node(s).intent = intent_router_node(s).active
      /\ AsksAfterCase(s) => (_cross_thread_money_case_route(s).route = "sop" =>
            _cross_thread_money_case_route(s).intent = _cross_thread_money_case_route(s).active)
  BY <1>1, <1>2, RulesKeepCase, CaseRouted
<1>5. decided.route = d.route /\ decided.intent = d.intent /\ decided.active = s.active
  BY <1>1 DEF Routed, TurnOf, TurnFields
<1>. HIDE DEF decided
<1>6. \/ make_intent_router_node(t, d) \in
            {_recent_authoritative_result_dispute_route(s), HumanRequest(s), MemoryLookup(s),
             intent_router_node(s)}
      \/ make_intent_router_node(t, d) = _cross_thread_money_case_route(s) /\ AsksAfterCase(s)
      \/ make_intent_router_node(t, d) = decided /\ validate_intent_classification_output(s, d)
  BY <1>2 DEF make_intent_router_node, s, decided
<1>. QED  BY <1>1, <1>2, <1>3, <1>4, <1>5, <1>6, ValidatedKeepsCase

\* The case stays what it is, or is left (sop_node).
LEMMA SopKeepsCase ==
    ASSUME NEW s, NEW row, NEW plan, Routed(s, row), s.active \in MoneySops, s.intent = s.active
    PROVE  sop_node(s, plan).active \in {s.active, "none"}
<1>1. "active" \in DOMAIN s /\ s.active # Blocked
  BY DEF Routed, TurnOf, TurnFields, MoneySops, Blocked
<1>2. run_sop(s, plan).active = s.active
  <2>1. run_sop(s, plan) = _money_missing_sop(s, s.active, plan)
    BY <1>1 DEF run_sop, MoneySops, Blocked, Lookup
  <2>. QED  BY <1>1, <2>1 DEF _money_missing_sop
<1>3. handle_waiting_backend(s, plan).active \in {s.active, "none"}
  <2>1. ASSUME NEW m PROVE /\ _delayed_resolved_supplement_state(s, m).active = "none"
                           /\ _resolved_state(s, m).active = "none"
                           /\ Acknowledged(s, m).active = s.active
                           /\ _waiting_followup_state(s, m).active = s.active
                           /\ _build_handoff_state(s, m).active = s.active
                           /\ AppendToCase(s, m).active = s.active
                           /\ s.matched # {} => _money_case_followup_state(s, m).active = s.active
    <3>1. s.matched # {} => (CHOOSE k \in s.matched : TRUE).intent = s.active
      BY DEF Routed
    <3>. QED  BY <1>1, <3>1
              DEF _delayed_resolved_supplement_state, _resolved_state, Acknowledged,
                  _waiting_followup_state, _build_handoff_state, AppendToCase,
                  _money_case_followup_state
  <2>2. ASSUME NEW m, NEW human PROVE /\ Supplemented(s, m, human).active = s.active
                                      /\ NothingNew(s, m, human).active = s.active
    BY <1>1, <2>1 DEF Supplemented, NothingNew
  <2>. QED  BY <2>1, <2>2 DEF handle_waiting_backend
<1>. QED  BY <1>2, <1>3 DEF sop_node

\* The cases the message asks after.
CasesAsked(m, cases) ==
    {k.intent : k \in {x \in cases : m.says \cap {"follows_up", "received"} # {}}}

\* A text in the middle of a money case does not turn it into another workflow, unless it
\* asks after a case of another thread (process_event).
LEMMA TurnKeepsCase ==
    ASSUME NEW m, NEW ev, NEW row, NEW cases, NEW d, NEW plan, NEW fails, IsRow(row),
           ~Locked(row), m.button \notin DOMAIN BUSINESS_BUTTON_ROUTES, "disputes" \notin m.raw,
           row.active \in MoneySops, row.stage \in ACTIVE_WORKFLOW_GUARD_STAGES,
           \A k \in cases : k.intent \in MoneySops
    PROVE  process_event(m, ev, row, cases, d, plan, fails).active \notin
               (MoneySops \cup {Blocked, Lookup}) \ ({row.active} \cup CasesAsked(m, cases))
<1>. DEFINE start == build_graph_state_from_event(m, ev, row, cases)
            rewritten == rewrite_question_node(start, m.says)
            routed == make_intent_router_node(rewritten, d)
            graph == run_graph(start, m.says, d, plan)
            Others == (MoneySops \cup {Blocked, Lookup}) \ ({row.active} \cup CasesAsked(m, cases))
<1>1. Routed(start, row) /\ start.raw = m.raw /\ start.cases = cases
  BY StartRouted DEF build_graph_state_from_event
<1>2. /\ Routed(rewritten, row) /\ Guarded(rewritten) /\ MoneyCases(rewritten)
      /\ rewritten.cases = cases /\ rewritten.says = m.says
  <2>. HIDE DEF start
  <2>. QED  BY <1>1 DEF Routed, TurnOf, TurnFields, rewrite_question_node, Guarded, MoneyCases
<1>3. PICK o \in Origins(row, rewritten) : Routed(routed, o)
  BY <1>2, RouterRouted
<1>4. /\ o.active \in MoneySops /\ o.active \in {row.active} \cup CasesAsked(m, cases)
      /\ routed.active = o.active
      /\ routed.route = "sop" => routed.intent = routed.active
  <2>. HIDE DEF rewritten
  <2>1. routed.route = "sop" => routed.intent = routed.active
    BY <1>2, RouterKeepsCase
  <2>. HIDE DEF routed
  <2>2. o.active \in MoneySops /\ o.active \in {row.active} \cup CasesAsked(m, cases)
    <3>1. CASE o = row
      BY <3>1
    <3>2. CASE \E k \in cases : AsksAfterCase(rewritten) /\ o = Moved(row, k)
      BY <1>2, <3>2 DEF Moved, AsksAfterCase, CasesAsked
    <3>. QED  BY <1>2, <3>1, <3>2 DEF Origins
  <2>. QED  BY <1>3, <2>1, <2>2 DEF Routed
<1>. DEFINE Kept == {row.active, "none", "human_handoff", "forgot_password_howto"}
                        \cup CasesAsked(m, cases)
<1>5. Kept \cap Others = {}
  BY DEF MoneySops, Blocked, Lookup
<1>6. \/ routed.route = "sop" /\ \E p : graph = sop_node(routed, p)
      \/ graph \in {rag_node(routed), human_handoff_node(routed), routed}
  BY DEF run_graph
<1>. HIDE DEF routed, graph, rewritten
<1>7. \A s : DOMAIN s = TurnFields => human_handoff_node(s).active = "human_handoff"
  BY DEF TurnFields, human_handoff_node
<1>8. rag_node(routed).active \in {o.active, "none", "forgot_password_howto"}
  BY <1>3, <1>4 DEF Routed, TurnOf, TurnFields, rag_node
<1>9. DOMAIN routed = TurnFields
  BY <1>3 DEF Routed, TurnOf
<1>10. graph.active \in {o.active, "none", "human_handoff", "forgot_password_howto"}
  <2>1. \A p : routed.route = "sop" => sop_node(routed, p).active \in {routed.active, "none"}
    BY <1>3, <1>4, SopKeepsCase
  <2>. QED  BY <1>4, <1>6, <1>7, <1>8, <1>9, <2>1
<1>11. process_event(m, ev, row, cases, d, plan, fails) \in {graph, human_handoff_node(graph)}
  BY DEF process_event, _build_ai_service_failure_handoff_state, graph
<1>12. human_handoff_node(graph).active = "human_handoff"
  <2>1. Sound(graph, row)
    BY GraphSound DEF graph
  <2>. QED  BY <1>7, <2>1 DEF Sound, TurnOf
<1>13. process_event(m, ev, row, cases, d, plan, fails).active \in Kept
  BY <1>4, <1>10, <1>11, <1>12
<1>. HIDE DEF Others, Kept
<1>14. process_event(m, ev, row, cases, d, plan, fails).active \notin Others
  BY <1>5, <1>13
<1>. QED  BY <1>14 DEF Others

-----------------------------------------------------------------------------
(* The handlers of results and staff replies *)

ResultTypes == {"created", "appended", "looked_up", "answered", "staff"}

\* What is written back when a result or a staff reply is applied: no query is
\* outstanding by its doing, a human is asked for exactly when the status says
\* so, and the case stays known unless staff closed it.
Applied(h, r, row) ==
    /\ h.status \in Statuses /\ IsSlots(h.slots) /\ h.slots.fresh = FALSE
    /\ h.stage # "backend_querying"
    /\ h.status = "HANDOFF_REQUESTED" <=> \E c \in h.cmds : c.type = "handoff"
    /\ \A c \in h.cmds : c.type # "card"
    /\ IF r.type = "created" THEN h.slots.case = r.ev
       ELSE \/ row.slots.case # 0 => h.slots.case # 0
            \/ r.type = "staff" /\ h.stage = "completed"

\* A status that is not a handoff goes with no command, a handoff with nothing
\* else (_backend_lookup_escalation, resolve_backend_recheck).
LEMMA EscalatedApplied ==
    ASSUME NEW handoff \in BOOLEAN, NEW status \in {"AI_ACTIVE", "WAITING_EXTERNAL"}, NEW active,
           NEW stage, NEW slots, NEW commands, NEW r, NEW row,
           IsSlots(slots), slots.fresh = FALSE, stage # "backend_querying",
           r.type = "answered", row.slots.case # 0 => slots.case # 0,
           handoff <=> commands # {}, \A c \in commands : c.type = "handoff"
    PROVE  Applied(Escalated(handoff, status, active, stage, slots, commands), r, row)
<1>. DEFINE h == Escalated(handoff, status, active, stage, slots, commands)
<1>1. /\ h.status = IF handoff THEN "HANDOFF_REQUESTED" ELSE status
      /\ h.stage = IF handoff THEN "handoff_requested" ELSE stage
      /\ h.slots = slots /\ h.cmds = commands
  BY DEF Escalated
<1>. HIDE DEF h
<1>2. h.status = "HANDOFF_REQUESTED" <=> \E c \in h.cmds : c.type = "handoff"
  BY <1>1
<1>3. Applied(h, r, row)
  BY <1>1, <1>2 DEF Applied, Statuses
<1>. QED  BY <1>3 DEF h

\* (HandoffFor, Command)
LEMMA HandoffType == \A reason, m : HandoffFor(reason, m).type = "handoff"
BY DEF HandoffFor, Command

\* A query that failed (QueryFailed).
LEMMA FailedApplied ==
    ASSUME NEW r, NEW read, NEW row, IsRow(read), IsRow(row), r.type = "answered"
    PROVE  Applied(QueryFailed(r, read, row), r, row)
<1>. DEFINE e == _backend_lookup_escalation(read.slots, "failed", r.identity)
            slots == [row.slots EXCEPT !.failCount = e.count, !.fresh = FALSE,
                                       !.handoffReq = @ \/ e.handoff]
            commands == IF e.handoff THEN {HandoffFor("failed", slots)} ELSE {}
<1>1. e.handoff \in BOOLEAN
  BY DEF _backend_lookup_escalation
<1>2. QueryFailed(r, read, row) = Escalated(e.handoff, "WAITING_EXTERNAL", Blocked,
          "backend_query_failed_waiting_manual", slots, commands)
  BY DEF QueryFailed
<1>. HIDE DEF e
<1>3. IsSlots(slots) /\ slots.fresh = FALSE /\ slots.case = row.slots.case
  BY KnownSlots DEF IsRow, IsSlots
<1>. HIDE DEF slots
<1>4. (e.handoff <=> commands # {}) /\ \A c \in commands : c.type = "handoff"
  BY <1>1, HandoffType
<1>. HIDE DEF commands
<1>5. "backend_query_failed_waiting_manual" # "backend_querying"
  OBVIOUS
<1>. QED  BY <1>1, <1>2, <1>3, <1>4, <1>5, EscalatedApplied

\* A query that was answered (QueryAnswered, resolve_backend_recheck).
LEMMA AnsweredApplied ==
    ASSUME NEW r, NEW read, NEW row, IsRow(read), IsRow(row), r.type = "answered"
    PROVE  Applied(QueryAnswered(r, read, row), r, row)
<1>. DEFINE missing == r.status = "not_found"
            e == IF missing THEN _backend_lookup_escalation(read.slots, "not_found", r.identity)
                 ELSE [count |-> 0, handoff |-> FALSE]
            recheck == resolve_backend_recheck(read.slots, r)
            new == [recheck.memory EXCEPT
                        !.nfCount = e.count,
                        !.nfValue = IF missing THEN r.identity ELSE "none",
                        !.failCount = IF missing THEN @ ELSE 0,
                        !.handoffReq = IF missing THEN @ \/ e.handoff ELSE FALSE,
                        !.fresh = FALSE]
            set == {"nfCount", "nfValue", "fresh"}
                   \cup (IF missing THEN {} ELSE {"failCount", "handoffReq"})
                   \cup (IF _is_authoritative_result(r) THEN {"dCount"} ELSE {})
                   \cup (IF read.slots.resolvedAt # 0 THEN {"confirmed"} ELSE {})
            slots == Merged(row.slots, new, set)
            commands == (IF e.handoff THEN {HandoffFor("not_found", slots)} ELSE {})
                        \cup (IF recheck.should_handoff THEN {HandoffFor("recheck", slots)}
                              ELSE {})
<1>1. e.handoff \in BOOLEAN
  BY DEF _backend_lookup_escalation
<1>2. QueryAnswered(r, read, row) =
          Escalated(e.handoff \/ recheck.should_handoff, "AI_ACTIVE", "none", "completed", slots,
                    commands)
  BY DEF QueryAnswered
<1>3. IsSlots(apply_backend_conclusion(read.slots, r))
  BY KnownSlots DEF IsRow, IsSlots, apply_backend_conclusion
<1>4. IsSlots(recheck.memory)
  <2>1. \A m : IsSlots(m) => IsSlots([m EXCEPT !.recheck = FALSE, !.origin = "none",
                                               !.queued = FALSE, !.qEvent = 0])
    BY KnownSlots DEF IsSlots
  <2>2. \A m : IsSlots(m) => IsSlots([m EXCEPT !.dCount = 2])
    BY KnownSlots DEF IsSlots
  <2>3. LET applied == apply_backend_conclusion(read.slots, r)
            cleared == [applied EXCEPT !.recheck = FALSE, !.origin = "none",
                                       !.queued = FALSE, !.qEvent = 0]
        IN  recheck.memory \in {cleared, [cleared EXCEPT !.dCount = 2]}
    BY DEF resolve_backend_recheck
  <2>. HIDE DEF recheck
  <2>. QED  BY <1>3, <2>1, <2>2, <2>3
<1>. HIDE DEF recheck, e
<1>5. IsSlots(new) /\ new.fresh = FALSE
  BY <1>4, KnownSlots DEF IsSlots
<1>6. "case" \notin set /\ "fresh" \in set
  OBVIOUS
<1>. HIDE DEF new, set
<1>7. IsSlots(slots) /\ slots.fresh = FALSE /\ (row.slots.case # 0 => slots.case # 0)
  <2>1. NoSlots.case = 0
    BY DEF NoSlots
  <2>2. DOMAIN row.slots = SlotNames /\ row.slots.image \in {"none", "deposit", "withdrawal"}
        /\ new.image \in {"none", "deposit", "withdrawal"}
    BY <1>5 DEF IsRow, IsSlots
  <2>3. DOMAIN slots = SlotNames /\ slots.image \in {row.slots.image, new.image}
        /\ slots.fresh = new.fresh
        /\ slots.case = IF new.case = 0 THEN row.slots.case ELSE new.case
    BY <1>6, <2>1, <2>2, KnownSlots DEF Merged
  <2>. HIDE DEF slots
  <2>. QED  BY <1>5, <2>2, <2>3 DEF IsSlots
<1>. HIDE DEF slots
<1>8. ((e.handoff \/ recheck.should_handoff) <=> commands # {})
      /\ \A c \in commands : c.type = "handoff"
  BY HandoffType
<1>9. recheck.should_handoff \in BOOLEAN
  BY DEF recheck, resolve_backend_recheck
<1>. HIDE DEF commands
<1>. QED  BY <1>1, <1>2, <1>7, <1>8, <1>9, EscalatedApplied

\* Every handler (build_result_handler, build_staff_reply_handler).
LEMMA HandlerApplied ==
    ASSUME NEW r, NEW read, NEW row, IsRow(read), IsRow(row), r.type \in ResultTypes
    PROVE  Applied(build_result_handler(r, read, row), r, row)
<1>1. ASSUME NEW m, IsSlots(m)
      PROVE  LET h == Waiting(r, m)
             IN  /\ h.status = "WAITING_EXTERNAL" /\ h.stage = "waiting_backend" /\ h.cmds = {}
                 /\ IsSlots(h.slots) /\ h.slots.fresh = FALSE /\ h.slots.case = m.case
  BY <1>1, KnownSlots DEF Waiting, IsSlots
<1>2. CASE r.type = "created"
  <2>. DEFINE m == [row.slots EXCEPT !.case = r.ev]
  <2>1. IsSlots(m) /\ m.case = r.ev
    BY KnownSlots DEF IsRow, IsSlots
  <2>2. build_result_handler(r, read, row) = Waiting(r, m)
    BY <1>2 DEF build_result_handler
  <2>. HIDE DEF m
  <2>3. LET h == Waiting(r, m)
        IN  /\ h.status = "WAITING_EXTERNAL" /\ h.stage = "waiting_backend" /\ h.cmds = {}
            /\ IsSlots(h.slots) /\ h.slots.fresh = FALSE /\ h.slots.case = r.ev
    BY <1>1, <2>1
  <2>. QED  BY <1>2, <2>2, <2>3 DEF Applied, Statuses
<1>3. CASE r.type = "appended"
  <2>1. build_result_handler(r, read, row) = Waiting(r, row.slots)
    BY <1>3 DEF build_result_handler
  <2>2. LET h == Waiting(r, row.slots)
        IN  /\ h.status = "WAITING_EXTERNAL" /\ h.stage = "waiting_backend" /\ h.cmds = {}
            /\ IsSlots(h.slots) /\ h.slots.fresh = FALSE /\ h.slots.case = row.slots.case
    BY <1>1 DEF IsRow
  <2>. QED  BY <1>3, <2>1, <2>2 DEF Applied, Statuses
<1>4. CASE r.type = "looked_up"
  <2>1. build_result_handler(r, read, row) = LookedUp(r, row)
    BY <1>4 DEF build_result_handler
  <2>2. LET m == [row.slots EXCEPT !.fresh = FALSE]
        IN  IsSlots(m) /\ m.fresh = FALSE /\ m.case = row.slots.case
    BY KnownSlots DEF IsRow, IsSlots
  <2>3. LET h == LookedUp(r, row)
        IN  /\ h.status \in {"AI_ACTIVE", "WAITING_EXTERNAL"} /\ h.cmds = {}
            /\ h.stage = "pending_reply_answered" /\ h.slots = [row.slots EXCEPT !.fresh = FALSE]
    BY DEF LookedUp
  <2>. QED  BY <1>4, <2>1, <2>2, <2>3 DEF Applied, Statuses
<1>5. CASE r.type = "answered"
  BY <1>5, FailedApplied, AnsweredApplied DEF build_result_handler
<1>6. CASE r.type = "staff"
  <2>1. build_result_handler(r, read, row) = build_staff_reply_handler(r, row)
    BY <1>6 DEF build_result_handler
  <2>2. CASE r.status = "under_review"
    <3>. DEFINE m == [row.slots EXCEPT !.staff = "received"]
    <3>1. IsSlots(m) /\ m.case = row.slots.case
      BY KnownSlots DEF IsRow, IsSlots
    <3>2. build_staff_reply_handler(r, row) = Waiting(r, m)
      BY <2>2 DEF build_staff_reply_handler
    <3>. HIDE DEF m
    <3>3. LET h == Waiting(r, m)
          IN  /\ h.status = "WAITING_EXTERNAL" /\ h.stage = "waiting_backend" /\ h.cmds = {}
              /\ IsSlots(h.slots) /\ h.slots.fresh = FALSE /\ h.slots.case = row.slots.case
      BY <1>1, <3>1
    <3>. QED  BY <1>6, <2>1, <3>2, <3>3 DEF Applied, Statuses
  <2>3. CASE r.status = "waiting_customer"
    <3>. DEFINE m == [row.slots EXCEPT !.staff = "ask_customer"]
                h == [Waiting(r, m) EXCEPT !.stage = "waiting_customer_supplement"]
    <3>1. IsSlots(m) /\ m.case = row.slots.case
      BY KnownSlots DEF IsRow, IsSlots
    <3>2. build_staff_reply_handler(r, row) = h
      BY <2>3 DEF build_staff_reply_handler
    <3>. HIDE DEF m
    <3>3. h.status = Waiting(r, m).status /\ h.slots = Waiting(r, m).slots
          /\ h.cmds = Waiting(r, m).cmds /\ h.stage = "waiting_customer_supplement"
      BY DEF Waiting
    <3>. HIDE DEF h
    <3>4. /\ h.status = "WAITING_EXTERNAL" /\ h.stage = "waiting_customer_supplement"
          /\ h.cmds = {} /\ IsSlots(h.slots) /\ h.slots.fresh = FALSE
          /\ h.slots.case = row.slots.case
      BY <1>1, <3>1, <3>3
    <3>. QED  BY <1>6, <2>1, <3>2, <3>4 DEF Applied, Statuses
  <2>4. CASE r.status \notin {"under_review", "waiting_customer"}
    <3>. DEFINE m == [row.slots EXCEPT !.resolvedAt = Len(sent) + 1, !.confirmed = FALSE,
                                       !.case = 0, !.staff = "none", !.fresh = FALSE]
    <3>1. IsSlots(m) /\ m.fresh = FALSE
      BY KnownSlots DEF IsRow, IsSlots
    <3>2. LET h == Resolved(row)
          IN  h.status = "AI_ACTIVE" /\ h.stage = "completed" /\ h.slots = m /\ h.cmds = {}
      BY DEF Resolved
    <3>3. build_staff_reply_handler(r, row) = Resolved(row)
      BY <2>4 DEF build_staff_reply_handler
    <3>. HIDE DEF m
    <3>. QED  BY <1>6, <2>1, <3>1, <3>2, <3>3 DEF Applied, Statuses
  <2>. QED  BY <2>2, <2>3, <2>4
<1>. QED  BY <1>2, <1>3, <1>4, <1>5, <1>6 DEF ResultTypes

-----------------------------------------------------------------------------
(* The invariant *)

Numbers == Nat \ {0}
Arrivals == [m : UNION {Topics[p].messages : p \in DOMAIN Topics}, thread : Threads, ev : Numbers]

WorkFields == {"m", "thread", "ev", "snap", "old", "inherited", "cases"}
ReadFields == {"result", "snap", "old"}
CardFields == {"thread", "ev", "intent", "shot", "at", "current", "reminded"}

\* Whom a command, a result or a card is about.
IsAbout(x) == x.thread \in Threads /\ x.ev \in Numbers
IsResult(r) == IsAbout(r) /\ r.type \in ResultTypes
IsRead(x) == DOMAIN x = ReadFields /\ IsResult(x.result) /\ IsRow(x.snap)
IsCard(k) == DOMAIN k = CardFields /\ IsAbout(k) /\ k.current \in Threads
IsWork(e) ==
    /\ DOMAIN e = WorkFields /\ IsAbout(e) /\ IsRow(e.snap)
    /\ \A k \in e.cases : k.intent \in MoneySops

\* What every value looks like.
Shape ==
    /\ topic \in DOMAIN Topics /\ crashes \in 0 .. MaxCrashes
    /\ DOMAIN conv = Threads /\ \A t \in Threads : IsRow(conv[t])
    /\ inbox \in Seq(Arrivals) /\ sent \in Seq(Threads)
    /\ turn # <<>> => /\ turn = <<turn[1]>> /\ IsWork(turn[1])
                      /\ inbox # <<>> /\ turn[1].ev = Head(inbox).ev
    /\ \A c \in cmds : IsAbout(c)
    /\ \A r \in results : IsResult(r)
    /\ \A x \in reads : IsRead(x)
    /\ \A k \in cards : IsCard(k)
    /\ DOMAIN handoffs = Threads

\* A thread has commands, results and cards only once something was written to it,
\* so that it no longer continues the workflow of another.
OnlyOfWritten ==
    /\ \A c \in cmds : ~conv[c.thread].slots.fresh
    /\ \A r \in results : ~conv[r.thread].slots.fresh
    /\ \A x \in reads : ~conv[x.result.thread].slots.fresh
    /\ \A k \in cards : ~conv[k.thread].slots.fresh /\ ~conv[k.current].slots.fresh

\* The gateway knows when it works on an old row.
AgedKnown ==
    turn # <<>> /\ ~turn[1].old /\ ~turn[1].inherited => turn[1].snap = conv[turn[1].thread]

\* A case that was recorded is in the row until staff close one.
CaseRecorded ==
    \A k \in cards : k.at = "known" /\ k.thread \notin stale => conv[k.thread].slots.case # 0

Inv ==
    /\ Shape /\ OnlyOfWritten /\ AgedKnown
    /\ OneHandoffPerThread /\ OwnHandoffSilences /\ QueryingHasQuery /\ CaseRecorded

-----------------------------------------------------------------------------
(* Every step keeps it *)

\* The row as the application sees it: the thread's own, or that of a thread
\* no human has been asked for (get_or_create, _is_continuable_previous_thread).
LEMMA RowSeen ==
    ASSUME Shape, NEW t \in Threads
    PROVE  /\ IsRow(get_or_create(t))
           /\ ~Inherits(t) => get_or_create(t) = conv[t]
           /\ Inherits(t) => ~Locked(get_or_create(t)) /\ conv[t].slots.fresh
           /\ Locked(get_or_create(t)) => Locked(conv[t])
<1>1. CASE Inherits(t)
  <2>1. PICK p \in Threads \ {t} : _is_continuable_previous_thread(conv[p])
    BY <1>1 DEF Inherits
  <2>. DEFINE q == CHOOSE p_1 \in Threads \ {t} : _is_continuable_previous_thread(conv[p_1])
  <2>2. q \in Threads /\ _is_continuable_previous_thread(conv[q])
    BY <2>1
  <2>3. get_or_create(t) = conv[q]
    BY <1>1 DEF get_or_create
  <2>. HIDE DEF q
  <2>. QED  BY <1>1, <2>2, <2>3
            DEF Shape, Inherits, _is_continuable_previous_thread, Locked, _is_fresh_ai_state
<1>2. CASE ~Inherits(t)
  BY <1>2 DEF Shape, get_or_create
<1>. QED  BY <1>1, <1>2

\* The bound on crashes is a number.
LEMMA CrashesBounded ==
    ASSUME Shape
    PROVE  MaxCrashes \in Nat /\ crashes \in Nat
BY TopicsAssumption DEF Shape, MaxCrashes

\* Initially.
LEMMA InitInv == Init => Inv
<1>. SUFFICES ASSUME Init PROVE Inv
  OBVIOUS
<1>. USE DEF Init
<1>1. Fresh.status = "AI_ACTIVE" /\ Fresh.stage = "none" /\ Fresh.slots = NoSlots
  BY DEF Fresh
<1>2. IsSlots(NoSlots)
  BY DEF IsSlots, SlotNames, NoSlots
<1>3. IsRow(Fresh)
  BY <1>1, <1>2 DEF IsRow, Statuses
<1>4. MaxCrashes \in Nat
  BY TopicsAssumption DEF MaxCrashes
<1>5. Shape
  BY <1>3, <1>4 DEF Shape
<1>6. OnlyOfWritten /\ AgedKnown /\ OwnHandoffSilences /\ CaseRecorded
  BY DEF OnlyOfWritten, AgedKnown, OwnHandoffSilences, CaseRecorded
<1>7. OneHandoffPerThread /\ QueryingHasQuery
  BY <1>1 DEF OneHandoffPerThread, QueryingHasQuery
<1>. QED  BY <1>5, <1>6, <1>7 DEF Inv

\* A message of the customer (Send).
LEMMA SendStep ==
    ASSUME Inv, NEW m \in Messages, NEW t \in Threads, Send(m, t)
    PROVE  Inv'
<1>. DEFINE arrival == [m |-> m, thread |-> t, ev |-> Len(sent) + 1]
<1>1. Shape
  BY DEF Inv
<1>2. arrival \in Arrivals /\ sent' \in Seq(Threads)
  BY <1>1 DEF Send, Shape, Arrivals, Numbers, Messages
<1>3. inbox' = Append(inbox, arrival)
  BY DEF Send
<1>. HIDE DEF arrival
<1>4. inbox' \in Seq(Arrivals) /\ (inbox # <<>> => inbox' # <<>> /\ Head(inbox') = Head(inbox))
  BY <1>1, <1>2, <1>3 DEF Shape
<1>5. Shape'
  BY <1>1, <1>2, <1>4 DEF Send, Shape, MaxCrashes
<1>6. OnlyOfWritten' /\ AgedKnown' /\ OwnHandoffSilences' /\ CaseRecorded'
  BY DEF Inv, Send, OnlyOfWritten, AgedKnown, OwnHandoffSilences, CaseRecorded
<1>7. OneHandoffPerThread' /\ QueryingHasQuery'
  BY DEF Inv, Send, OneHandoffPerThread, QueryingHasQuery, Outstanding
<1>. QED  BY <1>5, <1>6, <1>7 DEF Inv

\* The gateway reads the row (Receive).
LEMMA ReceiveStep ==
    ASSUME Inv, Receive
    PROVE  Inv'
<1>. DEFINE e == Head(inbox)
            work == [m |-> e.m, thread |-> e.thread, ev |-> e.ev,
                     snap |-> get_or_create(e.thread), old |-> FALSE,
                     inherited |-> Inherits(e.thread),
                     cases |-> list_money_case_candidates(e.thread)]
<1>1. Shape /\ inbox # <<>>
  BY DEF Inv, Receive
<1>2. e \in Arrivals
  BY <1>1 DEF Shape
<1>. HIDE DEF e
<1>3. IsAbout(e)
  BY <1>2 DEF Arrivals, IsAbout
<1>4. turn' = <<work>>
  BY DEF Receive, e
<1>5. /\ IsRow(get_or_create(e.thread))
      /\ ~Inherits(e.thread) => get_or_create(e.thread) = conv[e.thread]
      /\ Locked(get_or_create(e.thread)) => Locked(conv[e.thread])
  BY <1>1, <1>3, RowSeen DEF IsAbout
<1>6. /\ IsWork(work) /\ work.ev = e.ev /\ work.thread = e.thread
      /\ work.snap = get_or_create(e.thread) /\ work.inherited = Inherits(e.thread)
  <2>1. \A k \in list_money_case_candidates(e.thread) : k.intent \in MoneySops
    BY DEF list_money_case_candidates
  <2>. QED  BY <1>3, <1>5, <2>1 DEF IsWork, IsAbout, WorkFields
<1>. HIDE DEF work
<1>7. turn' # <<>> /\ turn'[1] = work
  BY <1>4
<1>8. Shape'
  BY <1>1, <1>4, <1>6, <1>7 DEF Receive, Shape, MaxCrashes, e
<1>9. AgedKnown'
  BY <1>5, <1>6, <1>7 DEF Receive, AgedKnown
<1>10. OwnHandoffSilences'
  <2>1. e.thread \in Threads /\ conv[e.thread].status \in Statuses
    BY <1>1, <1>3 DEF IsAbout, Shape, IsRow
  <2>2. Locked(work.snap) => conv[e.thread].status = "HANDOFF_REQUESTED"
    BY <1>5, <1>6, <2>1 DEF Locked, Statuses
  <2>. QED  BY <1>6, <1>7, <2>1, <2>2 DEF Inv, Receive, OwnHandoffSilences, OneHandoffPerThread
<1>11. OnlyOfWritten' /\ CaseRecorded'
  BY DEF Inv, Receive, OnlyOfWritten, CaseRecorded
<1>12. OneHandoffPerThread' /\ QueryingHasQuery'
  BY DEF Inv, Receive, OneHandoffPerThread, QueryingHasQuery, Outstanding
<1>. QED  BY <1>8, <1>9, <1>10, <1>11, <1>12 DEF Inv

\* A turn is dropped, or the conversation is a human's (TurnFails, SkipTurn).
LEMMA DropStep ==
    ASSUME Inv, TurnFails \/ SkipTurn
    PROVE  Inv'
<1>1. Shape
  BY DEF Inv
<1>2. turn' = <<>> /\ UNCHANGED <<topic, conv, sent, cmds, results, reads, cards, handoffs, stale>>
  BY DEF TurnFails, SkipTurn, Consume
<1>3. crashes' \in 0 .. MaxCrashes
  BY <1>1, CrashesBounded DEF TurnFails, SkipTurn, Shape
<1>4. inbox' \in Seq(Arrivals)
  <2>1. inbox \in Seq(Arrivals) /\ inbox # <<>> => Tail(inbox) \in Seq(Arrivals)
    OBVIOUS
  <2>2. inbox \in Seq(Arrivals) /\ inbox # <<>>
    BY <1>1 DEF TurnFails, SkipTurn, Shape
  <2>. QED  BY <2>1, <2>2 DEF TurnFails, SkipTurn, Consume
<1>5. Shape'
  BY <1>1, <1>2, <1>3, <1>4 DEF Shape, MaxCrashes
<1>6. OnlyOfWritten' /\ AgedKnown' /\ OwnHandoffSilences' /\ CaseRecorded'
  BY <1>2 DEF Inv, OnlyOfWritten, AgedKnown, OwnHandoffSilences, CaseRecorded
<1>7. OneHandoffPerThread' /\ QueryingHasQuery'
  BY <1>2 DEF Inv, OneHandoffPerThread, QueryingHasQuery, Outstanding
<1>. QED  BY <1>5, <1>6, <1>7 DEF Inv

\* The rows of commands inserted for event ev of thread t (Inserted, HandoffIn).
LEMMA InsertedRows ==
    ASSUME NEW t \in Threads, NEW ev \in Numbers, NEW commands
    PROVE  /\ \A c \in Inserted(t, ev, commands) : IsAbout(c) /\ c.thread = t /\ c.ev = ev
           /\ (\E c \in Inserted(t, ev, commands) : c.type = "query") <=>
                 (\E c \in commands : c.type = "query")
           /\ (\E c \in Inserted(t, ev, commands) : c.type = "card") <=>
                 (\E c \in commands : c.type = "card")
           /\ HandoffIn(Inserted(t, ev, commands)) =
                  IF \E c \in commands : c.type = "handoff" THEN 1 ELSE 0
<1>. DEFINE Row(c) == [type |-> c.type, intent |-> c.intent, identity |-> c.identity,
                       shot |-> c.shot, case |-> c.case, thread |-> t, ev |-> ev]
            New == {c \in commands : c.type = "remind" =>
                       \A k \in cards : k.ev = c.case => t \notin k.reminded}
<1>1. Inserted(t, ev, commands) = {Row(c) : c \in New}
  BY DEF Inserted
<1>2. \A c : Row(c).type = c.type /\ Row(c).thread = t /\ Row(c).ev = ev
  OBVIOUS
<1>3. New \subseteq commands /\ \A c \in commands : c.type # "remind" => c \in New
  OBVIOUS
<1>. HIDE DEF Row, New
<1>4. \A c \in Inserted(t, ev, commands) : IsAbout(c) /\ c.thread = t /\ c.ev = ev
  BY <1>1, <1>2 DEF IsAbout
<1>5. \A type : type # "remind" =>
         ((\E c \in Inserted(t, ev, commands) : c.type = type) <=>
          (\E c \in commands : c.type = type))
  BY <1>1, <1>2, <1>3
<1>. QED  BY <1>4, <1>5 DEF HandoffIn

\* A queued card (NewCards).
LEMMA NewCardsQueued ==
    ASSUME NEW commands, \A c \in commands : IsAbout(c)
    PROVE  /\ \A k \in NewCards(commands) : IsCard(k) /\ k.at = "queued"
           /\ \A k \in NewCards(commands) : \E c \in commands :
                 c.type = "card" /\ k.thread = c.thread /\ k.ev = c.ev /\ k.current = c.thread
BY DEF NewCards, IsCard, IsAbout, CardFields

\* Reminders change nothing of a case but which they are (Reminding).
LEMMA RemindersOnly ==
    ASSUME NEW t, NEW commands, \A k \in cards : IsCard(k)
    PROVE  /\ \A y \in Reminding(t, commands) : IsCard(y) /\ \E k \in cards :
                 /\ y.thread = k.thread /\ y.ev = k.ev /\ y.at = k.at
                 /\ y.intent = k.intent /\ y.current = k.current
           /\ \A k \in cards : \E y \in Reminding(t, commands) :
                 y.thread = k.thread /\ y.ev = k.ev
<1>. DEFINE Told(k) == IF \E c \in commands : c.type = "remind" /\ c.case = k.ev
                       THEN [k EXCEPT !.reminded = @ \cup {t}] ELSE k
<1>1. Reminding(t, commands) = {Told(k) : k \in cards}
  BY DEF Reminding
<1>2. \A k \in cards : /\ IsCard(Told(k)) /\ Told(k).thread = k.thread /\ Told(k).ev = k.ev
                       /\ Told(k).at = k.at /\ Told(k).intent = k.intent
                       /\ Told(k).current = k.current
  BY DEF IsCard, IsAbout, CardFields
<1>. HIDE DEF Told
<1>. QED  BY <1>1, <1>2

\* Reads grow old, and nothing else happens to them (AgedReads).
LEMMA ReadsAged ==
    ASSUME NEW t, NEW rest, \A x \in rest : IsRead(x)
    PROVE  /\ \A y \in AgedReads(t, rest) : IsRead(y) /\ \E x \in rest : y.result = x.result
           /\ \A x \in rest : \E y \in AgedReads(t, rest) : y.result = x.result
<1>. DEFINE Aged(x) == IF x.result.thread = t THEN [x EXCEPT !.old = TRUE] ELSE x
<1>1. AgedReads(t, rest) = {Aged(x) : x \in rest}
  BY DEF AgedReads
<1>2. \A x \in rest : IsRead(Aged(x)) /\ Aged(x).result = x.result
  BY DEF IsRead, ReadFields
<1>. HIDE DEF Aged
<1>. QED  BY <1>1, <1>2

\* What a commit of the gateway does: the row of its thread, computed from the
\* one of now unless it is old or inherited, and its commands.
TurnCommitted(t, row, commands) ==
    LET new == Inserted(t, turn[1].ev, commands)
    IN  /\ turn # <<>> /\ t = turn[1].thread /\ turn[1].ev \in Numbers /\ inbox # <<>>
        /\ ~Locked(conv[t]) /\ ~Locked(turn[1].snap)
        /\ IsRow(row) /\ row.slots.fresh = FALSE
        /\ row.status = "HANDOFF_REQUESTED" <=> \E c \in commands : c.type = "handoff"
        /\ t \notin stale' =>
              /\ t \notin stale /\ turn[1].snap = conv[t]
              /\ row.slots.case = conv[t].slots.case
              /\ row.stage = "backend_querying" =>
                    \/ conv[t].stage = "backend_querying"
                    \/ \E c \in commands : c.type = "query"
              /\ (\E c \in commands : c.type = "card") => conv[t].slots.case = 0
        /\ \A c \in commands : c.type = "card" => c.intent \in MoneySops
        /\ conv' = [conv EXCEPT ![t] = row] /\ cmds' = cmds \cup new
        /\ reads' = AgedReads(t, reads) /\ cards' = Reminding(t, new) \cup NewCards(new)
        /\ handoffs' = [handoffs EXCEPT ![t] = @ + HandoffIn(new)]
        /\ stale \subseteq stale' /\ stale' \subseteq stale \cup {t}
        /\ turn' = <<>> /\ inbox' = Tail(inbox)
        /\ UNCHANGED <<topic, sent, results, crashes>>

\* (CommitTurn, process_event_transactionally)
LEMMA CommitTurnEffect ==
    ASSUME Inv, NEW d, NEW plan, NEW fails, NEW eligible, CommitTurn(d, plan, fails, eligible)
    PROVE  \E t \in Threads : \E row, commands :
              /\ TurnCommitted(t, row, commands)
              /\ row.active = process_event(turn[1].m, turn[1].ev, turn[1].snap, eligible, d,
                                            plan, fails).active
<1>. DEFINE e == turn[1]
            t == e.thread
            graph == process_event(e.m, e.ev, e.snap, eligible, d, plan, fails)
            row == update_workflow_state(conv[t], graph)
            new == Inserted(t, e.ev, graph.cmds)
<1>1. Shape /\ turn # <<>> /\ ~Locked(e.snap) /\ ~Locked(conv[t]) /\ eligible \subseteq e.cases
  BY DEF Inv, CommitTurn
<1>2. IsWork(e) /\ t \in Threads /\ e.ev \in Numbers /\ IsRow(e.snap) /\ IsRow(conv[t])
      /\ inbox # <<>> /\ \A k \in eligible : k.intent \in MoneySops
  BY <1>1 DEF Shape, IsWork, IsAbout
<1>3. Sound(graph, e.snap)
  BY <1>1, <1>2, TurnSound
<1>4. /\ conv' = [conv EXCEPT ![t] = row] /\ cmds' = cmds \cup new
      /\ reads' = AgedReads(t, reads) /\ cards' = Reminding(t, new) \cup NewCards(new)
      /\ handoffs' = [handoffs EXCEPT ![t] = @ + HandoffIn(new)]
      /\ stale' = (IF e.old \/ e.inherited THEN stale \cup {t} ELSE stale)
      /\ turn' = <<>> /\ inbox' = Tail(inbox) /\ UNCHANGED <<topic, sent, results, crashes>>
  BY DEF CommitTurn, Consume
<1>5. /\ row.status = IF graph.status = "none" THEN conv[t].status ELSE graph.status
      /\ row.stage = graph.stage /\ row.slots = graph.slots /\ row.active = graph.active
  BY DEF update_workflow_state
<1>6. t \notin stale' => e.snap = conv[t] /\ t \notin stale
  BY <1>1, <1>4 DEF Inv, AgedKnown
<1>. HIDE DEF e, t, graph, row
<1>7. row.status \in Statuses
      /\ (row.status = "HANDOFF_REQUESTED" <=> graph.status = "HANDOFF_REQUESTED")
  BY <1>1, <1>2, <1>3, <1>5 DEF Sound, IsRow, Statuses, Locked
<1>8. /\ row.status = "HANDOFF_REQUESTED" <=> \E c \in graph.cmds : c.type = "handoff"
      /\ IsRow(row) /\ row.slots.fresh = FALSE /\ row.slots.case = e.snap.slots.case
      /\ row.stage = "backend_querying" =>
            e.snap.stage = "backend_querying" \/ \E c \in graph.cmds : c.type = "query"
      /\ (\E c \in graph.cmds : c.type = "card") => e.snap.slots.case = 0
      /\ \A c \in graph.cmds : c.type = "card" => c.intent \in MoneySops
  BY <1>3, <1>5, <1>7 DEF Sound, TurnOf, IsRow
<1>9. turn # <<>> /\ t = turn[1].thread /\ turn[1].ev = e.ev /\ turn[1].snap = e.snap
  BY <1>1 DEF e, t
<1>. DEFINE commands == graph.cmds
<1>10. TurnCommitted(t, row, commands)
  <2>1. /\ row.status = "HANDOFF_REQUESTED" <=> \E c \in commands : c.type = "handoff"
        /\ t \notin stale' =>
              /\ t \notin stale /\ turn[1].snap = conv[t]
              /\ row.slots.case = conv[t].slots.case
              /\ row.stage = "backend_querying" =>
                    \/ conv[t].stage = "backend_querying"
                    \/ \E c \in commands : c.type = "query"
              /\ (\E c \in commands : c.type = "card") => conv[t].slots.case = 0
        /\ \A c \in commands : c.type = "card" => c.intent \in MoneySops
    BY <1>6, <1>8, <1>9
  <2>2. stale \subseteq stale' /\ stale' \subseteq stale \cup {t}
    BY <1>4
  <2>3. new = Inserted(t, turn[1].ev, commands)
    BY <1>9
  <2>. HIDE DEF commands
  <2>. QED  BY <1>1, <1>2, <1>4, <1>8, <1>9, <2>1, <2>2, <2>3 DEF TurnCommitted
<1>11. row.active = process_event(turn[1].m, turn[1].ev, turn[1].snap, eligible, d, plan,
                                  fails).active
  BY <1>5 DEF graph, e
<1>. HIDE DEF commands
<1>. QED  BY <1>2, <1>10, <1>11

\* Rows other than the one written stay (CommitTurn, CommitResult).
LEMMA RowWritten ==
    ASSUME Shape, NEW t \in Threads, NEW row, IsRow(row), row.slots.fresh = FALSE,
           conv' = [conv EXCEPT ![t] = row]
    PROVE  /\ DOMAIN conv' = Threads /\ conv'[t] = row
           /\ \A p \in Threads : p # t => conv'[p] = conv[p]
           /\ \A p \in Threads : IsRow(conv'[p])
           /\ \A p \in Threads : ~conv[p].slots.fresh => ~conv'[p].slots.fresh
BY DEF Shape

\* A thread that is not a human's asks for one exactly when its new row says so.
LEMMA HandoffCounted ==
    ASSUME Shape, OneHandoffPerThread, NEW t \in Threads, NEW row, NEW new,
           ~Locked(conv[t]), IsRow(row), row.slots.fresh = FALSE,
           conv' = [conv EXCEPT ![t] = row],
           handoffs' = [handoffs EXCEPT ![t] = @ + HandoffIn(new)],
           HandoffIn(new) = IF row.status = "HANDOFF_REQUESTED" THEN 1 ELSE 0
    PROVE  /\ OneHandoffPerThread' /\ DOMAIN handoffs' = Threads
           /\ \A p \in Threads : handoffs[p] = 1 => handoffs'[p] = 1
<1>1. handoffs[t] = 0
  BY DEF OneHandoffPerThread, Locked
<1>2. handoffs'[t] = HandoffIn(new) /\ \A p \in Threads : p # t => handoffs'[p] = handoffs[p]
  BY <1>1 DEF Shape
<1>3. conv'[t] = row /\ \A p \in Threads : p # t => conv'[p] = conv[p]
  BY RowWritten
<1>4. OneHandoffPerThread'
  BY <1>2, <1>3 DEF OneHandoffPerThread
<1>. QED  BY <1>1, <1>2, <1>4 DEF Shape

\* A commit of the gateway (CommitTurn).
LEMMA CommitTurnStep ==
    ASSUME Inv, NEW t \in Threads, NEW row, NEW commands, TurnCommitted(t, row, commands)
    PROVE  Inv'
<1>. DEFINE new == Inserted(t, turn[1].ev, commands)
<1>1. Shape /\ OneHandoffPerThread
  BY DEF Inv
<1>2. /\ ~Locked(conv[t]) /\ IsRow(row) /\ row.slots.fresh = FALSE /\ turn[1].ev \in Numbers
      /\ inbox # <<>>
      /\ conv' = [conv EXCEPT ![t] = row] /\ cmds' = cmds \cup new
      /\ reads' = AgedReads(t, reads) /\ cards' = Reminding(t, new) \cup NewCards(new)
      /\ handoffs' = [handoffs EXCEPT ![t] = @ + HandoffIn(new)]
      /\ stale \subseteq stale' /\ stale' \subseteq stale \cup {t}
      /\ turn' = <<>> /\ inbox' = Tail(inbox) /\ UNCHANGED <<topic, sent, results, crashes>>
      /\ row.status = "HANDOFF_REQUESTED" <=> \E c \in commands : c.type = "handoff"
  BY DEF TurnCommitted
<1>3. t \notin stale' =>
        /\ t \notin stale /\ row.slots.case = conv[t].slots.case
        /\ row.stage = "backend_querying" =>
              \/ conv[t].stage = "backend_querying"
              \/ \E c \in commands : c.type = "query"
  BY DEF TurnCommitted
<1>4. /\ \A c \in new : IsAbout(c) /\ c.thread = t
      /\ (\E c \in new : c.type = "query") <=> (\E c \in commands : c.type = "query")
      /\ HandoffIn(new) = IF row.status = "HANDOFF_REQUESTED" THEN 1 ELSE 0
  <2>1. /\ \A c \in new : IsAbout(c) /\ c.thread = t
        /\ (\E c \in new : c.type = "query") <=> (\E c \in commands : c.type = "query")
        /\ HandoffIn(new) = IF \E c \in commands : c.type = "handoff" THEN 1 ELSE 0
    <3>1. turn[1].ev \in Numbers
      BY <1>2
    <3>2. \A ev \in Numbers :
             LET rows == Inserted(t, ev, commands)
             IN  /\ \A c \in rows : IsAbout(c) /\ c.thread = t
                 /\ (\E c \in rows : c.type = "query") <=> (\E c \in commands : c.type = "query")
                 /\ HandoffIn(rows) = IF \E c \in commands : c.type = "handoff" THEN 1 ELSE 0
      BY InsertedRows
    <3>. QED  BY <3>1, <3>2
  <2>2. row.status = "HANDOFF_REQUESTED" <=> \E c \in commands : c.type = "handoff"
    BY <1>2
  <2>. HIDE DEF new
  <2>. QED  BY <2>1, <2>2
<1>. HIDE DEF new
<1>5. \A k \in cards' :
        /\ IsCard(k)
        /\ \/ k.at = "queued" /\ k.thread = t /\ k.current = t
           \/ \E j \in cards : k.thread = j.thread /\ k.at = j.at /\ k.current = j.current
  <2>1. \A c \in new : IsAbout(c)
    BY <1>4
  <2>2. \A k \in NewCards(new) : IsCard(k) /\ k.at = "queued" /\ k.thread = t /\ k.current = t
    BY <1>4, <2>1, NewCardsQueued
  <2>3. \A k \in cards : IsCard(k)
    BY <1>1 DEF Shape
  <2>4. \A k \in Reminding(t, new) : /\ IsCard(k)
                                    /\ \E j \in cards : /\ k.thread = j.thread /\ k.at = j.at
                                                        /\ k.current = j.current
    BY <2>3, RemindersOnly
  <2>. QED  BY <1>2, <2>2, <2>4
<1>6. /\ \A y \in AgedReads(t, reads) : IsRead(y) /\ \E x \in reads : y.result = x.result
      /\ \A x \in reads : \E y \in AgedReads(t, reads) : y.result = x.result
  <2>1. \A x \in reads : IsRead(x)
    BY <1>1 DEF Shape
  <2>. QED  BY <2>1, ReadsAged
<1>7. /\ DOMAIN conv' = Threads /\ conv'[t] = row
      /\ \A p \in Threads : p # t => conv'[p] = conv[p]
      /\ \A p \in Threads : IsRow(conv'[p])
      /\ \A p \in Threads : ~conv[p].slots.fresh => ~conv'[p].slots.fresh
  BY <1>1, <1>2, RowWritten
<1>8. OneHandoffPerThread' /\ DOMAIN handoffs' = Threads
  BY <1>1, <1>2, <1>4, HandoffCounted
<1>9. inbox' \in Seq(Arrivals)
  BY <1>1, <1>2 DEF Shape
<1>10. Shape'
  BY <1>1, <1>2, <1>4, <1>5, <1>6, <1>7, <1>8, <1>9 DEF Shape, MaxCrashes
<1>11. OnlyOfWritten'
  <2>1. OnlyOfWritten
    BY DEF Inv
  <2>2. ~conv'[t].slots.fresh
    BY <1>2, <1>7
  <2>3. \A c \in cmds' : ~conv'[c.thread].slots.fresh
    BY <1>1, <1>2, <1>4, <1>7, <2>1, <2>2 DEF OnlyOfWritten, Shape, IsAbout
  <2>4. \A r \in results' : ~conv'[r.thread].slots.fresh
    BY <1>1, <1>2, <1>7, <2>1 DEF OnlyOfWritten, Shape, IsResult, IsAbout
  <2>5. \A x \in reads' : ~conv'[x.result.thread].slots.fresh
    BY <1>1, <1>2, <1>6, <1>7, <2>1 DEF OnlyOfWritten, Shape, IsRead, IsResult, IsAbout
  <2>6. \A k \in cards' : ~conv'[k.thread].slots.fresh /\ ~conv'[k.current].slots.fresh
    BY <1>1, <1>2, <1>5, <1>7, <2>1, <2>2 DEF OnlyOfWritten, Shape, IsCard, IsAbout
  <2>. QED  BY <2>3, <2>4, <2>5, <2>6 DEF OnlyOfWritten
<1>12. AgedKnown' /\ OwnHandoffSilences'
  BY <1>2 DEF AgedKnown, OwnHandoffSilences
<1>13. QueryingHasQuery'
  <2>1. \A p \in Threads : Outstanding(p) => Outstanding(p)'
    BY <1>2, <1>6 DEF Outstanding
  <2>2. (\E c \in new : c.type = "query") => Outstanding(t)'
    BY <1>2, <1>4 DEF Outstanding
  <2>3. QueryingHasQuery
    BY DEF Inv
  <2>4. ASSUME NEW p \in Threads \ stale', conv'[p].stage = "backend_querying",
               ~Locked(conv'[p])
        PROVE  Outstanding(p)'
    <3>1. CASE p # t
      <4>1. p \in Threads \ stale /\ conv'[p] = conv[p]
        BY <1>2, <1>7, <3>1
      <4>2. Outstanding(p)
        BY <2>3, <2>4, <4>1 DEF QueryingHasQuery
      <4>. QED  BY <2>1, <4>1, <4>2
    <3>2. CASE p = t
      <4>1. \/ conv[t].stage = "backend_querying" \/ \E c \in new : c.type = "query"
        BY <1>3, <1>4, <1>7, <2>4, <3>2
      <4>2. conv[t].stage = "backend_querying" => Outstanding(t)
        BY <1>2, <1>3, <2>3, <2>4, <3>2 DEF QueryingHasQuery
      <4>. QED  BY <2>1, <2>2, <3>2, <4>1, <4>2
    <3>. QED  BY <3>1, <3>2
  <2>. QED  BY <2>4 DEF QueryingHasQuery
<1>14. CaseRecorded'
  <2>1. CaseRecorded
    BY DEF Inv
  <2>2. ASSUME NEW k \in cards', k.at = "known", k.thread \notin stale'
        PROVE  conv'[k.thread].slots.case # 0
    <3>1. /\ \E j \in cards : k.thread = j.thread /\ j.at = "known"
          /\ k.thread \in Threads /\ k.thread \notin stale
      BY <1>1, <1>2, <1>5, <2>2 DEF Shape, IsCard, IsAbout
    <3>2. conv[k.thread].slots.case # 0
      BY <2>1, <2>2, <3>1 DEF CaseRecorded
    <3>. QED  BY <1>3, <1>7, <2>2, <3>1, <3>2
  <2>. QED  BY <2>2 DEF CaseRecorded
<1>. QED  BY <1>8, <1>10, <1>11, <1>12, <1>13, <1>14 DEF Inv

-----------------------------------------------------------------------------
(* The command worker and the result consumer *)

\* The case of a reminder goes to the thread of the reminder (ExecuteReminder).
CardsRemind(c) ==
    {IF k.ev = c.case THEN [k EXCEPT !.current = c.thread] ELSE k : k \in cards}

LEMMA CardsReminded ==
    ASSUME NEW c, IsAbout(c), \A k \in cards : IsCard(k)
    PROVE  \A y \in CardsRemind(c) :
              /\ IsCard(y)
              /\ \E k \in cards : /\ y.thread = k.thread /\ y.ev = k.ev /\ y.at = k.at
                                  /\ y.intent = k.intent
                                  /\ y.current = k.current \/ y.current = c.thread
<1>. DEFINE Told(k) == IF k.ev = c.case THEN [k EXCEPT !.current = c.thread] ELSE k
<1>1. CardsRemind(c) = {Told(k) : k \in cards}
  BY DEF CardsRemind
<1>2. \A k \in cards : /\ IsCard(Told(k)) /\ Told(k).thread = k.thread /\ Told(k).ev = k.ev
                       /\ Told(k).at = k.at /\ Told(k).intent = k.intent
                       /\ Told(k).current = k.current \/ Told(k).current = c.thread
  BY DEF IsCard, IsAbout, CardFields
<1>. HIDE DEF Told
<1>. QED  BY <1>1, <1>2

\* A card gets further, or is closed, and stays the card it was (CardAt).
LEMMA CardsMoved ==
    ASSUME NEW c, NEW from, NEW to, \A k \in cards : IsCard(k)
    PROVE  \A k \in CardAt(c, from, to) :
              /\ IsCard(k)
              /\ \E j \in cards : /\ k.thread = j.thread /\ k.ev = j.ev
                                  /\ k.current = j.current
                                  /\ k = j \/ (k.at = to /\ j.thread = c.thread)
              /\ k.thread = c.thread /\ k.ev = c.ev /\ k.at \in from => k.at = to
<1>. DEFINE Went(k) == IF k.thread = c.thread /\ k.ev = c.ev /\ k.at \in from
                        THEN [k EXCEPT !.at = to] ELSE k
<1>1. CardAt(c, from, to) = {Went(k) : k \in cards}
  BY DEF CardAt
<1>2. \A k \in cards : /\ IsCard(Went(k)) /\ Went(k).thread = k.thread /\ Went(k).ev = k.ev
                       /\ Went(k).current = k.current
                       /\ Went(k) = k \/ (Went(k).at = to /\ k.thread = c.thread)
                       /\ k.thread = c.thread /\ k.ev = c.ev /\ Went(k).at \in from =>
                             Went(k).at = to
  BY DEF IsCard, IsAbout, CardFields
<1>. HIDE DEF Went
<1>. QED  BY <1>1, <1>2

\* What the execution of a command does: a query always has an answer.
CommandExecuted(c, new) ==
    /\ c \in cmds /\ cmds' = cmds \ {c} /\ results' = results \cup new
    /\ \A r \in new : r.thread = c.thread /\ r.ev = c.ev /\ r.type \in ResultTypes
    /\ c.type = "query" => \E r \in new : r.type = "answered"
    /\ \/ cards' = cards \/ cards' = CardAt(c, {"queued"}, "posted")
       \/ cards' = CardsRemind(c)
    /\ crashes' \in 0 .. MaxCrashes
    /\ UNCHANGED <<topic, conv, inbox, sent, turn, reads, handoffs, disputed, stale>>

\* (Executed and the actions that use it)
LEMMA ExecuteEffect ==
    ASSUME Shape, Execute
    PROVE  \E c \in cmds : \E new : CommandExecuted(c, new)
<1>1. PICK c \in cmds :
        \/ ExecuteCard(c) \/ CardFails(c) \/ ExecuteAppend(c) \/ ExecuteReminder(c)
        \/ ExecuteHandoff(c)
        \/ \E a \in Answers : ExecuteQuery(c, a)
        \/ \E f \in Found : ExecuteLookup(c, f)
  BY DEF Execute
<1>2. \A type, status, fingerprint :
        LET r == Result(c, type, status, fingerprint)
        IN  r.thread = c.thread /\ r.ev = c.ev /\ r.type = type
  BY DEF Result
<1>3. crashes \in 0 .. MaxCrashes
  BY DEF Shape
<1>4. ASSUME NEW new, Executed(c, new),
             \A r \in new : r.thread = c.thread /\ r.ev = c.ev /\ r.type \in ResultTypes,
             c.type = "query" => \E r \in new : r.type = "answered"
      PROVE  CommandExecuted(c, new)
  BY <1>3, <1>4 DEF Executed, CommandExecuted
<1>5. CASE CardFails(c)
  <2>1. CommandExecuted(c, {})
    BY <1>5, CrashesBounded DEF CardFails, CommandExecuted
  <2>. QED  BY <2>1
<1>6. CASE ExecuteHandoff(c)
  <2>1. CommandExecuted(c, {})
    BY <1>4, <1>6 DEF ExecuteHandoff
  <2>. QED  BY <2>1
<1>7. CASE \/ ExecuteCard(c) \/ ExecuteAppend(c) \/ \E a \in Answers : ExecuteQuery(c, a)
           \/ \E f \in Found : ExecuteLookup(c, f)
  <2>1. ASSUME NEW type \in ResultTypes, NEW status, NEW fingerprint,
               Executed(c, {Result(c, type, status, fingerprint)}),
               c.type = "query" => type = "answered"
        PROVE  CommandExecuted(c, {Result(c, type, status, fingerprint)})
    <3>. DEFINE r == Result(c, type, status, fingerprint)
    <3>1. r.thread = c.thread /\ r.ev = c.ev /\ r.type = type
      BY <1>2
    <3>. HIDE DEF r
    <3>2. Executed(c, {r})
      BY <2>1 DEF r
    <3>3. CommandExecuted(c, {r})
      BY <1>4, <2>1, <3>1, <3>2
    <3>. QED  BY <3>3 DEF r
  <2>2. \E type \in ResultTypes : \E status, fingerprint :
           /\ Executed(c, {Result(c, type, status, fingerprint)})
           /\ c.type = "query" => type = "answered"
    BY <1>7 DEF ExecuteCard, ExecuteAppend, ExecuteQuery, ExecuteLookup, ResultTypes
  <2>. QED  BY <2>1, <2>2
<1>8. CASE ExecuteReminder(c)
  <2>1. CommandExecuted(c, {})
    BY <1>3, <1>8 DEF ExecuteReminder, CommandExecuted, CardsRemind, MaxCrashes
  <2>. QED  BY <2>1
<1>. QED  BY <1>1, <1>5, <1>6, <1>7, <1>8

\* (Execute)
LEMMA ExecuteStep ==
    ASSUME Inv, Execute
    PROVE  Inv'
<1>1. Shape /\ OnlyOfWritten /\ QueryingHasQuery /\ CaseRecorded
  BY DEF Inv
<1>2. PICK c \in cmds : \E new_1 : CommandExecuted(c, new_1)
  BY <1>1, ExecuteEffect
<1>3. PICK new : CommandExecuted(c, new)
  BY <1>2
<1>4. /\ cmds' = cmds \ {c} /\ results' = results \cup new
      /\ \A r \in new : r.thread = c.thread /\ r.ev = c.ev /\ r.type \in ResultTypes
      /\ c.type = "query" => \E r \in new : r.type = "answered"
      /\ \/ cards' = cards \/ cards' = CardAt(c, {"queued"}, "posted")
         \/ cards' = CardsRemind(c)
      /\ crashes' \in 0 .. MaxCrashes
      /\ UNCHANGED <<topic, conv, inbox, sent, turn, reads, handoffs, disputed, stale>>
  BY <1>3 DEF CommandExecuted
<1>5. IsAbout(c) /\ \A r \in new : IsResult(r)
  BY <1>1, <1>4 DEF Shape, IsResult, IsAbout
<1>6. \A k \in cards' :
        /\ IsCard(k)
        /\ \E j \in cards : /\ k.thread = j.thread /\ k.current \in {j.current, c.thread}
                            /\ k.at = j.at \/ k.at = "posted"
  <2>1. \A k \in cards : IsCard(k)
    BY <1>1 DEF Shape
  <2>2. CASE cards' = cards
    BY <2>1, <2>2
  <2>3. CASE cards' = CardAt(c, {"queued"}, "posted")
    BY <2>1, <2>3, CardsMoved
  <2>4. CASE cards' = CardsRemind(c)
    BY <1>5, <2>1, <2>4, CardsReminded
  <2>. QED  BY <1>4, <2>2, <2>3, <2>4
<1>7. Shape'
  BY <1>1, <1>4, <1>5, <1>6 DEF Shape, MaxCrashes
<1>8. OnlyOfWritten'
  <2>1. \A k \in cards' : ~conv[k.thread].slots.fresh /\ ~conv[k.current].slots.fresh
    BY <1>1, <1>6 DEF OnlyOfWritten
  <2>. QED  BY <1>1, <1>4, <2>1 DEF OnlyOfWritten
<1>9. AgedKnown' /\ OwnHandoffSilences' /\ OneHandoffPerThread'
  BY <1>4 DEF Inv, AgedKnown, OwnHandoffSilences, OneHandoffPerThread
<1>10. QueryingHasQuery'
  <2>1. \A t \in Threads : Outstanding(t) => Outstanding(t)'
    BY <1>4 DEF Outstanding
  <2>. QED  BY <1>1, <1>4, <2>1 DEF QueryingHasQuery
<1>11. CaseRecorded'
  BY <1>1, <1>4, <1>6 DEF CaseRecorded
<1>. QED  BY <1>7, <1>8, <1>9, <1>10, <1>11 DEF Inv

\* A result is read, or a staff reply arrives: unless a human owns the
\* conversation, it is worked on (ReadResult, StaffReply).
LEMMA ReadStep ==
    ASSUME Inv, NEW r, IsResult(r), ~conv[r.thread].slots.fresh,
           \/ /\ r \in results /\ results' = results \ {r}
              /\ Locked(conv[r.thread]) /\ reads' = reads
           \/ /\ results' = results \ {r} \/ results' = results
              /\ reads' = reads \cup
                    {[result |-> r, snap |-> get_or_create(r.thread), old |-> FALSE]},
           UNCHANGED <<topic, conv, inbox, sent, turn, cmds, crashes, cards, handoffs, disputed,
                       stale>>
    PROVE  Inv'
<1>. DEFINE x == [result |-> r, snap |-> get_or_create(r.thread), old |-> FALSE]
<1>1. Shape /\ OnlyOfWritten /\ QueryingHasQuery
  BY DEF Inv
<1>2. r.thread \in Threads /\ IsRow(get_or_create(r.thread))
  BY <1>1, RowSeen DEF IsResult, IsAbout
<1>3. IsRead(x) /\ x.result = r
  BY <1>2 DEF IsRead, ReadFields
<1>4. \/ results' = results \ {r} /\ Locked(conv[r.thread]) /\ reads' = reads
      \/ (results' = results \ {r} \/ results' = results) /\ reads' = reads \cup {x}
  OBVIOUS
<1>. HIDE DEF x
<1>5. Shape'
  BY <1>1, <1>3, <1>4 DEF Shape, MaxCrashes
<1>6. OnlyOfWritten'
  BY <1>1, <1>3, <1>4 DEF OnlyOfWritten
<1>7. AgedKnown' /\ OwnHandoffSilences' /\ OneHandoffPerThread' /\ CaseRecorded'
  BY DEF Inv, AgedKnown, OwnHandoffSilences, OneHandoffPerThread, CaseRecorded
<1>8. QueryingHasQuery'
  <2>1. ASSUME NEW t \in Threads, Outstanding(t), ~Locked(conv[t])
        PROVE  Outstanding(t)'
    <3>1. ASSUME NEW q \in results, q.type = "answered", q.thread = t PROVE Outstanding(t)'
      <4>1. q \in results' \/ (x \in reads' /\ x.result = q)
        <5>1. CASE q = r
          <6>1. ~Locked(conv[r.thread])
            BY <2>1, <3>1, <5>1
          <6>. QED  BY <1>3, <1>4, <5>1, <6>1
        <5>2. CASE q # r
          BY <1>4, <3>1, <5>2
        <5>. QED  BY <5>1, <5>2
      <4>. QED  BY <3>1, <4>1 DEF Outstanding
    <3>2. cmds' = cmds /\ reads \subseteq reads'
      BY <1>4
    <3>. QED  BY <2>1, <3>1, <3>2 DEF Outstanding
  <2>. QED  BY <1>1, <2>1 DEF QueryingHasQuery
<1>. QED  BY <1>5, <1>6, <1>7, <1>8 DEF Inv

\* A result is given back (ResultFails).
LEMMA FailStep ==
    ASSUME Inv, NEW x \in reads, ResultFails(x)
    PROVE  Inv'
<1>1. Shape /\ OnlyOfWritten /\ QueryingHasQuery
  BY DEF Inv
<1>2. /\ reads' = reads \ {x} /\ results' = results \cup {x.result} /\ crashes' = crashes + 1
      /\ crashes < MaxCrashes
      /\ UNCHANGED <<topic, conv, inbox, sent, turn, cmds, cards, handoffs, disputed, stale>>
  BY DEF ResultFails
<1>3. IsResult(x.result) /\ crashes' \in 0 .. MaxCrashes
  BY <1>1, <1>2, CrashesBounded DEF Shape, IsRead
<1>4. Shape'
  BY <1>1, <1>2, <1>3 DEF Shape, MaxCrashes
<1>5. OnlyOfWritten'
  BY <1>1, <1>2 DEF OnlyOfWritten
<1>6. AgedKnown' /\ OwnHandoffSilences' /\ OneHandoffPerThread' /\ CaseRecorded'
  BY <1>2 DEF Inv, AgedKnown, OwnHandoffSilences, OneHandoffPerThread, CaseRecorded
<1>7. QueryingHasQuery'
  <2>1. results' \cup {y.result : y \in reads'} = results \cup {y.result : y \in reads}
    BY <1>2
  <2>2. \A t \in Threads : Outstanding(t) => Outstanding(t)'
    BY <1>2, <2>1 DEF Outstanding
  <2>. QED  BY <1>1, <1>2, <2>2 DEF QueryingHasQuery
<1>. QED  BY <1>4, <1>5, <1>6, <1>7 DEF Inv

\* A result is dropped, as a human owns the conversation (CommitResult).
LEMMA DropReadStep ==
    ASSUME Inv, NEW x \in reads, Locked(conv[x.result.thread]), reads' = reads \ {x},
           UNCHANGED <<topic, conv, inbox, sent, turn, cmds, results, crashes, cards, handoffs,
                       disputed, stale>>
    PROVE  Inv'
<1>1. Shape /\ OnlyOfWritten /\ QueryingHasQuery
  BY DEF Inv
<1>2. Shape' /\ OnlyOfWritten'
  BY <1>1 DEF Shape, MaxCrashes, OnlyOfWritten
<1>3. AgedKnown' /\ OwnHandoffSilences' /\ OneHandoffPerThread' /\ CaseRecorded'
  BY DEF Inv, AgedKnown, OwnHandoffSilences, OneHandoffPerThread, CaseRecorded
<1>4. QueryingHasQuery'
  <2>1. \A t \in Threads : Outstanding(t) /\ ~Locked(conv[t]) => Outstanding(t)'
    BY DEF Outstanding
  <2>. QED  BY <1>1, <2>1 DEF QueryingHasQuery
<1>. QED  BY <1>2, <1>3, <1>4 DEF Inv

\* A turn grows old, and nothing else happens to it (AgedTurn).
LEMMA TurnAged ==
    ASSUME Shape, NEW t
    PROVE  /\ AgedTurn(t) # <<>> <=> turn # <<>>
           /\ turn # <<>> =>
                 LET e == AgedTurn(t)[1]
                 IN  /\ AgedTurn(t) = <<e>> /\ IsWork(e)
                     /\ e.thread = turn[1].thread /\ e.ev = turn[1].ev /\ e.snap = turn[1].snap
                     /\ e.inherited = turn[1].inherited
                     /\ e.old = IF turn[1].thread = t THEN TRUE ELSE turn[1].old
<1>1. CASE turn = <<>>
  BY <1>1 DEF AgedTurn
<1>2. CASE turn # <<>>
  <2>. DEFINE e == turn[1]
              aged == [e EXCEPT !.old = TRUE]
  <2>1. turn = <<e>> /\ IsWork(e)
    BY <1>2 DEF Shape
  <2>2. AgedTurn(t) = IF e.thread = t THEN <<aged>> ELSE turn
    BY <1>2 DEF AgedTurn
  <2>. HIDE DEF e
  <2>3. IsWork(aged) /\ aged.thread = e.thread /\ aged.ev = e.ev /\ aged.snap = e.snap
        /\ aged.inherited = e.inherited /\ aged.old = TRUE
    BY <2>1 DEF IsWork, IsAbout, WorkFields
  <2>4. turn[1] = e
    BY DEF e
  <2>. HIDE DEF aged
  <2>5. CASE e.thread = t
    <3>1. AgedTurn(t) = <<aged>> /\ AgedTurn(t)[1] = aged /\ AgedTurn(t) # <<>>
      BY <2>2, <2>5
    <3>. QED  BY <1>2, <2>3, <2>4, <2>5, <3>1
  <2>6. CASE e.thread # t
    BY <1>2, <2>1, <2>2, <2>4, <2>6
  <2>. QED  BY <2>5, <2>6
<1>. QED  BY <1>1, <1>2

\* What the commit of a result does to the row of its thread.
ResultCommitted(x, row, commands) ==
    LET t   == x.result.thread
        new == Inserted(t, x.result.ev, commands)
    IN  /\ ~Locked(conv[t]) /\ IsRow(row) /\ row.slots.fresh = FALSE
        /\ row.stage # "backend_querying"
        /\ row.status = "HANDOFF_REQUESTED" <=> \E c \in commands : c.type = "handoff"
        /\ \/ row.slots.case # 0 /\ x.result.type = "created"
              /\ cards' = CardAt(x.result, {"posted"}, "known")
           \/ (conv[t].slots.case # 0 => row.slots.case # 0) /\ cards' = cards
           \/ cards' = {IF k.thread = t /\ k.ev # x.result.ev /\ k.at = "known"
                        THEN [k EXCEPT !.at = "forgotten"] ELSE k :
                            k \in CaseClosed(x.result.ev)}
        /\ conv' = [conv EXCEPT ![t] = row] /\ cmds' = cmds \cup new
        /\ turn' = AgedTurn(t) /\ reads' = AgedReads(t, reads \ {x})
        /\ handoffs' = [handoffs EXCEPT ![t] = @ + HandoffIn(new)]
        /\ stale \subseteq stale'
        /\ UNCHANGED <<topic, inbox, sent, results, crashes>>

\* (CommitResult, Written, process_result_transactionally)
LEMMA CommitResultEffect ==
    ASSUME Inv, NEW x \in reads, CommitResult(x), ~Locked(conv[x.result.thread])
    PROVE  \E row, commands : ResultCommitted(x, row, commands)
<1>. DEFINE r == x.result
            t == r.thread
            handler == build_result_handler(r, x.snap, get_or_create(t))
            row == [status |-> handler.status, active |-> handler.active,
                    stage |-> handler.stage, slots |-> handler.slots]
            new == Inserted(t, r.ev, handler.cmds)
<1>1. Shape /\ OnlyOfWritten
  BY DEF Inv
<1>2. IsResult(r) /\ IsRow(x.snap) /\ ~conv[t].slots.fresh
  BY <1>1 DEF Shape, IsRead, OnlyOfWritten
<1>3. t \in Threads /\ r.ev \in Numbers /\ r.type \in ResultTypes
  BY <1>2 DEF IsResult, IsAbout
<1>4. get_or_create(t) = conv[t] /\ IsRow(conv[t])
  BY <1>1, <1>2, <1>3, RowSeen
<1>5. Applied(handler, r, conv[t])
  BY <1>2, <1>3, <1>4, HandlerApplied
<1>6. /\ conv' = [conv EXCEPT ![t] = row] /\ cmds' = cmds \cup new
      /\ turn' = AgedTurn(t) /\ reads' = AgedReads(t, reads \ {x})
      /\ handoffs' = [handoffs EXCEPT ![t] = @ + HandoffIn(new)]
      /\ stale' = (IF x.old THEN stale \cup {t} ELSE stale)
      /\ UNCHANGED <<topic, inbox, sent, results, crashes>>
  BY DEF CommitResult, Written
<1>7. cards' = IF r.type = "created" THEN CardAt(r, {"posted"}, "known")
               ELSE IF r.type = "staff" /\ handler.stage = "completed"
               THEN {IF k.thread = t /\ k.ev # r.ev /\ k.at = "known"
                     THEN [k EXCEPT !.at = "forgotten"] ELSE k :
                         k \in CaseClosed(r.ev)}
               ELSE cards
  BY DEF CommitResult, Written
<1>8. row.status = handler.status /\ row.stage = handler.stage /\ row.slots = handler.slots
  OBVIOUS
<1>. DEFINE commands == handler.cmds
<1>9. commands = handler.cmds /\ new = Inserted(t, r.ev, commands)
  OBVIOUS
<1>. HIDE DEF handler, row
<1>10. /\ IsRow(row) /\ row.slots.fresh = FALSE /\ row.stage # "backend_querying"
       /\ row.status = "HANDOFF_REQUESTED" <=> \E c \in commands : c.type = "handoff"
  BY <1>5, <1>8 DEF Applied, IsRow
<1>11. IF r.type = "created" THEN row.slots.case # 0
       ELSE \/ conv[t].slots.case # 0 => row.slots.case # 0
            \/ r.type = "staff" /\ handler.stage = "completed"
  BY <1>3, <1>5, <1>8 DEF Applied, Numbers
<1>. HIDE DEF commands
<1>12. stale \subseteq stale'
  BY <1>6
<1>13. \/ row.slots.case # 0 /\ r.type = "created" /\ cards' = CardAt(r, {"posted"}, "known")
       \/ (conv[t].slots.case # 0 => row.slots.case # 0) /\ cards' = cards
       \/ cards' = {IF k.thread = t /\ k.ev # r.ev /\ k.at = "known"
                    THEN [k EXCEPT !.at = "forgotten"] ELSE k :
                        k \in CaseClosed(r.ev)}
  BY <1>7, <1>11
<1>14. ResultCommitted(x, row, commands)
  BY <1>6, <1>9, <1>10, <1>12, <1>13 DEF ResultCommitted
<1>. QED  BY <1>14

\* A card is known after a result only if it was and the row still knows of a
\* case, or if the row has just recorded one.
LEMMA CardsAfterResult ==
    ASSUME Shape, NEW x \in reads, NEW row, NEW commands, ResultCommitted(x, row, commands)
    PROVE  LET t == x.result.thread
           IN  \A k \in cards' :
                  /\ IsCard(k)
                  /\ \E j \in cards :
                        /\ k.thread = j.thread /\ k.ev = j.ev /\ k.current = j.current
                        /\ k.at = "known" =>
                              \/ k.thread = t /\ row.slots.case # 0
                              \/ /\ j.at = "known"
                                 /\ k.thread = t /\ conv[t].slots.case # 0 => row.slots.case # 0
<1>. DEFINE r == x.result
            t == r.thread
            closed == CaseClosed(r.ev)
            Forget(k) == IF k.thread = t /\ k.ev # r.ev /\ k.at = "known"
                         THEN [k EXCEPT !.at = "forgotten"] ELSE k
<1>1. \A k \in cards : IsCard(k)
  BY DEF Shape
<1>2. CASE row.slots.case # 0 /\ cards' = CardAt(r, {"posted"}, "known")
  <2>1. \A k \in CardAt(r, {"posted"}, "known") :
           /\ IsCard(k)
           /\ \E j \in cards : /\ k.thread = j.thread /\ k.ev = j.ev /\ k.current = j.current
                               /\ k = j \/ (k.at = "known" /\ j.thread = r.thread)
    BY <1>1, CardsMoved
  <2>. QED  BY <1>2, <2>1
<1>3. CASE (conv[t].slots.case # 0 => row.slots.case # 0) /\ cards' = cards
  BY <1>1, <1>3
<1>4. CASE cards' = {Forget(k) : k \in closed}
  <2>1. \A k \in closed :
           /\ IsCard(k)
           /\ \E j \in cards : /\ k.thread = j.thread /\ k.ev = j.ev /\ k.current = j.current
                               /\ k = j \/ k.at = "closed"
           /\ k.ev = r.ev => k.at # "known"
    <3>. DEFINE Close(k) == IF k.ev = r.ev /\ k.at # "queued" THEN [k EXCEPT !.at = "closed"] ELSE k
    <3>1. closed = {Close(k) : k \in cards}
      BY DEF CaseClosed
    <3>2. \A k \in cards : /\ IsCard(Close(k)) /\ Close(k).thread = k.thread
                           /\ Close(k).ev = k.ev /\ Close(k).current = k.current
                           /\ Close(k) = k \/ Close(k).at = "closed"
                           /\ k.ev = r.ev => Close(k).at # "known"
      BY <1>1 DEF IsCard, IsAbout, CardFields
    <3>. HIDE DEF Close, closed
    <3>. QED  BY <3>1, <3>2
  <2>2. \A k \in closed : /\ IsCard(Forget(k)) /\ Forget(k).thread = k.thread
                          /\ Forget(k).ev = k.ev /\ Forget(k).current = k.current
                          /\ Forget(k).at = "known" => k.at = "known" /\ k.thread # t
    BY <2>1 DEF IsCard, IsAbout, CardFields
  <2>. HIDE DEF Forget, closed
  <2>3. \A k \in cards' : \E i \in closed :
           /\ IsCard(k) /\ k.thread = i.thread /\ k.ev = i.ev /\ k.current = i.current
           /\ k.at = "known" => i.at = "known" /\ k.thread # t
    BY <1>4, <2>2
  <2>. QED  BY <2>1, <2>3
<1>5. \/ row.slots.case # 0 /\ cards' = CardAt(r, {"posted"}, "known")
      \/ (conv[t].slots.case # 0 => row.slots.case # 0) /\ cards' = cards
      \/ cards' = {Forget(k) : k \in closed}
  BY DEF ResultCommitted
<1>. QED  BY <1>2, <1>3, <1>4, <1>5

\* The commit of a result (CommitResult).
LEMMA CommitResultStep ==
    ASSUME Inv, NEW x \in reads, NEW row, NEW commands, ResultCommitted(x, row, commands)
    PROVE  Inv'
<1>. DEFINE t == x.result.thread
            new == Inserted(t, x.result.ev, commands)
<1>1. Shape /\ OnlyOfWritten /\ AgedKnown /\ OneHandoffPerThread /\ OwnHandoffSilences
      /\ QueryingHasQuery /\ CaseRecorded
  BY DEF Inv
<1>2. IsRead(x) /\ t \in Threads /\ x.result.ev \in Numbers
  BY <1>1 DEF Shape, IsRead, IsResult, IsAbout
<1>3. /\ ~Locked(conv[t]) /\ IsRow(row) /\ row.slots.fresh = FALSE
      /\ row.stage # "backend_querying"
      /\ conv' = [conv EXCEPT ![t] = row] /\ cmds' = cmds \cup new
      /\ turn' = AgedTurn(t) /\ reads' = AgedReads(t, reads \ {x})
      /\ handoffs' = [handoffs EXCEPT ![t] = @ + HandoffIn(new)] /\ stale \subseteq stale'
      /\ UNCHANGED <<topic, inbox, sent, results, crashes>>
  BY DEF ResultCommitted
<1>4. /\ \A c \in new : IsAbout(c) /\ c.thread = t
      /\ HandoffIn(new) = IF row.status = "HANDOFF_REQUESTED" THEN 1 ELSE 0
  <2>1. \A p \in Threads, ev \in Numbers :
           LET rows == Inserted(p, ev, commands)
           IN  /\ \A c \in rows : IsAbout(c) /\ c.thread = p
               /\ HandoffIn(rows) = IF \E c \in commands : c.type = "handoff" THEN 1 ELSE 0
    BY InsertedRows
  <2>2. row.status = "HANDOFF_REQUESTED" <=> \E c \in commands : c.type = "handoff"
    BY DEF ResultCommitted
  <2>3. /\ \A c \in new : IsAbout(c) /\ c.thread = t
        /\ HandoffIn(new) = IF \E c \in commands : c.type = "handoff" THEN 1 ELSE 0
    BY <1>2, <2>1
  <2>. HIDE DEF new
  <2>. QED  BY <2>2, <2>3
<1>5. \A k \in cards' :
        /\ IsCard(k)
        /\ \E j \in cards :
              /\ k.thread = j.thread /\ k.ev = j.ev /\ k.current = j.current
              /\ k.at = "known" =>
                    \/ k.thread = t /\ row.slots.case # 0
                    \/ /\ j.at = "known"
                       /\ k.thread = t /\ conv[t].slots.case # 0 => row.slots.case # 0
  BY <1>1, CardsAfterResult
<1>. HIDE DEF t, new
<1>6. /\ \A y \in AgedReads(t, reads \ {x}) : IsRead(y) /\ \E z \in reads : y.result = z.result
      /\ \A z \in reads \ {x} : \E y \in AgedReads(t, reads \ {x}) : y.result = z.result
  <2>1. \A z \in reads \ {x} : IsRead(z)
    BY <1>1 DEF Shape
  <2>. QED  BY <2>1, ReadsAged
<1>7. /\ DOMAIN conv' = Threads /\ conv'[t] = row
      /\ \A p \in Threads : p # t => conv'[p] = conv[p]
      /\ \A p \in Threads : IsRow(conv'[p])
      /\ \A p \in Threads : ~conv[p].slots.fresh => ~conv'[p].slots.fresh
  BY <1>1, <1>2, <1>3, RowWritten
<1>8. /\ OneHandoffPerThread' /\ DOMAIN handoffs' = Threads
      /\ \A p \in Threads : handoffs[p] = 1 => handoffs'[p] = 1
  BY <1>1, <1>2, <1>3, <1>4, HandoffCounted
<1>9. /\ turn' # <<>> <=> turn # <<>>
      /\ turn # <<>> =>
            /\ turn' = <<turn'[1]>> /\ IsWork(turn'[1])
            /\ turn'[1].thread = turn[1].thread /\ turn'[1].ev = turn[1].ev
            /\ turn'[1].snap = turn[1].snap /\ turn'[1].inherited = turn[1].inherited
            /\ turn'[1].old = IF turn[1].thread = t THEN TRUE ELSE turn[1].old
  BY <1>1, <1>3, TurnAged
<1>10. Shape'
  BY <1>1, <1>3, <1>4, <1>5, <1>6, <1>7, <1>8, <1>9 DEF Shape, MaxCrashes
<1>11. OnlyOfWritten'
  <2>1. ~conv'[t].slots.fresh
    BY <1>3, <1>7
  <2>2. \A c \in cmds' : ~conv'[c.thread].slots.fresh
    BY <1>1, <1>3, <1>4, <1>7, <2>1 DEF OnlyOfWritten, Shape, IsAbout
  <2>3. \A r \in results' : ~conv'[r.thread].slots.fresh
    BY <1>1, <1>3, <1>7 DEF OnlyOfWritten, Shape, IsResult, IsAbout
  <2>4. \A y \in reads' : ~conv'[y.result.thread].slots.fresh
    <3>1. \A z \in reads : z.result.thread \in Threads /\ ~conv[z.result.thread].slots.fresh
      BY <1>1 DEF OnlyOfWritten, Shape, IsRead, IsResult, IsAbout
    <3>2. \A y \in reads' : \E z \in reads : y.result = z.result
      BY <1>3, <1>6
    <3>. QED  BY <1>7, <3>1, <3>2
  <2>5. \A k \in cards' : ~conv'[k.thread].slots.fresh /\ ~conv'[k.current].slots.fresh
    BY <1>1, <1>5, <1>7 DEF OnlyOfWritten, Shape, IsCard, IsAbout
  <2>. QED  BY <2>2, <2>3, <2>4, <2>5 DEF OnlyOfWritten
<1>12. AgedKnown'
  <2>1. turn # <<>> => turn[1].thread \in Threads
    BY <1>1 DEF Shape, IsWork, IsAbout
  <2>. QED  BY <1>1, <1>7, <1>9, <2>1 DEF AgedKnown
<1>13. OwnHandoffSilences'
  <2>1. turn # <<>> => turn[1].thread \in Threads
    BY <1>1 DEF Shape, IsWork, IsAbout
  <2>. QED  BY <1>1, <1>8, <1>9, <2>1 DEF OwnHandoffSilences
<1>14. QueryingHasQuery'
  <2>1. ASSUME NEW p \in Threads, p # t, Outstanding(p) PROVE Outstanding(p)'
    <3>1. \A z \in reads : z.result.thread = p => z \in reads \ {x}
      BY <2>1 DEF t
    <3>2. cmds \subseteq cmds' /\ results' = results
      BY <1>3
    <3>3. \A z \in reads : z.result.thread = p => \E y \in reads' : y.result = z.result
      BY <1>3, <1>6, <3>1
    <3>. QED  BY <2>1, <3>2, <3>3 DEF Outstanding
  <2>. QED  BY <1>1, <1>3, <1>7, <2>1 DEF QueryingHasQuery
<1>15. CaseRecorded'
  <2>1. ASSUME NEW k \in cards', k.at = "known", k.thread \notin stale'
        PROVE  conv'[k.thread].slots.case # 0
    <3>1. k.thread \in Threads /\ k.thread \notin stale
      BY <1>3, <1>5, <2>1 DEF IsCard, IsAbout
    <3>2. PICK j \in cards :
             /\ k.thread = j.thread
             /\ \/ k.thread = t /\ row.slots.case # 0
                \/ /\ j.at = "known"
                   /\ k.thread = t /\ conv[t].slots.case # 0 => row.slots.case # 0
      BY <1>5, <2>1
    <3>3. j.at = "known" => conv[k.thread].slots.case # 0
      BY <1>1, <3>1, <3>2 DEF CaseRecorded
    <3>. QED  BY <1>7, <3>1, <3>2, <3>3
  <2>. QED  BY <2>1 DEF CaseRecorded
<1>. QED  BY <1>8, <1>10, <1>11, <1>12, <1>13, <1>14, <1>15 DEF Inv

-----------------------------------------------------------------------------
(* All steps *)

\* A result that is read, a staff reply, and a result that is committed
\* (ReadResult, StaffReply, CommitResult).
LEMMA ConsumerStep ==
    ASSUME Inv,
           \/ \E r \in results : ReadResult(r)
           \/ \E x \in reads : CommitResult(x)
           \/ \E k \in cards, w \in StaffSays : StaffReply(k, w)
    PROVE  Inv'
<1>1. Shape /\ OnlyOfWritten
  BY DEF Inv
<1>2. ASSUME NEW r \in results, ReadResult(r) PROVE Inv'
  <2>1. IsResult(r) /\ ~conv[r.thread].slots.fresh /\ r.thread \in Threads
    BY <1>1 DEF Shape, OnlyOfWritten, IsResult, IsAbout
  <2>2. Locked(get_or_create(r.thread)) => Locked(conv[r.thread])
    BY <1>1, <2>1, RowSeen
  <2>3. /\ results' = results \ {r}
        /\ UNCHANGED <<topic, conv, inbox, sent, turn, cmds, crashes, cards, handoffs, disputed,
                       stale>>
        /\ \/ Locked(conv[r.thread]) /\ reads' = reads
           \/ reads' = reads \cup
                {[result |-> r, snap |-> get_or_create(r.thread), old |-> FALSE]}
    BY <1>2, <2>2 DEF ReadResult
  <2>. QED  BY <2>1, <2>3, ReadStep
<1>3. ASSUME NEW x \in reads, CommitResult(x) PROVE Inv'
  <2>1. CASE Locked(conv[x.result.thread])
    BY <1>3, <2>1, DropReadStep DEF CommitResult
  <2>2. CASE ~Locked(conv[x.result.thread])
    BY <1>3, <2>2, CommitResultEffect, CommitResultStep
  <2>. QED  BY <2>1, <2>2
<1>4. ASSUME NEW k \in cards, NEW w \in StaffSays, StaffReply(k, w) PROVE Inv'
  <2>. DEFINE r == [type |-> "staff", thread |-> k.current, ev |-> k.ev, intent |-> k.intent,
                    identity |-> "none", status |-> w, fingerprint |-> "none"]
  <2>1. r.thread = k.current /\ r.ev = k.ev /\ r.type = "staff"
    OBVIOUS
  <2>2. /\ reads' = reads \cup
              {[result |-> r, snap |-> get_or_create(r.thread), old |-> FALSE]}
        /\ UNCHANGED <<topic, conv, inbox, sent, turn, cmds, results, crashes, cards, handoffs,
                       disputed, stale>>
    BY <1>4 DEF StaffReply
  <2>. HIDE DEF r
  <2>3. IsResult(r) /\ ~conv[r.thread].slots.fresh
    BY <1>1, <2>1 DEF Shape, OnlyOfWritten, IsResult, IsAbout, IsCard, ResultTypes
  <2>. QED  BY <2>2, <2>3, ReadStep
<1>. QED  BY <1>2, <1>3, <1>4

\* A commit of the gateway, whatever the LLM, the planner and the cases say.
Commits ==
    \E d \in Decisions, p \in Plans, f \in AiFails : \E eligible : CommitTurn(d, p, f, eligible)

\* Every step keeps the invariant.
LEMMA StepInv == Inv /\ [Next]_vars => Inv'
<1>. SUFFICES ASSUME Inv, [Next]_vars PROVE Inv'
  OBVIOUS
<1>1. CASE \E m \in Messages, t \in Threads : Send(m, t)
  BY <1>1, SendStep
<1>2. CASE Receive
  BY <1>2, ReceiveStep
<1>3. CASE TurnFails \/ SkipTurn
  BY <1>3, DropStep
<1>4. CASE Commits
  BY <1>4, CommitTurnEffect, CommitTurnStep DEF Commits
<1>5. CASE Execute
  BY <1>5, ExecuteStep
<1>6. CASE \/ \E r \in results : ReadResult(r)
           \/ \E x \in reads : CommitResult(x)
           \/ \E k \in cards, w \in StaffSays : StaffReply(k, w)
  BY <1>6, ConsumerStep
<1>7. CASE \E x \in reads : ResultFails(x)
  BY <1>7, FailStep
<1>8. CASE UNCHANGED vars
  BY <1>8 DEF vars, Inv, Shape, OnlyOfWritten, AgedKnown, OneHandoffPerThread,
              OwnHandoffSilences, QueryingHasQuery, CaseRecorded, Outstanding, MaxCrashes
<1>. QED  BY <1>1, <1>2, <1>3, <1>4, <1>5, <1>6, <1>7, <1>8 DEF Next, Commits

\* Only a commit of the gateway inserts a card, and no step but it both takes a
\* message from the inbox and writes a row.
LEMMA OtherSteps ==
    ASSUME Inv, [Next]_vars, ~Commits
    PROVE  /\ \A k \in cards' : \E j \in cards : k.thread = j.thread /\ k.ev = j.ev
           /\ conv' = conv \/ inbox' = inbox
<1>1. Shape
  BY DEF Inv
<1>2. CASE \/ \E m \in Messages, t \in Threads : Send(m, t)
           \/ Receive \/ TurnFails \/ SkipTurn
           \/ \E r \in results : ReadResult(r)
           \/ \E x \in reads : ResultFails(x)
           \/ \E k \in cards, w \in StaffSays : StaffReply(k, w)
           \/ UNCHANGED vars
  <2>1. cards' = cards /\ conv' = conv
    BY <1>2 DEF Send, Receive, TurnFails, SkipTurn, ReadResult, ResultFails, StaffReply, vars
  <2>. QED  BY <2>1
<1>3. CASE Execute
  <2>1. PICK c \in cmds : \E new : CommandExecuted(c, new)
    BY <1>1, <1>3, ExecuteEffect
  <2>2. /\ \/ cards' = cards \/ cards' = CardAt(c, {"queued"}, "posted")
           \/ cards' = CardsRemind(c)
        /\ conv' = conv
    BY <2>1 DEF CommandExecuted
  <2>3. IsAbout(c) /\ \A k \in cards : IsCard(k)
    BY <1>1 DEF Shape
  <2>. QED  BY <2>2, <2>3, CardsMoved, CardsReminded
<1>4. ASSUME NEW x \in reads, CommitResult(x)
      PROVE  /\ \A k \in cards' : \E j \in cards : k.thread = j.thread /\ k.ev = j.ev
             /\ inbox' = inbox
  <2>1. inbox' = inbox
    BY <1>4 DEF CommitResult
  <2>2. CASE Locked(conv[x.result.thread])
    <3>1. cards' = cards
      BY <1>4, <2>2 DEF CommitResult
    <3>. QED  BY <2>1, <3>1
  <2>3. CASE ~Locked(conv[x.result.thread])
    BY <1>1, <1>4, <2>1, <2>3, CommitResultEffect, CardsAfterResult
  <2>. QED  BY <2>2, <2>3
<1>. QED  BY <1>2, <1>3, <1>4 DEF Next, Commits

-----------------------------------------------------------------------------
(* Theorems *)

\* In every reachable state rows, turns, commands and cards fit together.
THEOREM RowsInvariant == Spec => []Inv
BY InitInv, StepInv, PTL DEF Spec

\* Each thread asks for a human at most once, exactly when its row says so, and
\* only its own request silences it, whatever turns, failed queries and
\* repeated disputes come together.
THEOREM HandoffsStay == Spec => []HandoffsSound
<1>1. Inv => HandoffsSound
  <2>. SUFFICES ASSUME Inv PROVE HandoffsSound
    OBVIOUS
  <2>1. TypeOK
    BY DEF Inv, Shape, TypeOK, IsRow, IsSlots, SlotNames
  <2>. QED  BY <2>1 DEF Inv, HandoffsSound
<1>. QED  BY <1>1, RowsInvariant, PTL

\* A conversation that says it is querying the backend, and is not a human's,
\* has a query or its answer on the way, unless it was written from an older read.
THEOREM QueriesOutstanding == Spec => []QueryingHasQuery
<1>1. Inv => QueryingHasQuery
  BY DEF Inv
<1>. QED  BY <1>1, RowsInvariant, PTL

\* A new card finds no recorded case in its thread.
CardsKept ==
    \A k \in cards', j \in cards :
        IsNew(k) /\ j.thread = k.thread /\ j.at = "known" => k.thread \in stale'

\* No step sends a card beside a recorded case (evaluate_sop_policy).
LEMMA CardsKeptStep == Inv /\ [Next]_vars => CardsKept
<1>. SUFFICES ASSUME Inv, [Next]_vars,
                     NEW k \in cards', NEW j \in cards, IsNew(k), j.thread = k.thread,
                     j.at = "known", k.thread \notin stale'
              PROVE  FALSE
  BY DEF CardsKept
<1>1. Shape /\ CaseRecorded
  BY DEF Inv
<1>2. ~\E i \in cards : k.thread = i.thread /\ k.ev = i.ev
  BY DEF IsNew
<1>3. PICK d, p, f, eligible : CommitTurn(d, p, f, eligible)
  BY <1>2, OtherSteps DEF Commits
<1>4. PICK t \in Threads : \E row_1, commands_1 : TurnCommitted(t, row_1, commands_1)
  BY <1>3, CommitTurnEffect
<1>5. PICK row, commands : TurnCommitted(t, row, commands)
  BY <1>4
<1>. DEFINE new == Inserted(t, turn[1].ev, commands)
<1>6. /\ turn[1].ev \in Numbers /\ cards' = Reminding(t, new) \cup NewCards(new)
      /\ stale \subseteq stale'
      /\ t \notin stale' =>
            ((\E c \in commands : c.type = "card") => conv[t].slots.case = 0)
  BY <1>5 DEF TurnCommitted
<1>7. \A ev \in Numbers :
         LET rows == Inserted(t, ev, commands)
         IN  /\ \A c \in rows : IsAbout(c) /\ c.thread = t
             /\ (\E c \in rows : c.type = "card") <=> (\E c \in commands : c.type = "card")
  BY InsertedRows
<1>8. /\ \A c \in new : IsAbout(c) /\ c.thread = t
      /\ (\E c \in new : c.type = "card") <=> (\E c \in commands : c.type = "card")
  BY <1>6, <1>7
<1>. HIDE DEF new
<1>9. k \in NewCards(new)
  <2>1. \A i \in cards : IsCard(i)
    BY <1>1 DEF Shape
  <2>2. k \notin Reminding(t, new)
    BY <1>2, <2>1, RemindersOnly
  <2>. QED  BY <1>6, <2>2
<1>10. \E c \in new : c.type = "card" /\ k.thread = c.thread
  <2>1. \A c \in new : IsAbout(c)
    BY <1>8
  <2>. QED  BY <1>9, <2>1, NewCardsQueued
<1>11. k.thread = t /\ conv[t].slots.case = 0
  BY <1>6, <1>8, <1>10
<1>12. conv[t].slots.case # 0
  BY <1>1, <1>6, <1>11 DEF CaseRecorded
<1>. QED  BY <1>11, <1>12

\* What the turn of a text in a money case does to the rows.
TextsKept ==
    turn # <<>> /\ Len(inbox') < Len(inbox) /\ turn[1].m.button = "none"
      /\ turn[1].snap.active \in MoneySops
      /\ turn[1].snap.stage \in ACTIVE_WORKFLOW_GUARD_STAGES
      /\ "disputes" \notin turn[1].m.raw
      => \A t \in Threads : conv'[t] # conv[t] =>
           conv'[t].active \notin (MoneySops \cup {Blocked, Lookup})
                                   \ ({turn[1].snap.active} \cup AskedAfter(turn[1]))

\* No text moves a money case to another, but to one it asks after
\* (validate_intent_classification_output, _active_workflow_deterministic_route,
\* _cross_thread_money_case_route).
LEMMA TextsKeptStep == Inv /\ [Next]_vars => TextsKept
<1>. DEFINE e == turn[1]
            Others == (MoneySops \cup {Blocked, Lookup}) \ ({e.snap.active} \cup AskedAfter(e))
<1>. SUFFICES ASSUME Inv, [Next]_vars, turn # <<>>, Len(inbox') < Len(inbox),
                     e.m.button = "none", e.snap.active \in MoneySops,
                     e.snap.stage \in ACTIVE_WORKFLOW_GUARD_STAGES, "disputes" \notin e.m.raw,
                     NEW t \in Threads, conv'[t] # conv[t]
              PROVE  conv'[t].active \notin Others
  BY DEF TextsKept
<1>1. Shape
  BY DEF Inv
<1>2. Len(inbox) \in Nat
  BY <1>1 DEF Shape
<1>3. inbox' # inbox /\ conv' # conv
  BY <1>2
<1>4. PICK d, p, f, eligible : CommitTurn(d, p, f, eligible)
  BY <1>3, OtherSteps DEF Commits
<1>5. PICK u \in Threads : \E row_1, commands_1 :
         /\ TurnCommitted(u, row_1, commands_1)
         /\ row_1.active = process_event(e.m, e.ev, e.snap, eligible, d, p, f).active
  BY <1>4, CommitTurnEffect
<1>6. PICK row, commands :
         /\ TurnCommitted(u, row, commands)
         /\ row.active = process_event(e.m, e.ev, e.snap, eligible, d, p, f).active
  BY <1>5
<1>7. conv' = [conv EXCEPT ![u] = row] /\ ~Locked(e.snap)
  BY <1>6 DEF TurnCommitted
<1>8. /\ IsRow(e.snap) /\ eligible \subseteq e.cases
      /\ \A k \in eligible : k.intent \in MoneySops
  BY <1>1, <1>4 DEF Shape, IsWork, CommitTurn
<1>9. e.m.button \notin DOMAIN BUSINESS_BUTTON_ROUTES
  BY DEF BUSINESS_BUTTON_ROUTES
<1>10. conv'[t] = row
  BY <1>1, <1>7 DEF Shape
<1>11. process_event(e.m, e.ev, e.snap, eligible, d, p, f).active \notin Others
  <2>. DEFINE after == process_event(e.m, e.ev, e.snap, eligible, d, p, f).active
  <2>1. after \notin (MoneySops \cup {Blocked, Lookup})
                        \ ({e.snap.active} \cup CasesAsked(e.m, eligible))
    BY <1>7, <1>8, <1>9, TurnKeepsCase
  <2>2. CasesAsked(e.m, eligible) \subseteq AskedAfter(e)
    BY <1>8 DEF CasesAsked, AskedAfter
  <2>. HIDE DEF after
  <2>3. after \notin Others
    BY <2>1, <2>2
  <2>. QED  BY <2>3 DEF after
<1>. HIDE DEF Others
<1>. QED  BY <1>6, <1>10, <1>11

\* A money case survives the turns after it: it is not opened a second time once
\* recorded, unless an older read wiped it, and no text turns it into another, but into
\* one of another thread that it asks after, whatever the LLM router and the planner answer.
THEOREM MoneyCasesKept == Spec => MoneyCaseKept
<1>1. Inv /\ [Next]_vars => CardsKept /\ TextsKept
  BY CardsKeptStep, TextsKeptStep
<1>2. Spec => NoCardBesideRecordedCase
  BY <1>1, RowsInvariant, PTL DEF Spec, NoCardBesideRecordedCase, CardsKept
<1>3. Spec => TextKeepsMoneyCase
  BY <1>1, RowsInvariant, PTL DEF Spec, TextKeepsMoneyCase, TextsKept
<1>. QED  BY <1>2, <1>3, PTL DEF MoneyCaseKept

-----------------------------------------------------------------------------
(* What a turn remembers of the disputes *)

\* The slots of the bookkeeping of disputes, and those the planner may fill.
LEMMA DisputeSlots ==
    {"conclusion", "dCount", "dEvent", "recheck", "origin", "queued", "qEvent", "failCount",
     "identity", "amount", "staff", "case", "fresh", "image", "receipt", "deposit",
     "withdrawal", "lookup", "confirmed", "waits", "menuStuck", "resolvedAt", "nfCount", "nfValue", "handoffReq"}
        = SlotNames
BY DEF SlotNames, NoSlots

\* A turn neither changes the conclusion nor forgets the player.
Remembers(m, n) ==
    /\ n.conclusion = m.conclusion /\ n.failCount = m.failCount
    /\ m.identity # "none" => n.identity # "none"

\* Nothing happens to the disputes.
KeepsDisputes(m, n) ==
    /\ Remembers(m, n)
    /\ n.recheck = m.recheck /\ n.origin = m.origin /\ n.queued = m.queued /\ n.dCount = m.dCount

\* All of them are forgotten (clear_backend_dispute_memory).
ForgetsDisputes(m, n) == Remembers(m, n) /\ n.recheck = FALSE /\ n.dCount = 0

Undisputed(m, n) == KeepsDisputes(m, n) \/ ForgetsDisputes(m, n)

\* A recheck is pending, and the dispute is queued if one was already.
Rechecked(m, n) ==
    /\ Remembers(m, n) /\ n.recheck
    /\ m.recheck => n.queued /\ n.origin = m.origin

\* One after the other.
LEMMA DisputesCarried ==
    ASSUME NEW m, NEW n, NEW o
    PROVE  /\ KeepsDisputes(m, m)
           /\ Undisputed(m, n) /\ Undisputed(n, o) => Undisputed(m, o)
           /\ KeepsDisputes(m, n) /\ Rechecked(n, o) => Rechecked(m, o)
           /\ Rechecked(m, n) /\ KeepsDisputes(n, o) => Rechecked(m, o)
           /\ ForgetsDisputes(m, n) /\ Rechecked(n, o) => Remembers(m, o)
           /\ Undisputed(m, n) => Remembers(m, n)
           /\ Remembers(m, n) /\ Remembers(n, o) => Remembers(m, o)
BY DEF Undisputed, KeepsDisputes, ForgetsDisputes, Rechecked, Remembers

\* (clear_backend_dispute_memory, evaluate_backend_dispute, mark_backend_recheck_pending)
LEMMA DisputeCounted ==
    ASSUME NEW m, NEW ev, IsSlots(m)
    PROVE  /\ ForgetsDisputes(m, clear_backend_dispute_memory(m))
           /\ LET e == evaluate_backend_dispute(m, ev)
              IN  /\ e.waiting => Rechecked(m, e.memory) /\ e.should_handoff = FALSE
                  /\ ~e.waiting => Rechecked(m, mark_backend_recheck_pending(e.memory))
<1>1. ForgetsDisputes(m, clear_backend_dispute_memory(m))
  BY DisputeSlots DEF IsSlots, ForgetsDisputes, Remembers, clear_backend_dispute_memory
<1>2. CASE m.recheck
  <2>. DEFINE queued == [m EXCEPT !.queued = TRUE, !.qEvent = ev]
  <2>1. evaluate_backend_dispute(m, ev) =
            [memory |-> queued, should_handoff |-> FALSE, waiting |-> TRUE]
    BY <1>2 DEF evaluate_backend_dispute
  <2>2. /\ queued.conclusion = m.conclusion /\ queued.failCount = m.failCount
        /\ queued.identity = m.identity /\ queued.recheck = m.recheck /\ queued.queued = TRUE
        /\ queued.origin = m.origin
    BY DisputeSlots DEF IsSlots
  <2>. HIDE DEF queued
  <2>3. Rechecked(m, queued)
    BY <1>2, <2>2 DEF Rechecked, Remembers
  <2>. QED  BY <1>1, <2>1, <2>3
<1>3. CASE ~m.recheck
  <2>. DEFINE counted == IF m.dEvent = ev THEN m ELSE [m EXCEPT !.dCount = @ + 1, !.dEvent = ev]
  <2>1. evaluate_backend_dispute(m, ev) =
            [memory |-> counted, should_handoff |-> counted.dCount >= 2, waiting |-> FALSE]
    BY <1>3 DEF evaluate_backend_dispute
  <2>2. /\ counted.conclusion = m.conclusion /\ counted.failCount = m.failCount
        /\ counted.identity = m.identity /\ IsSlots(counted)
    BY DisputeSlots DEF IsSlots
  <2>. HIDE DEF counted
  <2>3. LET n == mark_backend_recheck_pending(counted)
        IN  /\ n.conclusion = counted.conclusion /\ n.failCount = counted.failCount
            /\ n.identity = counted.identity /\ n.recheck = TRUE
    BY <2>2, DisputeSlots DEF IsSlots, mark_backend_recheck_pending
  <2>. QED  BY <1>1, <1>3, <2>1, <2>2, <2>3 DEF Rechecked, Remembers
<1>. QED  BY <1>2, <1>3

-----------------------------------------------------------------------------
(* Routing *)

\* A money SOP that is to go on with a case goes on with the active one
\* (validate_intent_classification_output, _active_workflow_deterministic_route).
FitsCase(r) ==
    r.route = "sop" /\ r.intent \in MoneySops /\ r.relation # "none" /\ r.active # "none"
        => r.intent = r.active

\* Where a message that disputes nothing leads.
Calm(s, r) == Undisputed(s.slots, r.slots) /\ FitsCase(r)

\* (_with_route)
LEMMA WithRouteCalm ==
    ASSUME NEW s, NEW row, NEW intent, NEW route, NEW relation, Routed(s, row)
    PROVE  LET r == _with_route(s, intent, route, relation)
           IN  /\ Undisputed(s.slots, r.slots)
               /\ intent = Blocked \/ route = "human_handoff" => r.slots = s.slots
               /\ r.intent = intent /\ r.route = route /\ r.relation = relation
               /\ r.active = s.active /\ r.says = s.says /\ r.identity = s.identity
<1>. DEFINE r == _with_route(s, intent, route, relation)
<1>1. IsSlots(s.slots) /\ DOMAIN s = TurnFields
  BY DEF Routed, TurnOf
<1>2. ForgetsDisputes(s.slots, clear_backend_dispute_memory(s.slots))
  BY <1>1, DisputeCounted
<1>3. r.slots = s.slots \/ r.slots = clear_backend_dispute_memory(s.slots)
  BY <1>1 DEF TurnFields, _with_route
<1>4. intent = Blocked \/ route = "human_handoff" => r.slots = s.slots
  BY <1>1 DEF TurnFields, _with_route
<1>5. /\ r.intent = intent /\ r.route = route /\ r.relation = relation
      /\ r.active = s.active /\ r.says = s.says /\ r.identity = s.identity
  BY <1>1 DEF TurnFields, _with_route
<1>. HIDE DEF r
<1>6. Undisputed(s.slots, r.slots)
  BY <1>2, <1>3, DisputesCarried DEF Undisputed
<1>. QED  BY <1>4, <1>5, <1>6 DEF r

\* (_clear_backend_dispute_on_acceptance)
LEMMA AcceptanceCalm ==
    ASSUME NEW s, NEW row, Routed(s, row)
    PROVE  LET r == _clear_backend_dispute_on_acceptance(s)
           IN  /\ Undisputed(s.slots, r.slots)
               /\ "accepts" \notin s.says => r = s
               /\ r.active = s.active /\ r.says = s.says /\ r.identity = s.identity
               /\ r.raw = s.raw /\ r.relation = s.relation
               /\ DisputesConclusion(r) <=> DisputesConclusion(s)
<1>. DEFINE r == _clear_backend_dispute_on_acceptance(s)
<1>1. IsSlots(s.slots) /\ DOMAIN s = TurnFields
  BY DEF Routed, TurnOf
<1>2. ForgetsDisputes(s.slots, clear_backend_dispute_memory(s.slots))
  BY <1>1, DisputeCounted
<1>3. r.slots = s.slots \/ r.slots = clear_backend_dispute_memory(s.slots)
  BY <1>1 DEF TurnFields, _clear_backend_dispute_on_acceptance
<1>4. /\ "accepts" \notin s.says => r = s
      /\ r.active = s.active /\ r.says = s.says /\ r.identity = s.identity
      /\ r.raw = s.raw /\ r.relation = s.relation
  BY <1>1 DEF TurnFields, _clear_backend_dispute_on_acceptance
<1>. HIDE DEF r
<1>5. Undisputed(s.slots, r.slots)
  BY <1>2, <1>3, DisputesCarried DEF Undisputed
<1>6. DisputesConclusion(r) <=> DisputesConclusion(s)
  BY <1>4, <1>5, DisputesCarried DEF DisputesConclusion, Remembers
<1>. QED  BY <1>4, <1>5, <1>6 DEF r

\* A picture (_promote_pending_image_candidate_route, _image_candidate_only_route).
LEMMA PictureCalm ==
    ASSUME NEW s, NEW row, Routed(s, row)
    PROVE  /\ Promotable(s) => Calm(s, _promote_pending_image_candidate_route(s))
           /\ ImageCandidate(s) => Calm(s, _image_candidate_only_route(s))
<1>1. IsSlots(s.slots) /\ DOMAIN s = TurnFields
  BY DEF Routed, TurnOf
<1>2. ASSUME Promotable(s) PROVE Calm(s, _promote_pending_image_candidate_route(s))
  <2>. DEFINE intent == IF s.slots.image = "deposit" THEN "deposit_missing"
                        ELSE "withdrawal_missing"
              m == [s.slots EXCEPT !.receipt = intent, ![s.slots.image] = intent]
              n == [s EXCEPT !.slots = m]
  <2>1. KeepsDisputes(s.slots, m) /\ KeepsCase(s.slots, m)
    BY <1>1, <1>2, DisputeSlots DEF Promotable, IsSlots, KeepsDisputes, Remembers, KeepsCase
  <2>2. _promote_pending_image_candidate_route(s) =
            _with_route(n, intent, "sop", "current_workflow_supplement")
    BY DEF _promote_pending_image_candidate_route
  <2>. HIDE DEF m
  <2>3. Routed(n, row) /\ n.slots = m
    BY <2>1, SlotsRouted
  <2>4. n.active = "none"
    BY <1>1, <1>2 DEF TurnFields, Promotable
  <2>. HIDE DEF n, intent
  <2>5. LET r == _promote_pending_image_candidate_route(s)
        IN  Undisputed(m, r.slots) /\ r.active = "none"
    BY <2>2, <2>3, <2>4, WithRouteCalm
  <2>6. Undisputed(s.slots, m)
    BY <2>1 DEF Undisputed
  <2>. QED  BY <2>5, <2>6, DisputesCarried DEF Calm, FitsCase
<1>3. ASSUME ImageCandidate(s) PROVE Calm(s, _image_candidate_only_route(s))
  <2>. DEFINE m == [s.slots EXCEPT !.image = IF s.image \in {"deposit", "withdrawal"} THEN s.image
                                             ELSE @]
              r == _image_candidate_only_route(s)
  <2>1. KeepsDisputes(s.slots, m)
    BY <1>1, DisputeSlots DEF IsSlots, KeepsDisputes, Remembers
  <2>2. r.slots = m /\ r.route = "final_reply"
    BY <1>1 DEF TurnFields, _image_candidate_only_route
  <2>. HIDE DEF m, r
  <2>3. Calm(s, r)
    BY <2>1, <2>2 DEF Calm, FitsCase, Undisputed
  <2>. QED  BY <2>3 DEF r
<1>. QED  BY <1>2, <1>3

\* A customer lost in the menu (MenuHelp).
LEMMA MenuCalm ==
    ASSUME NEW s, NEW row, Routed(s, row)
    PROVE  Calm(s, MenuHelp(s))
<1>. DEFINE counted == [s EXCEPT !.slots.menuStuck = @ + 1]
<1>1. IsSlots(s.slots) /\ DOMAIN s = TurnFields
  BY DEF Routed, TurnOf
<1>2. Routed(counted, row) /\ KeepsDisputes(s.slots, counted.slots)
  BY <1>1, DisputeSlots DEF Routed, TurnOf, IsSlots, TurnFields, KeepsDisputes, Remembers
<1>3. \/ MenuHelp(s) = _with_route(counted, "menu_stuck_repeated", "human_handoff", "none")
      \/ MenuHelp(s) = _with_route(counted, "clarification_needed", "final_reply", "none")
  BY DEF MenuHelp, Clarify, _final_reply_route
<1>. HIDE DEF counted
<1>4. Undisputed(counted.slots, MenuHelp(s).slots) /\ MenuHelp(s).route # "sop"
  BY <1>2, <1>3, WithRouteCalm
<1>5. Undisputed(s.slots, counted.slots)
  BY <1>2 DEF Undisputed
<1>. QED  BY <1>4, <1>5, DisputesCarried DEF Calm, FitsCase

\* A case of another thread (_cross_thread_money_case_route).
LEMMA CaseCalm ==
    ASSUME NEW s, NEW row, Routed(s, row), AsksAfterCase(s), MoneyCases(s)
    PROVE  Calm(s, _cross_thread_money_case_route(s))
<1>. DEFINE r == _cross_thread_money_case_route(s)
<1>1. /\ r.route = "sop" => r.intent = r.active
      /\ r.slots \in {s.slots, clear_backend_dispute_memory(s.slots)}
  BY CaseRouted
<1>. HIDE DEF r
<1>2. IsSlots(s.slots)
  BY DEF Routed, TurnOf
<1>3. ForgetsDisputes(s.slots, clear_backend_dispute_memory(s.slots))
  BY <1>2, DisputeCounted
<1>4. Undisputed(s.slots, r.slots)
  BY <1>1, <1>3, DisputesCarried DEF Undisputed
<1>5. Calm(s, r)
  BY <1>1, <1>4 DEF Calm, FitsCase
<1>. QED  BY <1>5 DEF r

\* Whatever the rules answer (intent_router_node).
LEMMA RulesCalm ==
    ASSUME NEW t, NEW row, Routed(t, row), ~DisputesConclusion(t), MoneyCases(t)
    PROVE  Calm(t, intent_router_node(t))
<1>. DEFINE s == _clear_backend_dispute_on_acceptance(t)
<1>1. Routed(s, row) /\ MoneyCases(s)
  BY AcceptanceRouted DEF MoneyCases
<1>2. Undisputed(t.slots, s.slots) /\ ~DisputesConclusion(s)
  BY AcceptanceCalm
<1>. HIDE DEF s
<1>3. \A intent, route, relation :
         LET r == _with_route(s, intent, route, relation)
         IN  /\ Undisputed(s.slots, r.slots) /\ r.active = s.active
             /\ r.intent = intent /\ r.route = route /\ r.relation = relation
  BY <1>1, WithRouteCalm
<1>4. \A intent, route, relation :
         route # "sop" \/ relation = "none" \/ intent = s.active
             => Calm(s, _with_route(s, intent, route, relation))
  BY <1>3 DEF Calm, FitsCase
<1>5. Calm(s, _active_workflow_deterministic_route(s))
  BY <1>4 DEF _active_workflow_deterministic_route, Clarify, _final_reply_route
<1>6. /\ Calm(s, _recent_authoritative_result_dispute_route(s))
      /\ Calm(s, HumanRequest(s)) /\ Calm(s, MemoryLookup(s))
      /\ Promotable(s) => Calm(s, _promote_pending_image_candidate_route(s))
      /\ ImageCandidate(s) => Calm(s, _image_candidate_only_route(s))
      /\ AsksAfterCase(s) => Calm(s, _cross_thread_money_case_route(s))
      /\ Calm(s, MenuHelp(s)) /\ Calm(s, Clarify(s, "none"))
      /\ Calm(s, _with_route(s, "active_workflow_conflict_with_data", "human_handoff",
                             "human_escalation"))
      /\ Calm(s, _final_reply_route(s, "casual_chat", "none"))
  BY <1>1, <1>4, PictureCalm, MenuCalm, CaseCalm
     DEF _recent_authoritative_result_dispute_route, HumanRequest, MemoryLookup, Clarify,
         _final_reply_route
<1>7. \A table : Calm(s, RouteOf(s, table))
  BY <1>4 DEF RouteOf
<1>8. Calm(t, _forgot_password_followup_route(t))
  <2>1. LET r == _forgot_password_followup_route(t)
        IN  Undisputed(t.slots, r.slots) /\ r.route = "human_handoff"
    BY WithRouteCalm DEF _forgot_password_followup_route
  <2>. QED  BY <2>1 DEF Calm, FitsCase
<1>9. \A r : Calm(s, r) => Calm(t, r)
  BY <1>2, DisputesCarried DEF Calm
<1>10. Calm(s, intent_router_node(t)) \/ Calm(t, intent_router_node(t))
  BY <1>2, <1>5, <1>6, <1>7, <1>8 DEF intent_router_node, s
<1>. QED  BY <1>9, <1>10

\* ... and the LLM (make_intent_router_node).
LEMMA RouterCalm ==
    ASSUME NEW t, NEW row, NEW d, Routed(t, row), ~DisputesConclusion(t), MoneyCases(t)
    PROVE  Calm(t, make_intent_router_node(t, d))
<1>. DEFINE s == _clear_backend_dispute_on_acceptance(t)
            decided == [s EXCEPT !.intent = d.intent, !.route = d.route,
                            !.relation = IF s.active = "none" THEN "none" ELSE d.relation]
<1>1. Routed(s, row) /\ MoneyCases(s)
  BY AcceptanceRouted DEF MoneyCases
<1>2. Undisputed(t.slots, s.slots) /\ ~DisputesConclusion(s)
  BY AcceptanceCalm
<1>. HIDE DEF s
<1>3. ASSUME validate_intent_classification_output(s, d) PROVE Calm(s, decided)
  <2>1. /\ decided.slots = s.slots /\ decided.route = d.route /\ decided.intent = d.intent
        /\ decided.active = s.active
    BY <1>1 DEF Routed, TurnOf, TurnFields
  <2>. HIDE DEF decided
  <2>2. s.active # "none" /\ d.route = "sop" => d.intent = s.active
    BY <1>3, ValidatedKeepsCase
  <2>3. Undisputed(s.slots, decided.slots)
    BY <2>1, DisputesCarried DEF Undisputed
  <2>. QED  BY <2>1, <2>2, <2>3 DEF Calm, FitsCase
<1>4. /\ Calm(s, _recent_authoritative_result_dispute_route(s))
      /\ Calm(s, HumanRequest(s)) /\ Calm(s, MemoryLookup(s))
      /\ AsksAfterCase(s) => Calm(s, _cross_thread_money_case_route(s))
  BY <1>1, WithRouteCalm, CaseCalm
     DEF Calm, FitsCase, _recent_authoritative_result_dispute_route, HumanRequest, MemoryLookup,
         _final_reply_route
<1>5. Calm(s, intent_router_node(s))
  BY <1>1, <1>2, RulesCalm
<1>6. Calm(s, make_intent_router_node(t, d))
  BY <1>2, <1>3, <1>4, <1>5 DEF make_intent_router_node, s
<1>. QED  BY <1>2, <1>6, DisputesCarried DEF Calm

\* A dispute of the conclusion goes to a human, or to a recheck
\* (_recent_backend_result_dispute_route).
LEMMA DisputeFate ==
    ASSUME NEW s, NEW row, Routed(s, row)
    PROVE  LET r == _recent_backend_result_dispute_route(s)
           IN  \/ r.route = "human_handoff"
               \/ /\ r.route = "sop" /\ r.intent = Blocked /\ r.relation = "current_sop_followup"
                  /\ r.says = s.says /\ r.identity = s.identity /\ r.active = s.active
                  /\ Rechecked(s.slots, r.slots)
<1>. DEFINE evaluation == evaluate_backend_dispute(s.slots, s.ev)
            memory == IF evaluation.waiting THEN evaluation.memory
                      ELSE mark_backend_recheck_pending(evaluation.memory)
            n == [s EXCEPT !.slots = memory]
            h == [s EXCEPT !.slots = evaluation.memory]
            r == _recent_backend_result_dispute_route(s)
<1>1. IsSlots(s.slots) /\ DOMAIN s = TurnFields
  BY DEF Routed, TurnOf
<1>2. Rechecked(s.slots, memory)
  BY <1>1, DisputeCounted
<1>3. KeepsCase(s.slots, memory) /\ KeepsCase(s.slots, evaluation.memory)
  BY <1>1, DisputesKeepCase
<1>4. \/ r = _with_route(h, "backend_conclusion_disputed_repeated", "human_handoff",
                         "human_escalation")
      \/ r = _with_route(n, Blocked, "sop", "current_sop_followup")
  BY DEF _recent_backend_result_dispute_route
<1>. HIDE DEF evaluation, memory, r
<1>5. Routed(n, row) /\ Routed(h, row) /\ n.slots = memory
  BY <1>3, SlotsRouted
<1>6. n.says = s.says /\ n.identity = s.identity /\ n.active = s.active
  BY <1>1 DEF TurnFields
<1>. HIDE DEF n, h
<1>7. \/ r.route = "human_handoff"
      \/ /\ r.route = "sop" /\ r.intent = Blocked /\ r.relation = "current_sop_followup"
         /\ r.says = s.says /\ r.identity = s.identity /\ r.active = s.active
         /\ Rechecked(s.slots, r.slots)
  BY <1>2, <1>4, <1>5, <1>6, WithRouteCalm
<1>. QED  BY <1>7 DEF r

-----------------------------------------------------------------------------
(* What the nodes decide *)

\* A row that waits for the backend.
Awaits(row) == row.stage \in AwaitingStages /\ row.active = Blocked

\* A row from which the graph may go on: what is awaited is a case or the backend, and the
\* backend can be asked about the player.
Ready(row) ==
    /\ row.stage \in AwaitingStages => row.active \in MoneySops \cup {Blocked}
    /\ row.slots.conclusion # "none" \/ Awaits(row) => row.slots.identity # "none"

\* What is sent is a case of money or a query about a known player, and what is then awaited
\* is a case of money, or the backend, which has been asked.
Decided(g, row) ==
    /\ \A c \in g.cmds : /\ c.type = "query" => g.slots.identity # "none"
                         /\ c.type \in {"card", "append"} => c.intent \in MoneySops
    /\ g.status # "HANDOFF_REQUESTED" /\ g.stage \in AwaitingStages =>
          /\ g.active \in MoneySops \cup {Blocked}
          /\ g.active = Blocked => Awaits(row) \/ \E c \in g.cmds : c.type = "query"

\* (Command)
LEMMA CommandNames ==
    \A type, intent, m : /\ Command(type, intent, m).type = type
                         /\ Command(type, intent, m).intent = intent
BY DEF Command

\* Collecting slots leaves the disputes alone (plan_sop_dialogue_from_state).
LEMMA CollectingKeepsDisputes ==
    ASSUME NEW s, NEW intent, NEW plan, IsSlots(s.slots)
    PROVE  LET m == plan_sop_dialogue_from_state(s, intent, plan).slots
           IN  KeepsDisputes(s.slots, m) /\ m.staff = s.slots.staff
<1>. DEFINE Same(m, n) == IsSlots(n) /\ KeepsDisputes(m, n) /\ n.staff = m.staff
            told == IF TakesIdentity(s, plan)
                    THEN [s.slots EXCEPT !.identity = s.identity] ELSE s.slots
            named == [told EXCEPT !.amount = @ \/ "amount" \in s.says]
            pictured == WithAttachment(s, intent, plan, named)
            synced == _sync_legacy_aliases(intent, pictured)
<1>1. Same(s.slots, named)
  <2>1. Same(s.slots, told)
    BY DisputeSlots DEF IsSlots, KeepsDisputes, Remembers, TakesIdentity
  <2>2. ASSUME NEW n, IsSlots(n) PROVE Same(n, [n EXCEPT !.amount = @ \/ "amount" \in s.says])
    BY <2>2, DisputeSlots DEF IsSlots, KeepsDisputes, Remembers
  <2>3. Same(told, named)
    <3>. HIDE DEF told
    <3>. QED  BY <2>1, <2>2
  <2>. HIDE DEF told
  <2>. QED  BY <2>1, <2>3 DEF KeepsDisputes, Remembers
<1>2. ASSUME NEW n, IsSlots(n) PROVE Same(n, WithAttachment(s, intent, plan, n))
  BY <1>2, DisputeSlots DEF IsSlots, KeepsDisputes, Remembers, WithAttachment, Shot
<1>3. ASSUME NEW n, IsSlots(n) PROVE Same(n, _sync_legacy_aliases(intent, n))
  BY <1>3, DisputeSlots DEF IsSlots, KeepsDisputes, Remembers, _sync_legacy_aliases, Shot
<1>4. plan_sop_dialogue_from_state(s, intent, plan).slots = synced
  BY DEF plan_sop_dialogue_from_state
<1>5. Same(named, pictured)
  <2>. HIDE DEF named
  <2>. QED  BY <1>1, <1>2
<1>6. Same(pictured, synced)
  <2>. HIDE DEF named, pictured
  <2>. QED  BY <1>3, <1>5
<1>. HIDE DEF named, pictured, synced
<1>. QED  BY <1>1, <1>4, <1>5, <1>6 DEF KeepsDisputes, Remembers

\* Nothing decided (RoutedSound), a human asked for (human_handoff_node), a FAQ answer (rag_node).
LEMMA SimpleDecided ==
    ASSUME NEW s, NEW row, Routed(s, row), Ready(row)
    PROVE  /\ Decided(s, row)
           /\ Decided(rag_node(s), row) /\ rag_node(s).slots = s.slots
<1>1. DOMAIN s = TurnFields /\ s.active = row.active /\ s.stage = row.stage /\ s.cmds = {}
  BY DEF Routed, TurnOf
<1>2. Decided(s, row)
  BY <1>1 DEF Decided, Ready, Awaits
<1>3. LET g == rag_node(s)
      IN  /\ g.slots = s.slots /\ g.cmds = {}
          /\ \/ g.stage = s.stage /\ g.active = s.active
             \/ g.stage \in {"awaiting_password_reset_result", "none"}
  BY <1>1 DEF TurnFields, rag_node
<1>4. Decided(rag_node(s), row)
  BY <1>1, <1>3 DEF Decided, Ready, Awaits, AwaitingStages
<1>. QED  BY <1>2, <1>3, <1>4

\* (human_handoff_node)
LEMMA HandoffDecided ==
    ASSUME NEW s, NEW row, TurnOf(s, row)
    PROVE  Decided(human_handoff_node(s), row)
           /\ human_handoff_node(s).status = "HANDOFF_REQUESTED"
<1>. DEFINE handoff == Command("handoff", "human_handoff", s.slots)
            g == human_handoff_node(s)
<1>1. handoff.type = "handoff"
  BY CommandNames
<1>2. g.status = "HANDOFF_REQUESTED" /\ g.cmds = {handoff}
  BY DEF TurnOf, TurnFields, human_handoff_node
<1>. HIDE DEF handoff, g
<1>3. Decided(g, row)
  BY <1>1, <1>2 DEF Decided
<1>. QED  BY <1>2, <1>3 DEF g

\* (_money_missing_sop)
LEMMA MoneyDecided ==
    ASSUME NEW s, NEW row, NEW intent \in MoneySops, NEW plan, Routed(s, row)
    PROVE  LET g == _money_missing_sop(s, intent, plan)
           IN  Decided(g, row) /\ KeepsDisputes(s.slots, g.slots)
<1>. DEFINE slots == plan_sop_dialogue_from_state(s, intent, plan).slots
            card == Command("card", intent, slots)
            g == _money_missing_sop(s, intent, plan)
<1>1. IsSlots(s.slots) /\ DOMAIN s = TurnFields
  BY DEF Routed, TurnOf
<1>2. KeepsDisputes(s.slots, slots)
  BY <1>1, CollectingKeepsDisputes
<1>3. card.type = "card" /\ card.intent = intent
  BY CommandNames
<1>4. /\ g.slots = slots /\ g.active = intent
      /\ \/ g.cmds = {card}
         \/ g.cmds = {} /\ g.stage = "collecting_slots"
  BY <1>1 DEF TurnFields, _money_missing_sop
<1>. HIDE DEF slots, card, g
<1>5. Decided(g, row)
  BY <1>3, <1>4 DEF Decided, AwaitingStages, MoneySops, Blocked
<1>. QED  BY <1>2, <1>4, <1>5 DEF g

\* (_withdrawal_blocked_sop)
LEMMA BlockedDecided ==
    ASSUME NEW s, NEW row, Routed(s, row)
    PROVE  LET g == _withdrawal_blocked_sop(s)
           IN  /\ Decided(g, row) /\ KeepsDisputes(s.slots, g.slots)
               /\ s.slots.identity # "none" /\ ("wallet_change" \in s.says => s.identity # "none")
                     => \E c \in g.cmds : c.type = "query"
<1>. DEFINE slots == IF s.identity # "none" THEN [s.slots EXCEPT !.identity = s.identity]
                     ELSE s.slots
            query == Command("query", Blocked, slots)
            asks == \/ "wallet_change" \in s.says /\ s.identity = "none"
                    \/ slots.identity = "none"
            g == _withdrawal_blocked_sop(s)
<1>1. IsSlots(s.slots) /\ DOMAIN s = TurnFields
  BY DEF Routed, TurnOf
<1>2. KeepsDisputes(s.slots, slots)
  BY <1>1, DisputeSlots DEF IsSlots, KeepsDisputes, Remembers
<1>3. query.type = "query"
  BY CommandNames
<1>4. /\ g.slots = slots
      /\ asks => g.cmds = {} /\ g.stage = "collecting_slots"
      /\ ~asks => g.cmds = {query} /\ g.active = Blocked
  BY <1>1 DEF TurnFields, _withdrawal_blocked_sop
<1>5. s.slots.identity # "none" => slots.identity # "none"
  BY <1>2 DEF KeepsDisputes, Remembers
<1>. HIDE DEF slots, query, g
<1>6. Decided(g, row)
  BY <1>3, <1>4 DEF Decided, AwaitingStages
<1>7. s.slots.identity # "none" /\ ("wallet_change" \in s.says => s.identity # "none")
          => \E c \in g.cmds : c.type = "query"
  BY <1>3, <1>4, <1>5
<1>. QED  BY <1>2, <1>4, <1>6, <1>7 DEF g

\* (_pending_reply_lookup_sop)
LEMMA LookupDecided ==
    ASSUME NEW s, NEW row, Routed(s, row)
    PROVE  LET g == _pending_reply_lookup_sop(s)
           IN  Decided(g, row) /\ KeepsDisputes(s.slots, g.slots)
<1>. DEFINE slots == IF s.identity # "none" THEN [s.slots EXCEPT !.lookup = s.identity]
                     ELSE s.slots
            lookup == Command("lookup", Lookup, slots)
            g == _pending_reply_lookup_sop(s)
<1>1. IsSlots(s.slots) /\ DOMAIN s = TurnFields
  BY DEF Routed, TurnOf
<1>2. KeepsDisputes(s.slots, slots)
  BY <1>1, DisputeSlots DEF IsSlots, KeepsDisputes, Remembers
<1>3. lookup.type = "lookup"
  BY CommandNames
<1>4. /\ g.slots = slots
      /\ \/ g.cmds = {} /\ g.stage = "collecting_slots"
         \/ g.cmds = {lookup} /\ g.stage = "lookup_pending_reply"
  BY <1>1 DEF TurnFields, _pending_reply_lookup_sop
<1>. HIDE DEF slots, lookup, g
<1>5. Decided(g, row)
  BY <1>3, <1>4 DEF Decided, AwaitingStages
<1>. QED  BY <1>2, <1>4, <1>5 DEF g

\* Whatever the intent (run_sop).
LEMMA SopDecided ==
    ASSUME NEW s, NEW row, NEW plan, Routed(s, row), Ready(row)
    PROVE  LET g == run_sop(s, plan)
           IN  Decided(g, row) /\ KeepsDisputes(s.slots, g.slots)
<1>1. Decided(s, row) /\ KeepsDisputes(s.slots, s.slots)
  BY SimpleDecided, DisputesCarried
<1>2. CASE s.intent \in MoneySops
  <2>1. run_sop(s, plan) = _money_missing_sop(s, s.intent, plan)
    BY <1>2 DEF run_sop, MoneySops, Blocked, Lookup
  <2>. QED  BY <1>2, <2>1, MoneyDecided
<1>3. CASE s.intent \notin MoneySops
  BY <1>1, <1>3, BlockedDecided, LookupDecided DEF run_sop, Blocked, Lookup
<1>. QED  BY <1>2, <1>3

\* While an answer is awaited, or when the customer says that the case is settled
\* (handle_waiting_backend).
LEMMA WaitingDecided ==
    ASSUME NEW s, NEW row, NEW plan, Routed(s, row), Ready(row), Remembers(row.slots, s.slots),
           \/ s.active \in MoneySops
           \/ s.stage \in AwaitingStages
           \/ /\ (IF s.relation # "none" THEN s.relation ELSE plan.relation)
                     = "current_workflow_resolution"
              /\ has_workflow_resolution_signal(s, s.slots)
    PROVE  LET g == handle_waiting_backend(s, plan)
           IN  Decided(g, row) /\ KeepsDisputes(s.slots, g.slots)
<1>. DEFINE l == plan_sop_dialogue_from_state(s, s.active, plan).slots
            m == _merge_waiting_customer_supplement(s, l)
            relation == IF s.relation # "none" THEN s.relation ELSE plan.relation
            Fine(g) == Decided(g, row) /\ KeepsDisputes(s.slots, g.slots)
<1>1. /\ IsSlots(s.slots) /\ DOMAIN s = TurnFields /\ s.active = row.active
      /\ s.stage = row.stage
  BY DEF Routed, TurnOf
<1>2. /\ KeepsDisputes(s.slots, l) /\ l.staff = s.slots.staff /\ IsSlots(l)
      /\ KeepsDisputes(s.slots, m) /\ IsSlots(m)
  <2>1. KeepsDisputes(s.slots, l) /\ l.staff = s.slots.staff /\ IsSlots(l)
    BY <1>1, CollectingKeepsDisputes, CollectingKeepsCase DEF KeepsCase
  <2>. HIDE DEF l
  <2>2. KeepsDisputes(s.slots, m) /\ IsSlots(m)
    BY <2>1, DisputeSlots
       DEF IsSlots, KeepsDisputes, Remembers, _merge_waiting_customer_supplement
  <2>. QED  BY <2>1, <2>2
<1>. HIDE DEF l, m
<1>3. Fine(_delayed_resolved_supplement_state(s, l)) /\ Fine(_resolved_state(s, l))
  <2>1. KeepsDisputes(s.slots, [l EXCEPT !.confirmed = TRUE])
    BY <1>2, DisputeSlots DEF IsSlots, KeepsDisputes, Remembers
  <2>2. LET g == _delayed_resolved_supplement_state(s, l)
        IN  g.slots = l /\ g.cmds = {} /\ g.stage = "completed"
    BY <1>1 DEF TurnFields, _delayed_resolved_supplement_state
  <2>3. LET g == _resolved_state(s, l)
        IN  g.slots = [l EXCEPT !.confirmed = TRUE] /\ g.cmds = {} /\ g.stage = "completed"
    BY <1>1 DEF TurnFields, _resolved_state
  <2>. QED  BY <1>2, <2>1, <2>2, <2>3 DEF Decided, AwaitingStages
<1>4. CASE s.active \in MoneySops \/ s.stage \in AwaitingStages
  <2>1. /\ s.active \in MoneySops \cup {Blocked}
        /\ s.active = Blocked => Awaits(row) /\ l.identity # "none" /\ m.identity # "none"
    BY <1>1, <1>2, <1>4 DEF Ready, Awaits, Remembers, KeepsDisputes, MoneySops, Blocked
  <2>2. ASSUME NEW n, KeepsDisputes(s.slots, n), s.active = Blocked => n.identity # "none"
        PROVE  /\ Fine(Acknowledged(s, n)) /\ Fine(_waiting_followup_state(s, n))
               /\ n.identity # "none" => Fine(_backend_query_state(s, n))
               /\ Fine(_build_handoff_state(s, n))
               /\ s.active # Blocked => Fine(AppendToCase(s, n))
    <3>1. Fine(Acknowledged(s, n)) /\ Fine(_waiting_followup_state(s, n))
      <4>1. LET g == Acknowledged(s, n)
            IN  g.slots = n /\ g.cmds = {} /\ g.active = s.active
        BY <1>1 DEF TurnFields, Acknowledged
      <4>2. LET g == _waiting_followup_state(s, n)
            IN  g.slots = n /\ g.cmds = {} /\ g.active = s.active
        BY <1>1 DEF TurnFields, _waiting_followup_state
      <4>. QED  BY <2>1, <2>2, <4>1, <4>2 DEF Decided
    <3>2. n.identity # "none" => Fine(_backend_query_state(s, n))
      <4>1. LET g == _backend_query_state(s, n)
            IN  g.slots = n /\ g.cmds = {Command("query", Blocked, n)} /\ g.active = Blocked
        BY <1>1 DEF TurnFields, _backend_query_state
      <4>. QED  BY <2>2, <4>1, CommandNames DEF Decided
    <3>3. Fine(_build_handoff_state(s, n))
      <4>1. LET g == _build_handoff_state(s, n)
            IN  /\ g.slots = n /\ g.cmds = {Command("handoff", s.active, n)}
                /\ g.status = "HANDOFF_REQUESTED"
        BY <1>1 DEF TurnFields, _build_handoff_state
      <4>. QED  BY <2>2, <4>1, CommandNames DEF Decided
    <3>4. s.active # Blocked => Fine(AppendToCase(s, n))
      <4>1. LET g == AppendToCase(s, n)
            IN  /\ g.slots = n /\ g.cmds = {Command("append", s.active, n)}
                /\ g.active = s.active
        BY <1>1 DEF TurnFields, AppendToCase
      <4>. QED  BY <2>1, <2>2, <4>1, CommandNames DEF Decided
    <3>. QED  BY <3>1, <3>2, <3>3, <3>4
  <2>. DEFINE waits == [m EXCEPT !.waits = @ + 1]
  <2>3. KeepsDisputes(s.slots, waits) /\ waits.identity = m.identity
    BY <1>2, DisputeSlots DEF IsSlots, KeepsDisputes, Remembers
  <2>4. ASSUME NEW human PROVE Fine(NothingNew(s, m, human))
    <3>1. NothingNew(s, m, human) \in {_build_handoff_state(s, m), _waiting_followup_state(s, m),
                                       _build_handoff_state(s, waits),
                                       _waiting_followup_state(s, waits)}
      BY DEF NothingNew
    <3>. HIDE DEF waits, Fine
    <3>. QED  BY <1>2, <2>1, <2>2, <2>3, <3>1
  <2>. HIDE DEF waits
  <2>5. ASSUME NEW human PROVE Fine(Supplemented(s, m, human))
    <3>. HIDE DEF Fine
    <3>. QED  BY <1>2, <2>1, <2>2 DEF Supplemented
  <2>6. Fine(Acknowledged(s, l))
    <3>. HIDE DEF Fine
    <3>. QED  BY <1>2, <2>1, <2>2
  <2>7. ASSUME s.matched # {} PROVE Fine(_money_case_followup_state(s, m))
    <3>. DEFINE case == CHOOSE k \in s.matched : TRUE
                g == _money_case_followup_state(s, m)
                reminder == [Command("remind", case.intent, m) EXCEPT !.case = case.ev]
    <3>1. case \in s.matched
      BY <2>7
    <3>2. case.intent \in MoneySops
      BY <3>1 DEF Routed
    <3>3. reminder.type = "remind"
      BY DEF Command
    <3>. HIDE DEF reminder
    <3>4. g.slots = m /\ g.cmds = {reminder} /\ g.active = case.intent
      BY <1>1 DEF TurnFields, _money_case_followup_state, reminder
    <3>. HIDE DEF g, case
    <3>5. Fine(g)
      BY <1>2, <3>2, <3>3, <3>4 DEF Decided, MoneySops, Blocked
    <3>. QED  BY <3>5 DEF g
  <2>8. \/ handle_waiting_backend(s, plan) \in {_delayed_resolved_supplement_state(s, l),
                                                _resolved_state(s, l), Acknowledged(s, l)}
        \/ s.matched # {} /\ handle_waiting_backend(s, plan) = _money_case_followup_state(s, m)
        \/ \E human : handle_waiting_backend(s, plan) = Supplemented(s, m, human)
        \/ \E human : handle_waiting_backend(s, plan) = NothingNew(s, m, human)
    BY DEF handle_waiting_backend, l, m
  <2>9. Fine(handle_waiting_backend(s, plan))
    <3>. HIDE DEF Fine
    <3>. QED  BY <1>3, <2>4, <2>5, <2>6, <2>7, <2>8
  <2>. QED  BY <2>9
<1>5. CASE relation = "current_workflow_resolution" /\ has_workflow_resolution_signal(s, s.slots)
  <2>1. has_workflow_resolution_signal(s, l)
    BY <1>2, <1>5 DEF has_workflow_resolution_signal
  <2>2. handle_waiting_backend(s, plan) \in {_delayed_resolved_supplement_state(s, l),
                                             _resolved_state(s, l)}
    BY <1>5, <2>1 DEF handle_waiting_backend, l
  <2>3. Fine(handle_waiting_backend(s, plan))
    <3>. HIDE DEF Fine
    <3>. QED  BY <1>3, <2>2
  <2>. QED  BY <2>3
<1>. QED  BY <1>4, <1>5

\* The planner of the LLM is asked for money SOPs only (sop_node,
\* _should_run_sop_slot_extraction).
LEMMA SopNodeDecided ==
    ASSUME NEW s, NEW row, NEW plan, Routed(s, row), Ready(row), Remembers(row.slots, s.slots),
           s.route = "sop", FitsCase(s), plan.llm => s.intent \in MoneySops
    PROVE  LET g == sop_node(s, plan)
           IN  Decided(g, row) /\ KeepsDisputes(s.slots, g.slots)
<1>1. CASE s.stage \in AwaitingStages
  <2>1. sop_node(s, plan) = handle_waiting_backend(s, plan)
    BY <1>1 DEF sop_node
  <2>. QED  BY <1>1, <2>1, WaitingDecided
<1>2. CASE /\ s.active # "none"
           /\ "current_workflow_resolution" \in
                  {s.relation} \cup (IF plan.llm THEN {plan.relation} ELSE {})
           /\ has_workflow_resolution_signal(s, s.slots)
  <2>1. sop_node(s, plan) = handle_waiting_backend(s, plan)
    BY <1>2 DEF sop_node
  <2>2. \/ s.active \in MoneySops
        \/ (IF s.relation # "none" THEN s.relation ELSE plan.relation)
               = "current_workflow_resolution"
    BY <1>2 DEF FitsCase
  <2>. QED  BY <1>2, <2>1, <2>2, WaitingDecided
<1>3. CASE /\ s.stage \notin AwaitingStages
           /\ ~(/\ s.active # "none"
                /\ "current_workflow_resolution" \in
                       {s.relation} \cup (IF plan.llm THEN {plan.relation} ELSE {})
                /\ has_workflow_resolution_signal(s, s.slots))
  <2>1. sop_node(s, plan) = run_sop(s, plan)
    BY <1>3 DEF sop_node
  <2>. QED  BY <2>1, SopDecided
<1>. QED  BY <1>1, <1>2, <1>3

\* What a turn that asks for no human does to the disputes.
Treats(m, row, g) ==
    g.status # "HANDOFF_REQUESTED" =>
        /\ \/ Undisputed(row.slots, g.slots)
           \/ Rechecked(row.slots, g.slots)
           \/ "accepts" \in m.says /\ Remembers(row.slots, g.slots) /\ g.slots.recheck
        /\ DisputesAlone(m, row) =>
              /\ g.slots.recheck
              /\ Rechecked(row.slots, g.slots) \/ "accepts" \in m.says
              /\ Awaits(row) \/ \E c \in g.cmds : c.type = "query"

\* A dispute that is not handed to a human is queued behind a query on the way, or the
\* backend is asked again (intent_router_node, sop_node, _withdrawal_blocked_sop).
LEMMA RecheckOrdered ==
    ASSUME NEW m, NEW row, NEW t, NEW d, Routed(t, row), Ready(row),
           KeepsDisputes(row.slots, t.slots), DisputesConclusion(t),
           t.says = m.says, t.identity = m.identity,
           make_intent_router_node(t, d).route # "human_handoff"
    PROVE  LET routed == make_intent_router_node(t, d)
               g == sop_node(routed, RulesPlan)
           IN  /\ routed.route = "sop" /\ routed.intent = Blocked
               /\ Decided(g, row) /\ Treats(m, row, g)
<1>. DEFINE s == _clear_backend_dispute_on_acceptance(t)
            routed == make_intent_router_node(t, d)
            g == sop_node(routed, RulesPlan)
<1>1. Routed(s, row)
  BY AcceptanceRouted
<1>2. /\ Undisputed(t.slots, s.slots)
      /\ "accepts" \notin t.says => s = t
      /\ s.says = m.says /\ s.identity = m.identity /\ DisputesConclusion(s)
  BY AcceptanceCalm
<1>3. routed = _recent_backend_result_dispute_route(s)
  BY <1>2 DEF make_intent_router_node
<1>4. Routed(routed, row)
  BY <1>1, <1>3, DisputeRouted
<1>. HIDE DEF s, routed
<1>5. /\ routed.route = "sop" /\ routed.intent = Blocked
      /\ routed.relation = "current_sop_followup"
      /\ routed.says = m.says /\ routed.identity = m.identity
      /\ Rechecked(s.slots, routed.slots)
  <2>1. routed.route # "human_handoff"
    BY DEF routed
  <2>. QED  BY <1>1, <1>2, <1>3, <2>1, DisputeFate
<1>6. RulesPlan.llm = FALSE /\ Blocked \notin MoneySops
  BY DEF RulesPlan, Blocked, MoneySops
<1>7. Remembers(row.slots, routed.slots)
  <2>1. Remembers(t.slots, s.slots)
    BY <1>2 DEF Undisputed, KeepsDisputes, ForgetsDisputes
  <2>. QED  BY <1>5, <2>1 DEF KeepsDisputes, Rechecked, Remembers
<1>8. FitsCase(routed)
  BY <1>5, <1>6 DEF FitsCase
<1>9. Decided(g, row) /\ KeepsDisputes(routed.slots, g.slots)
  BY <1>4, <1>5, <1>6, <1>7, <1>8, SopNodeDecided
<1>10. Awaits(row) \/ (\E c \in g.cmds : c.type = "query") \/ ~DisputesAlone(m, row)
  <2>1. CASE row.stage \in AwaitingStages
    BY <2>1 DEF Ready, Awaits, DisputesAlone
  <2>2. CASE row.stage \notin AwaitingStages
    <3>1. routed.stage = row.stage
      BY <1>4 DEF Routed
    <3>2. g = run_sop(routed, RulesPlan)
      BY <1>5, <1>6, <2>2, <3>1 DEF sop_node
    <3>3. g = _withdrawal_blocked_sop(routed)
      BY <1>5, <3>2 DEF run_sop, MoneySops, Blocked, Lookup
    <3>4. ASSUME DisputesAlone(m, row)
          PROVE  /\ routed.slots.identity # "none"
                 /\ "wallet_change" \in routed.says => routed.identity # "none"
      BY <1>5, <1>7, <3>4 DEF DisputesAlone, Ready, Remembers
    <3>. QED  BY <1>4, <3>3, <3>4, BlockedDecided
  <2>. QED  BY <2>1, <2>2
<1>. HIDE DEF g
<1>11. /\ g.slots.recheck /\ Remembers(row.slots, g.slots)
       /\ "accepts" \notin m.says => Rechecked(row.slots, g.slots)
  <2>1. Rechecked(s.slots, g.slots)
    BY <1>5, <1>9, DisputesCarried
  <2>2. Remembers(routed.slots, g.slots)
    BY <1>9 DEF KeepsDisputes
  <2>3. Remembers(row.slots, g.slots) /\ g.slots.recheck
    BY <1>7, <2>1, <2>2, DisputesCarried DEF Rechecked
  <2>4. "accepts" \notin m.says => Rechecked(row.slots, g.slots)
    <3>1. "accepts" \notin m.says => Rechecked(t.slots, g.slots)
      BY <1>2, <2>1
    <3>. QED  BY <3>1 DEF KeepsDisputes, Rechecked, Remembers
  <2>. QED  BY <2>3, <2>4
<1>12. Treats(m, row, g)
  BY <1>10, <1>11 DEF Treats
<1>. QED  BY <1>5, <1>9, <1>12 DEF g, routed

\* A turn may go on from any of its origins, and what it decides is as good as if it had gone
\* on from its row.
LEMMA OriginDecided ==
    ASSUME NEW s, NEW row, NEW o \in Origins(row, s), NEW g, MoneyCases(s), Ready(row)
    PROVE  /\ Ready(o) /\ o.slots = row.slots
           /\ Decided(g, o) => Decided(g, row)
<1>1. CASE o = row
  BY <1>1
<1>2. CASE \E k \in s.cases : o = Moved(row, k)
  <2>1. o.active \in MoneySops /\ o.slots = row.slots
    BY <1>2 DEF Moved, MoneyCases
  <2>2. ~Awaits(o)
    BY <2>1 DEF Awaits, MoneySops, Blocked
  <2>. QED  BY <2>1, <2>2 DEF Ready, Decided
<1>. QED  BY <1>1, <1>2 DEF Origins

\* What the graph makes of an event (run_graph).
LEMMA GraphDecided ==
    ASSUME NEW m, NEW ev, NEW row, NEW cases, NEW d, NEW plan, IsRow(row), Ready(row),
           \A k \in cases : k.intent \in MoneySops
    PROVE  LET g == run_graph(build_graph_state_from_event(m, ev, row, cases), m.says, d, plan)
           IN  Decided(g, row) /\ Treats(m, row, g)
<1>. DEFINE start == build_graph_state_from_event(m, ev, row, cases)
            t == rewrite_question_node(start, m.says)
            routed == make_intent_router_node(t, d)
            p == IF _should_run_sop_slot_extraction(routed) THEN plan ELSE RulesPlan
            g == run_graph(start, m.says, d, plan)
<1>1. Routed(start, row)
  BY StartRouted
<1>2. /\ start.slots = [row.slots EXCEPT !.fresh = FALSE] /\ start.raw = m.raw
      /\ start.identity = m.identity /\ start.cases = cases
  BY DEF build_graph_state_from_event
<1>. HIDE DEF start
<1>3. /\ Routed(t, row) /\ t.slots = [row.slots EXCEPT !.fresh = FALSE] /\ t.raw = m.raw
      /\ t.identity = m.identity /\ t.says = m.says /\ MoneyCases(t)
  BY <1>1, <1>2 DEF Routed, TurnOf, TurnFields, rewrite_question_node, MoneyCases
<1>4. KeepsDisputes(row.slots, t.slots)
  BY <1>3, DisputeSlots DEF IsRow, IsSlots, KeepsDisputes, Remembers
<1>5. g = CASE routed.route = "sop" -> sop_node(routed, p)
            [] routed.route = "faq" -> rag_node(routed)
            [] routed.route = "human_handoff" -> human_handoff_node(routed)
            [] OTHER -> routed
  BY DEF run_graph
<1>6. p.llm => routed.intent \in MoneySops
  BY DEF _should_run_sop_slot_extraction, RulesPlan
<1>7. routed.intent = Blocked => p = RulesPlan
  BY DEF _should_run_sop_slot_extraction, MoneySops, Blocked
<1>8. DisputesAlone(m, row) => DisputesConclusion(t)
  BY <1>3, <1>4 DEF DisputesAlone, DisputesConclusion, KeepsDisputes, Remembers
<1>. HIDE DEF t, p, g
<1>9. PICK o \in Origins(row, t) : Routed(routed, o)
  BY <1>3, RouterRouted
<1>10. Ready(o) /\ o.slots = row.slots /\ (Decided(g, o) => Decided(g, row))
  BY <1>3, OriginDecided
<1>11. CASE routed.route = "human_handoff"
  <2>1. g = human_handoff_node(routed)
    BY <1>5, <1>11
  <2>2. Decided(g, row) /\ g.status = "HANDOFF_REQUESTED"
    <3>1. TurnOf(routed, o)
      BY <1>9 DEF Routed
    <3>. HIDE DEF routed
    <3>2. Decided(g, o) /\ g.status = "HANDOFF_REQUESTED"
      BY <2>1, <3>1, HandoffDecided
    <3>. QED  BY <1>10, <3>2
  <2>3. Treats(m, row, g)
    BY <2>2 DEF Treats
  <2>. QED  BY <2>2, <2>3 DEF g, start
<1>12. CASE routed.route # "human_handoff" /\ DisputesConclusion(t)
  <2>1. /\ routed.route = "sop" /\ routed.intent = Blocked
        /\ Decided(sop_node(routed, RulesPlan), row)
        /\ Treats(m, row, sop_node(routed, RulesPlan))
    BY <1>3, <1>4, <1>12, RecheckOrdered
  <2>2. g = sop_node(routed, RulesPlan)
    BY <1>5, <1>7, <2>1
  <2>. QED  BY <2>1, <2>2 DEF g, start
<1>13. CASE routed.route # "human_handoff" /\ ~DisputesConclusion(t)
  <2>1. Calm(t, routed)
    BY <1>3, <1>13, RouterCalm
  <2>. HIDE DEF routed
  <2>2. Undisputed(row.slots, routed.slots) /\ Remembers(o.slots, routed.slots)
    BY <1>4, <1>10, <2>1, DisputesCarried DEF Calm, Undisputed
  <2>3. Decided(g, o) /\ KeepsDisputes(routed.slots, g.slots)
    <3>1. CASE routed.route = "sop"
      <4>1. g = sop_node(routed, p)
        BY <1>5, <3>1
      <4>. QED  BY <1>6, <1>9, <1>10, <2>1, <2>2, <3>1, <4>1, SopNodeDecided DEF Calm
    <3>2. CASE routed.route # "sop"
      <4>1. g = rag_node(routed) \/ g = routed
        BY <1>5, <1>13, <3>2
      <4>. QED  BY <1>9, <1>10, <4>1, SimpleDecided, DisputesCarried
    <3>. QED  BY <3>1, <3>2
  <2>4. Undisputed(row.slots, g.slots)
    BY <2>2, <2>3, DisputesCarried DEF Undisputed
  <2>5. Treats(m, row, g)
    BY <1>8, <1>13, <2>4 DEF Treats
  <2>. QED  BY <1>10, <2>3, <2>5 DEF g, start
<1>. QED  BY <1>11, <1>12, <1>13

\* What a menu button leads to (_build_business_button_state).
LEMMA ButtonDecided ==
    ASSUME NEW m, NEW ev, NEW row, IsRow(row), Ready(row),
           m.button \in DOMAIN BUSINESS_BUTTON_ROUTES
    PROVE  LET g == _build_business_button_state(_base_pre_graph_state(m, ev, row), m.button)
           IN  Decided(g, row) /\ Treats(m, row, g)
<1>. DEFINE base == _base_pre_graph_state(m, ev, row)
            g == _build_business_button_state(base, m.button)
            at == BUSINESS_BUTTON_ROUTES[m.button]
            routed == [base EXCEPT !.intent = at.intent, !.route = at.route]
<1>1. Routed(base, row)
  BY StartRouted
<1>2. base.slots = [row.slots EXCEPT !.fresh = FALSE]
  BY DEF _base_pre_graph_state, build_graph_state_from_event
<1>. HIDE DEF base, at
<1>3. Routed(routed, row) /\ routed.slots = base.slots
  BY <1>1 DEF Routed, TurnOf, TurnFields
<1>4. KeepsDisputes(row.slots, routed.slots)
  BY <1>2, <1>3, DisputeSlots DEF IsRow, IsSlots, KeepsDisputes, Remembers
<1>5. g \in {run_sop(routed, RulesPlan), rag_node(routed), human_handoff_node(routed)}
  BY DEF _build_business_button_state, at
<1>. HIDE DEF routed, g
<1>6. ~DisputesAlone(m, row)
  BY DEF DisputesAlone
<1>7. CASE g \in {run_sop(routed, RulesPlan), rag_node(routed)}
  <2>1. Decided(g, row) /\ KeepsDisputes(routed.slots, g.slots)
    BY <1>3, <1>7, SopDecided, SimpleDecided, DisputesCarried
  <2>2. Undisputed(row.slots, g.slots)
    BY <1>4, <2>1, DisputesCarried DEF Undisputed
  <2>3. Treats(m, row, g)
    BY <1>6, <2>2 DEF Treats
  <2>. QED  BY <2>1, <2>3 DEF g, base
<1>8. CASE g = human_handoff_node(routed)
  <2>1. Decided(g, row) /\ g.status = "HANDOFF_REQUESTED"
    BY <1>3, <1>8, HandoffDecided DEF Routed
  <2>2. Treats(m, row, g)
    BY <2>1 DEF Treats
  <2>. QED  BY <2>1, <2>2 DEF g, base
<1>. QED  BY <1>5, <1>7, <1>8

\* What the gateway commits for an event (process_event).
LEMMA TurnDecided ==
    ASSUME NEW m, NEW ev, NEW row, NEW cases, NEW d, NEW plan, NEW fails, IsRow(row), Ready(row),
           ~Locked(row), \A k \in cases : k.intent \in MoneySops
    PROVE  LET g == process_event(m, ev, row, cases, d, plan, fails)
           IN  Decided(g, row) /\ Treats(m, row, g)
<1>. DEFINE graph == run_graph(build_graph_state_from_event(m, ev, row, cases), m.says, d, plan)
            button == _build_business_button_state(_base_pre_graph_state(m, ev, row), m.button)
            answered == IF m.button \in DOMAIN BUSINESS_BUTTON_ROUTES THEN button ELSE graph
            g == process_event(m, ev, row, cases, d, plan, fails)
<1>1. Decided(answered, row) /\ Treats(m, row, answered)
  <2>1. Decided(graph, row) /\ Treats(m, row, graph)
    BY GraphDecided
  <2>2. m.button \in DOMAIN BUSINESS_BUTTON_ROUTES =>
            Decided(button, row) /\ Treats(m, row, button)
    BY ButtonDecided
  <2>. HIDE DEF graph, button
  <2>. QED  BY <2>1, <2>2
<1>2. Sound(answered, row)
  BY GraphSound, ButtonSound
<1>3. g \in {answered, human_handoff_node(answered)}
  BY DEF process_event, _build_ai_service_failure_handoff_state
<1>. HIDE DEF answered, g
<1>4. CASE g = answered
  BY <1>1, <1>4 DEF g
<1>5. CASE g = human_handoff_node(answered)
  <2>1. Decided(g, row) /\ g.status = "HANDOFF_REQUESTED"
    BY <1>2, <1>5, HandoffDecided DEF Sound
  <2>2. Treats(m, row, g)
    BY <2>1 DEF Treats
  <2>. QED  BY <2>1, <2>2 DEF g
<1>. QED  BY <1>3, <1>4, <1>5

-----------------------------------------------------------------------------
(* The row and the disputes of its conclusion *)

\* How a row fits the query or answer on the way, if there is one (asked), and the events that
\* have disputed its conclusion.
Orderly(row, asked, events) ==
    /\ row.slots.failCount \in Nat
    /\ row.slots.conclusion # "none" \/ asked => row.slots.identity # "none"
    /\ row.stage \in AwaitingStages => row.active \in MoneySops \cup {Blocked}
    /\ Awaits(row) => asked
    /\ events # {} => row.slots.recheck /\ row.slots.conclusion # "none"
    /\ Cardinality(events) >= 2 =>
          /\ row.slots.queued
          /\ \/ asked
             \/ row.slots.failCount > 0
             \/ row.slots.origin # row.slots.conclusion

\* ... unless it is a human's.
Settled(row, asked, events) == ~Locked(row) => Orderly(row, asked, events)

\* One event is not two.
LEMMA FewEvents ==
    /\ ~(Cardinality({}) >= 2)
    /\ \A ev : ~(Cardinality({ev}) >= 2)
<1>1. ~(Cardinality({}) >= 2)
  BY FS_EmptySet
<1>2. ASSUME NEW ev PROVE ~(Cardinality({ev}) >= 2)
  <2>1. Cardinality({ev}) = 1
    BY FS_Singleton
  <2>. HIDE DEF Cardinality
  <2>. QED  BY <2>1
<1>. QED  BY <1>1, <1>2

\* What a turn makes of the events (DisputedAfter).
EventsLeft(m, ev, row, slots, events) ==
    LET kept_1 == IF "accepts" \in m.says THEN {} ELSE events
    IN  IF DisputesAlone(m, row) THEN kept_1 \cup {ev}
        ELSE IF ~slots.recheck /\ slots.dCount = 0 THEN {}
        ELSE kept_1

\* A turn (CommitTurn, process_event).
LEMMA TurnSettles ==
    ASSUME NEW m, NEW ev, NEW row, NEW g, NEW asked, NEW askedAfter, NEW events, ~Locked(row),
           Settled(row, asked, events), Decided(g, row), Treats(m, row, g),
           g.status # "HANDOFF_REQUESTED",
           askedAfter <=> asked \/ \E c \in g.cmds : c.type = "query"
    PROVE  Orderly(g, askedAfter, EventsLeft(m, ev, row, g.slots, events))
<1>. DEFINE eventsAfter == EventsLeft(m, ev, row, g.slots, events)
<1>. SUFFICES /\ g.slots.failCount \in Nat
              /\ g.slots.conclusion # "none" \/ askedAfter => g.slots.identity # "none"
              /\ g.stage \in AwaitingStages => g.active \in MoneySops \cup {Blocked}
              /\ Awaits(g) => askedAfter
              /\ eventsAfter # {} => g.slots.recheck /\ g.slots.conclusion # "none"
              /\ Cardinality(eventsAfter) >= 2 =>
                    /\ g.slots.queued
                    /\ \/ askedAfter
                       \/ g.slots.failCount > 0
                       \/ g.slots.origin # g.slots.conclusion
  BY DEF Orderly
<1>1. /\ row.slots.failCount \in Nat
      /\ row.slots.conclusion # "none" \/ asked => row.slots.identity # "none"
      /\ Awaits(row) => asked
      /\ events # {} => row.slots.recheck /\ row.slots.conclusion # "none"
      /\ Cardinality(events) >= 2 =>
            /\ row.slots.queued
            /\ \/ asked
               \/ row.slots.failCount > 0
               \/ row.slots.origin # row.slots.conclusion
  BY DEF Settled, Orderly
<1>2. /\ g.status # "HANDOFF_REQUESTED"
      /\ \/ Undisputed(row.slots, g.slots)
         \/ Rechecked(row.slots, g.slots)
         \/ "accepts" \in m.says /\ Remembers(row.slots, g.slots) /\ g.slots.recheck
      /\ DisputesAlone(m, row) =>
            /\ g.slots.recheck
            /\ Rechecked(row.slots, g.slots) \/ "accepts" \in m.says
            /\ Awaits(row) \/ \E c \in g.cmds : c.type = "query"
  BY DEF Treats
<1>3. Remembers(row.slots, g.slots)
  BY <1>2 DEF Undisputed, KeepsDisputes, ForgetsDisputes, Rechecked
<1>4. /\ g.slots.failCount \in Nat
      /\ g.slots.conclusion # "none" \/ askedAfter => g.slots.identity # "none"
      /\ g.stage \in AwaitingStages => g.active \in MoneySops \cup {Blocked}
      /\ Awaits(g) => askedAfter
  BY <1>1, <1>2, <1>3 DEF Remembers, Decided, Awaits
<1>5. CASE eventsAfter = {}
  BY <1>4, <1>5, FewEvents
<1>6. CASE eventsAfter # {} /\ DisputesAlone(m, row)
  <2>1. g.slots.recheck /\ g.slots.conclusion # "none" /\ askedAfter
    BY <1>1, <1>2, <1>3, <1>6 DEF DisputesAlone, Remembers
  <2>2. Cardinality(eventsAfter) >= 2 => g.slots.queued
    <3>1. CASE "accepts" \in m.says \/ events = {}
      <4>1. eventsAfter = {ev}
        BY <1>6, <3>1 DEF EventsLeft
      <4>. QED  BY <4>1, FewEvents
    <3>2. CASE "accepts" \notin m.says /\ events # {}
      BY <1>1, <1>2, <1>6, <3>2 DEF Rechecked, EventsLeft
    <3>. QED  BY <3>1, <3>2
  <2>. QED  BY <1>4, <2>1, <2>2
<1>7. CASE eventsAfter # {} /\ ~DisputesAlone(m, row)
  <2>1. /\ "accepts" \notin m.says /\ eventsAfter = events
        /\ ~(~g.slots.recheck /\ g.slots.dCount = 0)
    BY <1>7 DEF EventsLeft
  <2>2. KeepsDisputes(row.slots, g.slots) \/ Rechecked(row.slots, g.slots)
    BY <1>2, <2>1 DEF Undisputed, ForgetsDisputes
  <2>3. row.slots.recheck /\ row.slots.conclusion # "none"
    BY <1>1, <1>7, <2>1
  <2>4. /\ g.slots.recheck /\ g.slots.conclusion = row.slots.conclusion
        /\ g.slots.failCount = row.slots.failCount /\ g.slots.origin = row.slots.origin
        /\ row.slots.queued => g.slots.queued
    <3>1. CASE KeepsDisputes(row.slots, g.slots)
      BY <2>3, <3>1 DEF KeepsDisputes, Remembers
    <3>2. CASE Rechecked(row.slots, g.slots)
      BY <2>3, <3>2 DEF Rechecked, Remembers
    <3>. QED  BY <2>2, <3>1, <3>2
  <2>5. Cardinality(eventsAfter) >= 2 =>
            /\ row.slots.queued
            /\ \/ asked
               \/ row.slots.failCount > 0
               \/ row.slots.origin # row.slots.conclusion
    BY <1>1, <2>1
  <2>. QED  BY <1>4, <2>3, <2>4, <2>5
<1>. QED  BY <1>5, <1>6, <1>7

\* A result or a staff reply that leaves the disputes alone (build_result_handler,
\* build_staff_reply_handler).
LEMMA OtherResultSettles ==
    ASSUME NEW r, NEW row, NEW asked, NEW events, IsRow(row), ~Locked(row),
           Settled(row, asked, events), r.type \in ResultTypes \ {"answered"},
           r.type \in {"created", "appended", "staff"} => r.intent \in MoneySops
    PROVE  LET h == build_result_handler(r, row, row)
           IN  /\ Settled(h, asked, events) /\ h.cmds = {}
               /\ h.slots.conclusion = row.slots.conclusion
<1>. DEFINE h == build_result_handler(r, row, row)
<1>1. IsSlots(row.slots)
  BY DEF IsRow
<1>2. ASSUME NEW n, KeepsDisputes(row.slots, n), IsSlots(n), r.intent \in MoneySops
      PROVE  LET w == Waiting(r, n)
             IN  /\ KeepsDisputes(row.slots, w.slots) /\ w.active \in MoneySops /\ w.cmds = {}
                 /\ w.stage = "waiting_backend"
  BY <1>2, DisputeSlots DEF IsSlots, KeepsDisputes, Remembers, Waiting
<1>3. /\ KeepsDisputes(row.slots, h.slots) /\ h.cmds = {}
      /\ h.active \in MoneySops \/ h.stage \notin AwaitingStages
  <2>1. CASE r.type = "created"
    <3>. DEFINE n == [row.slots EXCEPT !.case = r.ev]
    <3>1. KeepsDisputes(row.slots, n) /\ IsSlots(n)
      BY <1>1, DisputeSlots DEF IsSlots, KeepsDisputes, Remembers
    <3>2. h = Waiting(r, n)
      BY <2>1 DEF build_result_handler
    <3>. HIDE DEF n, h
    <3>. QED  BY <1>2, <2>1, <3>1, <3>2
  <2>2. CASE r.type = "appended"
    <3>1. h = Waiting(r, row.slots)
      BY <2>2 DEF build_result_handler
    <3>2. KeepsDisputes(row.slots, row.slots)
      BY DisputesCarried
    <3>. HIDE DEF h
    <3>. QED  BY <1>1, <1>2, <2>2, <3>1, <3>2
  <2>3. CASE r.type = "looked_up"
    <3>1. h = LookedUp(r, row)
      BY <2>3 DEF build_result_handler
    <3>2. KeepsDisputes(row.slots, [row.slots EXCEPT !.fresh = FALSE])
      BY <1>1, DisputeSlots DEF IsSlots, KeepsDisputes, Remembers
    <3>3. LET w == LookedUp(r, row)
          IN  /\ w.slots = [row.slots EXCEPT !.fresh = FALSE] /\ w.cmds = {}
              /\ w.stage = "pending_reply_answered"
      BY DEF LookedUp
    <3>. HIDE DEF h
    <3>. QED  BY <3>1, <3>2, <3>3 DEF AwaitingStages
  <2>4. CASE r.type = "staff" /\ r.status = "under_review"
    <3>. DEFINE n == [row.slots EXCEPT !.staff = "received"]
    <3>1. KeepsDisputes(row.slots, n) /\ IsSlots(n)
      BY <1>1, DisputeSlots DEF IsSlots, KeepsDisputes, Remembers
    <3>2. h = Waiting(r, n)
      BY <2>4 DEF build_result_handler, build_staff_reply_handler
    <3>. HIDE DEF n, h
    <3>. QED  BY <1>2, <2>4, <3>1, <3>2
  <2>5. CASE r.type = "staff" /\ r.status = "waiting_customer"
    <3>. DEFINE n == [row.slots EXCEPT !.staff = "ask_customer"]
                w == Waiting(r, n)
    <3>1. KeepsDisputes(row.slots, n) /\ IsSlots(n)
      BY <1>1, DisputeSlots DEF IsSlots, KeepsDisputes, Remembers
    <3>2. h = [w EXCEPT !.stage = "waiting_customer_supplement"]
      BY <2>5 DEF build_result_handler, build_staff_reply_handler
    <3>3. h.slots = w.slots /\ h.active = w.active /\ h.cmds = w.cmds
      BY <3>2 DEF Waiting
    <3>. HIDE DEF n, h
    <3>. QED  BY <1>2, <2>5, <3>1, <3>3
  <2>6. CASE r.type = "staff" /\ r.status \notin {"under_review", "waiting_customer"}
    <3>. DEFINE n == [row.slots EXCEPT !.resolvedAt = Len(sent) + 1, !.confirmed = FALSE,
                                       !.case = 0, !.staff = "none", !.fresh = FALSE]
    <3>1. KeepsDisputes(row.slots, n)
      BY <1>1, DisputeSlots DEF IsSlots, KeepsDisputes, Remembers
    <3>2. h = Resolved(row)
      BY <2>6 DEF build_result_handler, build_staff_reply_handler
    <3>3. LET w == Resolved(row) IN w.slots = n /\ w.cmds = {} /\ w.stage = "completed"
      BY DEF Resolved
    <3>. HIDE DEF n, h
    <3>. QED  BY <3>1, <3>2, <3>3 DEF AwaitingStages
  <2>. QED  BY <2>1, <2>2, <2>3, <2>4, <2>5, <2>6 DEF ResultTypes
<1>. HIDE DEF h
<1>4. Settled(h, asked, events)
  BY <1>3 DEF Settled, Orderly, KeepsDisputes, Remembers, Awaits, MoneySops, Blocked
<1>5. h.slots.conclusion = row.slots.conclusion
  BY <1>3 DEF KeepsDisputes, Remembers
<1>. QED  BY <1>3, <1>4, <1>5 DEF h

\* A query that failed: the failure is counted (QueryFailed, _backend_lookup_escalation).
LEMMA FailureSettles ==
    ASSUME NEW r, NEW row, NEW askedAfter, NEW events, IsRow(row), ~Locked(row),
           Settled(row, TRUE, events)
    PROVE  LET h == QueryFailed(r, row, row)
           IN  /\ Settled(h, askedAfter, events) /\ h.slots.conclusion = row.slots.conclusion
               /\ \A c \in h.cmds : c.type = "handoff"
<1>. DEFINE e == _backend_lookup_escalation(row.slots, "failed", r.identity)
            n == [row.slots EXCEPT !.failCount = e.count, !.fresh = FALSE,
                                   !.handoffReq = @ \/ e.handoff]
            commands == IF e.handoff THEN {HandoffFor("failed", n)} ELSE {}
            h == QueryFailed(r, row, row)
<1>1. e.count = row.slots.failCount + 1
  BY DEF _backend_lookup_escalation
<1>2. h = Escalated(e.handoff, "WAITING_EXTERNAL", Blocked,
                    "backend_query_failed_waiting_manual", n, commands)
  BY DEF QueryFailed
<1>. HIDE DEF e
<1>3. /\ n.conclusion = row.slots.conclusion /\ n.identity = row.slots.identity
      /\ n.recheck = row.slots.recheck /\ n.queued = row.slots.queued
      /\ n.failCount = row.slots.failCount + 1
  BY <1>1, DisputeSlots DEF IsRow, IsSlots
<1>4. \A c \in commands : c.type = "handoff"
  BY HandoffType
<1>. HIDE DEF n, commands, h
<1>5. /\ h.slots = n /\ h.cmds = commands
      /\ Locked(h) \/ h.stage = "backend_query_failed_waiting_manual"
  BY <1>2 DEF Escalated, Locked
<1>6. Settled(h, askedAfter, events)
  BY <1>3, <1>5 DEF Settled, Orderly, Awaits, AwaitingStages
<1>. QED  BY <1>3, <1>4, <1>5, <1>6 DEF h

\* The conclusion after an answer, and what becomes of a recheck that was pending
\* (apply_backend_conclusion, resolve_backend_recheck).
LEMMA RecheckResolved ==
    ASSUME NEW m, NEW r, IsSlots(m)
    PROVE  LET e == resolve_backend_recheck(m, r)
           IN  /\ IsSlots(e.memory)
               /\ e.memory.conclusion = m.conclusion \/ e.memory.conclusion # "none"
               /\ e.memory.recheck = FALSE /\ e.memory.queued = FALSE
               /\ e.memory.origin = "none"
               /\ e.memory.identity = m.identity /\ e.memory.failCount = m.failCount
               /\ ~e.should_handoff /\ m.recheck /\ m.queued =>
                     m.origin = "none" \/ m.origin # e.memory.conclusion
<1>. DEFINE applied == apply_backend_conclusion(m, r)
            cleared == [applied EXCEPT !.recheck = FALSE, !.origin = "none",
                                       !.queued = FALSE, !.qEvent = 0]
            twice == [cleared EXCEPT !.dCount = 2]
            e == resolve_backend_recheck(m, r)
<1>1. /\ IsSlots(applied)
      /\ applied.conclusion = m.conclusion \/ applied.conclusion # "none"
      /\ applied.identity = m.identity /\ applied.failCount = m.failCount
  BY DisputeSlots DEF IsSlots, apply_backend_conclusion, _is_authoritative_result
<1>2. /\ e.memory \in {cleared, twice}
      /\ e.should_handoff <=> m.recheck /\ m.origin # "none" /\ applied.conclusion = m.origin
                              /\ m.queued
  BY DEF resolve_backend_recheck
<1>. HIDE DEF applied, e
<1>3. /\ IsSlots(cleared) /\ cleared.conclusion = applied.conclusion
      /\ cleared.recheck = FALSE /\ cleared.queued = FALSE /\ cleared.origin = "none"
      /\ cleared.identity = applied.identity /\ cleared.failCount = applied.failCount
  BY <1>1, DisputeSlots DEF IsSlots
<1>. HIDE DEF cleared
<1>4. /\ IsSlots(twice) /\ twice.conclusion = applied.conclusion
      /\ twice.recheck = FALSE /\ twice.queued = FALSE /\ twice.origin = "none"
      /\ twice.identity = applied.identity /\ twice.failCount = applied.failCount
  BY <1>3, DisputeSlots DEF IsSlots
<1>. HIDE DEF twice
<1>5. /\ IsSlots(e.memory) /\ e.memory.conclusion = applied.conclusion
      /\ e.memory.recheck = FALSE /\ e.memory.queued = FALSE /\ e.memory.origin = "none"
      /\ e.memory.identity = applied.identity /\ e.memory.failCount = applied.failCount
  BY <1>2, <1>3, <1>4
<1>. QED  BY <1>1, <1>2, <1>5 DEF e

\* A query that was answered: a conclusion that stays and has been disputed twice goes to a
\* human, or was not the one the recheck was ordered for (QueryAnswered).
LEMMA AnswerSettles ==
    ASSUME NEW r, NEW row, NEW askedAfter, NEW events, IsRow(row), ~Locked(row),
           Settled(row, TRUE, events)
    PROVE  LET h == QueryAnswered(r, row, row)
           IN  /\ Settled(h, askedAfter,
                          IF h.slots.conclusion = row.slots.conclusion THEN events ELSE {})
               /\ \A c \in h.cmds : c.type = "handoff"
<1>. DEFINE missing == r.status = "not_found"
            e == IF missing THEN _backend_lookup_escalation(row.slots, "not_found", r.identity)
                 ELSE [count |-> 0, handoff |-> FALSE]
            recheck == resolve_backend_recheck(row.slots, r)
            new == [recheck.memory EXCEPT
                        !.nfCount = e.count,
                        !.nfValue = IF missing THEN r.identity ELSE "none",
                        !.failCount = IF missing THEN @ ELSE 0,
                        !.handoffReq = IF missing THEN @ \/ e.handoff ELSE FALSE,
                        !.fresh = FALSE]
            set == {"nfCount", "nfValue", "fresh"}
                   \cup (IF missing THEN {} ELSE {"failCount", "handoffReq"})
                   \cup (IF _is_authoritative_result(r) THEN {"dCount"} ELSE {})
                   \cup (IF row.slots.resolvedAt # 0 THEN {"confirmed"} ELSE {})
            slots == Merged(row.slots, new, set)
            commands == (IF e.handoff THEN {HandoffFor("not_found", slots)} ELSE {})
                        \cup (IF recheck.should_handoff THEN {HandoffFor("recheck", slots)}
                              ELSE {})
            h == QueryAnswered(r, row, row)
            left == IF h.slots.conclusion = row.slots.conclusion THEN events ELSE {}
<1>1. h = Escalated(e.handoff \/ recheck.should_handoff, "AI_ACTIVE", "none", "completed", slots,
                    commands)
  BY DEF QueryAnswered
<1>2. IsSlots(row.slots)
  BY DEF IsRow
<1>3. /\ IsSlots(recheck.memory)
      /\ recheck.memory.conclusion = row.slots.conclusion \/ recheck.memory.conclusion # "none"
      /\ recheck.memory.recheck = FALSE /\ recheck.memory.queued = FALSE
      /\ recheck.memory.origin = "none" /\ recheck.memory.identity = row.slots.identity
      /\ recheck.memory.failCount = row.slots.failCount
      /\ ~recheck.should_handoff /\ row.slots.recheck /\ row.slots.queued =>
            \/ row.slots.origin = "none"
            \/ row.slots.origin # recheck.memory.conclusion
  BY <1>2, RecheckResolved
<1>. HIDE DEF recheck, e
<1>4. /\ DOMAIN new = SlotNames /\ new.conclusion = recheck.memory.conclusion
      /\ new.recheck = FALSE /\ new.queued = FALSE /\ new.origin = "none"
      /\ new.identity = row.slots.identity
      /\ new.failCount \in {row.slots.failCount, 0}
  BY <1>3, DisputeSlots DEF IsSlots
<1>5. {"conclusion", "recheck", "queued", "origin", "identity"} \cap set = {}
  OBVIOUS
<1>. HIDE DEF new, set
<1>6. /\ slots.conclusion = recheck.memory.conclusion
      /\ slots.recheck = row.slots.recheck /\ slots.queued = row.slots.queued
      /\ slots.origin = row.slots.origin /\ slots.identity = row.slots.identity
      /\ slots.failCount \in {row.slots.failCount, 0}
  <2>1. /\ NoSlots.conclusion = "none" /\ NoSlots.recheck = FALSE /\ NoSlots.queued = FALSE
        /\ NoSlots.origin = "none" /\ NoSlots.identity = "none"
    BY DEF NoSlots
  <2>2. DOMAIN row.slots = SlotNames
    BY <1>2 DEF IsSlots
  <2>3. \A k \in SlotNames :
           slots[k] = IF new[k] = NoSlots[k] /\ k \notin set THEN row.slots[k] ELSE new[k]
    BY <2>2 DEF Merged
  <2>. HIDE DEF slots
  <2>4. slots.recheck = row.slots.recheck /\ slots.queued = row.slots.queued
    BY <1>4, <1>5, <2>1, <2>3, DisputeSlots
  <2>5. slots.origin = row.slots.origin /\ slots.identity = row.slots.identity
    BY <1>4, <1>5, <2>1, <2>3, DisputeSlots
  <2>6. slots.conclusion = recheck.memory.conclusion
    BY <1>3, <1>4, <1>5, <2>1, <2>3, DisputeSlots
  <2>7. slots.failCount \in {row.slots.failCount, 0}
    BY <1>4, <2>3, DisputeSlots
  <2>. QED  BY <2>4, <2>5, <2>6, <2>7
<1>. HIDE DEF slots
<1>7. \A c \in commands : c.type = "handoff"
  BY HandoffType
<1>. HIDE DEF commands, h
<1>8. /\ h.slots = slots /\ h.cmds = commands
      /\ ~Locked(h) => h.stage = "completed" /\ ~recheck.should_handoff
  BY <1>1 DEF Escalated, Locked
<1>9. ASSUME ~Locked(h)
      PROVE  /\ slots.failCount \in Nat /\ slots.identity # "none"
             /\ left # {} => slots.recheck /\ slots.conclusion # "none"
             /\ Cardinality(left) >= 2 =>
                   slots.queued /\ slots.origin # slots.conclusion
  <2>1. /\ row.slots.failCount \in Nat /\ row.slots.identity # "none"
        /\ events # {} => row.slots.recheck /\ row.slots.conclusion # "none"
        /\ Cardinality(events) >= 2 => row.slots.queued
    BY DEF Settled, Orderly
  <2>2. slots.failCount \in Nat /\ slots.identity # "none"
    BY <1>6, <2>1
  <2>3. CASE left = {}
    BY <2>2, <2>3, FewEvents
  <2>4. CASE left # {}
    <3>1. left = events /\ slots.conclusion = row.slots.conclusion
      BY <1>8, <2>4
    <3>. HIDE DEF left
    <3>2. slots.recheck /\ slots.conclusion # "none" /\ row.slots.recheck
      BY <1>6, <2>1, <2>4, <3>1
    <3>3. Cardinality(left) >= 2 => slots.queued /\ row.slots.queued
      BY <1>6, <2>1, <3>1
    <3>4. row.slots.queued => slots.origin # slots.conclusion
      BY <1>3, <1>6, <1>8, <1>9, <3>2
    <3>. QED  BY <2>2, <3>2, <3>3, <3>4
  <2>. QED  BY <2>3, <2>4
<1>10. Settled(h, askedAfter, left)
  <2>. HIDE DEF left
  <2>. QED  BY <1>8, <1>9 DEF Settled, Orderly, Awaits, AwaitingStages
<1>. QED  BY <1>7, <1>8, <1>10 DEF h

-----------------------------------------------------------------------------
(* Disputes reach a human *)

\* A command or a result of a case of money.  A message for a case is only known to be one
\* in a thread that was never written from an older read.
CommandOfCase(c) ==
    /\ c.type = "card" => c.intent \in MoneySops
    /\ c.type = "append" /\ c.thread \notin stale => c.intent \in MoneySops

ResultOfCase(r) ==
    /\ r.type \in {"created", "staff"} => r.intent \in MoneySops
    /\ r.type = "appended" /\ r.thread \notin stale => r.intent \in MoneySops

\* Cases of money are what is sent, answered by Telegram and replied to by staff.
CasesOfMoney ==
    /\ \A k \in cards : k.intent \in MoneySops
    /\ \A c \in cmds : CommandOfCase(c)
    /\ \A r \in results : ResultOfCase(r)
    /\ \A x \in reads : ResultOfCase(x.result)

\* The consumer knows when it works on an old row.
ReadsKnown == \A x \in reads : ~x.old => x.snap = conv[x.result.thread]

\* The row of every thread that was never written from an older read fits what is on the
\* way and what was disputed.
DisputesSettled ==
    \A t \in Threads \ stale : Settled(conv[t], Outstanding(t), disputed[t])

DisputeInv ==
    /\ DOMAIN disputed = Threads
    /\ CasesOfMoney /\ ReadsKnown /\ DisputesSettled

\* Initially.
LEMMA InitDisputes == Init => DisputeInv
<1>. SUFFICES ASSUME Init PROVE DisputeInv
  OBVIOUS
<1>. USE DEF Init
<1>1. /\ Fresh.stage = "none" /\ Fresh.slots.failCount = 0 /\ Fresh.slots.conclusion = "none"
  BY DEF Fresh, NoSlots
<1>2. \A t : ~Outstanding(t)
  BY DEF Outstanding
<1>3. ASSUME NEW t \in Threads PROVE Settled(conv[t], Outstanding(t), disputed[t])
  <2>1. conv[t] = Fresh /\ disputed[t] = {} /\ ~Outstanding(t)
    BY <1>2
  <2>. QED  BY <1>1, <2>1, FewEvents DEF Settled, Orderly, Awaits, AwaitingStages
<1>4. DisputesSettled
  BY <1>3 DEF DisputesSettled
<1>. QED  BY <1>4 DEF DisputeInv, CasesOfMoney, ReadsKnown

\* Rows stay, and nothing that is on the way for one that is not a human's comes or goes.
LEMMA SettledStays ==
    ASSUME DisputeInv, UNCHANGED <<conv, disputed, stale>>,
           \A t \in Threads : ~Locked(conv[t]) => (Outstanding(t)' <=> Outstanding(t))
    PROVE  DOMAIN disputed' = Threads /\ DisputesSettled'
<1>1. ASSUME NEW t \in Threads \ stale
      PROVE  Settled(conv[t], Outstanding(t)', disputed[t])
  <2>1. Settled(conv[t], Outstanding(t), disputed[t])
    BY DEF DisputeInv, DisputesSettled
  <2>. QED  BY <2>1 DEF Settled, Orderly
<1>. QED  BY <1>1 DEF DisputeInv, DisputesSettled

\* Messages, reads and drops of the gateway (Send, Receive, TurnFails, SkipTurn).
LEMMA GatewayDisputes ==
    ASSUME DisputeInv, UNCHANGED <<conv, cmds, results, reads, cards, disputed, stale>>
    PROVE  DisputeInv'
<1>1. \A t : Outstanding(t)' <=> Outstanding(t)
  BY DEF Outstanding
<1>2. DOMAIN disputed' = Threads /\ DisputesSettled'
  BY <1>1, SettledStays
<1>3. CasesOfMoney' /\ ReadsKnown'
  BY DEF DisputeInv, CasesOfMoney, CommandOfCase, ResultOfCase, ReadsKnown
<1>. QED  BY <1>2, <1>3 DEF DisputeInv

\* A card stays about the case it was about (CardAt, CaseClosed).
LEMMA CardsSame ==
    ASSUME NEW c, NEW from, NEW to, NEW ev, \A k \in cards : IsCard(k)
    PROVE  /\ \A k \in CardAt(c, from, to) : \E j \in cards : k.intent = j.intent
           /\ \A k \in CaseClosed(ev) : IsCard(k) /\ \E j \in cards : k.intent = j.intent
<1>. DEFINE Went(k) == IF k.thread = c.thread /\ k.ev = c.ev /\ k.at \in from
                        THEN [k EXCEPT !.at = to] ELSE k
            Closed(k) == IF k.ev = ev /\ k.at # "queued" THEN [k EXCEPT !.at = "closed"] ELSE k
<1>1. CardAt(c, from, to) = {Went(k) : k \in cards} /\ CaseClosed(ev) = {Closed(k) : k \in cards}
  BY DEF CardAt, CaseClosed
<1>2. \A k \in cards : Went(k).intent = k.intent
  BY DEF IsCard, CardFields
<1>3. \A k \in cards : Closed(k).intent = k.intent /\ IsCard(Closed(k))
  BY DEF IsCard, IsAbout, CardFields
<1>. HIDE DEF Went, Closed
<1>. QED  BY <1>1, <1>2, <1>3

\* What the results of a command are about: only queries are answered, and only cards and
\* messages for a case are acknowledged as such.
AboutCommand(c, new) ==
    /\ \A r \in new :
          /\ r.thread = c.thread
          /\ r.type = "answered" => c.type = "query"
          /\ r.type = "created" => c.type = "card" /\ r.intent = c.intent
          /\ r.type = "appended" => c.type = "append" /\ r.intent = c.intent
          /\ r.type # "staff"
    /\ c.type = "query" => \E r \in new : r.type = "answered"

\* (Executed and the actions that use it)
LEMMA ExecuteAbout ==
    ASSUME Shape, Execute
    PROVE  \E c \in cmds : \E new :
              /\ AboutCommand(c, new) /\ cmds' = cmds \ {c} /\ results' = results \cup new
              /\ \A k \in cards' : \E j \in cards : k.intent = j.intent
              /\ UNCHANGED <<conv, reads, disputed, stale>>
<1>1. PICK c \in cmds :
        \/ ExecuteCard(c) \/ CardFails(c) \/ ExecuteAppend(c) \/ ExecuteReminder(c)
        \/ ExecuteHandoff(c)
        \/ \E a \in Answers : ExecuteQuery(c, a)
        \/ \E f \in Found : ExecuteLookup(c, f)
  BY DEF Execute
<1>2. cards' = cards \/ cards' = CardAt(c, {"queued"}, "posted") \/ cards' = CardsRemind(c)
  BY <1>1 DEF ExecuteCard, CardFails, ExecuteAppend, ExecuteReminder, ExecuteHandoff,
              ExecuteQuery, ExecuteLookup, Executed, CardsRemind
<1>3. \A k \in cards' : \E j \in cards : k.intent = j.intent
  <2>1. IsAbout(c) /\ \A k \in cards : IsCard(k)
    BY DEF Shape
  <2>2. \A k \in CardsRemind(c) : \E j \in cards : k.intent = j.intent
    BY <2>1, CardsReminded
  <2>3. \A k \in CardAt(c, {"queued"}, "posted") : \E j \in cards : k.intent = j.intent
    BY <2>1, CardsSame
  <2>. QED  BY <1>2, <2>2, <2>3
<1>4. cmds' = cmds \ {c} /\ UNCHANGED <<conv, reads, disputed, stale>>
  BY <1>1 DEF ExecuteCard, CardFails, ExecuteAppend, ExecuteReminder, ExecuteHandoff,
              ExecuteQuery, ExecuteLookup, Executed
<1>5. CASE CardFails(c) \/ ExecuteHandoff(c) \/ ExecuteReminder(c)
  <2>1. AboutCommand(c, {}) /\ results' = results \cup {}
    BY <1>5 DEF CardFails, ExecuteHandoff, ExecuteReminder, Executed, AboutCommand
  <2>. QED  BY <1>3, <1>4, <2>1
<1>6. CASE \/ ExecuteCard(c) \/ ExecuteAppend(c) \/ \E a \in Answers : ExecuteQuery(c, a)
           \/ \E f \in Found : ExecuteLookup(c, f)
  <2>1. PICK type, status, fingerprint :
           /\ results' = results \cup {Result(c, type, status, fingerprint)}
           /\ \/ c.type = "card" /\ type = "created"
              \/ c.type = "append" /\ type = "appended"
              \/ c.type = "query" /\ type = "answered"
              \/ c.type = "lookup" /\ type = "looked_up"
    BY <1>6 DEF ExecuteCard, ExecuteAppend, ExecuteQuery, ExecuteLookup, Executed
  <2>. DEFINE r == Result(c, type, status, fingerprint)
  <2>2. r.thread = c.thread /\ r.type = type /\ r.intent = c.intent
    BY DEF Result
  <2>. HIDE DEF r
  <2>3. AboutCommand(c, {r})
    BY <2>1, <2>2 DEF AboutCommand
  <2>4. results' = results \cup {r}
    BY <2>1 DEF r
  <2>. QED  BY <1>3, <1>4, <2>3, <2>4
<1>. QED  BY <1>1, <1>5, <1>6

\* The worker (Execute).
LEMMA ExecuteDisputes ==
    ASSUME Inv, DisputeInv, Execute
    PROVE  DisputeInv'
<1>1. Shape
  BY DEF Inv
<1>2. PICK c \in cmds : \E new_1 :
              /\ AboutCommand(c, new_1) /\ cmds' = cmds \ {c} /\ results' = results \cup new_1
              /\ \A k \in cards' : \E j \in cards : k.intent = j.intent
              /\ UNCHANGED <<conv, reads, disputed, stale>>
  BY <1>1, ExecuteAbout
<1>3. PICK new :
              /\ AboutCommand(c, new) /\ cmds' = cmds \ {c} /\ results' = results \cup new
              /\ \A k \in cards' : \E j \in cards : k.intent = j.intent
              /\ UNCHANGED <<conv, reads, disputed, stale>>
  BY <1>2
<1>4. \A t : Outstanding(t)' <=> Outstanding(t)
  <2>1. /\ \A r \in new : r.thread = c.thread /\ (r.type = "answered" => c.type = "query")
        /\ c.type = "query" => \E r \in new : r.type = "answered"
    BY <1>3 DEF AboutCommand
  <2>2. ASSUME NEW t, Outstanding(t) PROVE Outstanding(t)'
    BY <1>3, <2>1, <2>2 DEF Outstanding
  <2>3. ASSUME NEW t, Outstanding(t)' PROVE Outstanding(t)
    BY <1>3, <2>1, <2>3 DEF Outstanding
  <2>. QED  BY <2>2, <2>3
<1>5. DOMAIN disputed' = Threads /\ DisputesSettled'
  BY <1>3, <1>4, SettledStays
<1>6. CasesOfMoney' /\ ReadsKnown'
  <2>1. CasesOfMoney /\ ReadsKnown
    BY DEF DisputeInv
  <2>2. \A r \in results' : ResultOfCase(r)'
    BY <1>3, <2>1 DEF CasesOfMoney, CommandOfCase, ResultOfCase, AboutCommand
  <2>. QED  BY <1>3, <2>1, <2>2 DEF CasesOfMoney, CommandOfCase, ResultOfCase, ReadsKnown
<1>. QED  BY <1>5, <1>6 DEF DisputeInv

\* A result that is read, given back or dropped, and a staff reply (ReadResult, StaffReply,
\* ResultFails, CommitResult).
LEMMA ReadDisputes ==
    ASSUME Inv, DisputeInv,
           \/ \E r \in results : ReadResult(r)
           \/ \E x \in reads : ResultFails(x)
           \/ \E x \in reads : CommitResult(x) /\ Locked(conv[x.result.thread])
           \/ \E k \in cards, w \in StaffSays : StaffReply(k, w)
    PROVE  DisputeInv'
<1>1. Shape /\ OnlyOfWritten /\ CasesOfMoney /\ ReadsKnown
  BY DEF Inv, DisputeInv
<1>2. UNCHANGED <<conv, cmds, cards, disputed, stale>>
  BY DEF ReadResult, ResultFails, CommitResult, StaffReply
<1>3. \A t \in Threads : ~conv[t].slots.fresh =>
         get_or_create(t) = conv[t] /\ (Locked(get_or_create(t)) => Locked(conv[t]))
  BY <1>1, RowSeen
<1>4. CASE \E r \in results : ReadResult(r)
  <2>1. PICK r \in results : ReadResult(r)
    BY <1>4
  <2>. DEFINE x == [result |-> r, snap |-> get_or_create(r.thread), old |-> FALSE]
  <2>2. r.thread \in Threads /\ get_or_create(r.thread) = conv[r.thread]
    BY <1>1, <1>3 DEF Shape, IsResult, IsAbout, OnlyOfWritten
  <2>3. /\ results' = results \ {r}
        /\ \/ Locked(conv[r.thread]) /\ reads' = reads
           \/ reads' = reads \cup {x}
    BY <2>1, <2>2 DEF ReadResult
  <2>4. x.result = r /\ x.snap = conv[r.thread]
    BY <2>2
  <2>. HIDE DEF x
  <2>5. ASSUME NEW t \in Threads, ~Locked(conv[t]) PROVE Outstanding(t)' <=> Outstanding(t)
    <3>1. CASE r.thread = t
      <4>1. reads' = reads \cup {x}
        BY <2>3, <2>5, <3>1
      <4>2. results' \cup {y.result : y \in reads'} = results \cup {y.result : y \in reads}
        BY <2>3, <2>4, <4>1
      <4>. QED  BY <1>2, <4>2 DEF Outstanding
    <3>2. CASE r.thread # t
      BY <1>2, <2>3, <2>4, <3>2 DEF Outstanding
    <3>. QED  BY <3>1, <3>2
  <2>6. DOMAIN disputed' = Threads /\ DisputesSettled'
    BY <1>2, <2>5, SettledStays
  <2>7. CasesOfMoney' /\ ReadsKnown'
    BY <1>1, <1>2, <2>3, <2>4 DEF CasesOfMoney, CommandOfCase, ResultOfCase, ReadsKnown
  <2>. QED  BY <2>6, <2>7 DEF DisputeInv
<1>5. CASE \E x \in reads : ResultFails(x)
  <2>1. PICK x \in reads : ResultFails(x)
    BY <1>5
  <2>2. reads' = reads \ {x} /\ results' = results \cup {x.result}
    BY <2>1 DEF ResultFails
  <2>3. \A t : Outstanding(t)' <=> Outstanding(t)
    <3>1. results' \cup {y.result : y \in reads'} = results \cup {y.result : y \in reads}
      BY <2>2
    <3>. QED  BY <1>2, <3>1 DEF Outstanding
  <2>4. DOMAIN disputed' = Threads /\ DisputesSettled'
    BY <1>2, <2>3, SettledStays
  <2>5. CasesOfMoney' /\ ReadsKnown'
    BY <1>1, <1>2, <2>2 DEF CasesOfMoney, CommandOfCase, ResultOfCase, ReadsKnown
  <2>. QED  BY <2>4, <2>5 DEF DisputeInv
<1>6. CASE \E x \in reads : CommitResult(x) /\ Locked(conv[x.result.thread])
  <2>1. PICK x \in reads : CommitResult(x) /\ Locked(conv[x.result.thread])
    BY <1>6
  <2>2. reads' = reads \ {x} /\ results' = results
    BY <2>1 DEF CommitResult
  <2>3. \A t \in Threads : ~Locked(conv[t]) => (Outstanding(t)' <=> Outstanding(t))
    BY <1>2, <2>1, <2>2 DEF Outstanding
  <2>4. DOMAIN disputed' = Threads /\ DisputesSettled'
    BY <1>2, <2>3, SettledStays
  <2>5. CasesOfMoney' /\ ReadsKnown'
    BY <1>1, <1>2, <2>2 DEF CasesOfMoney, CommandOfCase, ResultOfCase, ReadsKnown
  <2>. QED  BY <2>4, <2>5 DEF DisputeInv
<1>7. CASE \E k \in cards, w \in StaffSays : StaffReply(k, w)
  <2>1. PICK k \in cards, w \in StaffSays : StaffReply(k, w)
    BY <1>7
  <2>. DEFINE r == [type |-> "staff", thread |-> k.current, ev |-> k.ev, intent |-> k.intent,
                    identity |-> "none", status |-> w, fingerprint |-> "none"]
              x == [result |-> r, snap |-> get_or_create(k.current), old |-> FALSE]
  <2>2. get_or_create(k.current) = conv[k.current]
    BY <1>1, <1>3 DEF Shape, IsCard, IsAbout, OnlyOfWritten
  <2>3. results' = results /\ reads' = reads \cup {x}
    BY <2>1 DEF StaffReply
  <2>4. /\ x.result = r /\ x.snap = conv[k.current]
        /\ r.type = "staff" /\ r.thread = k.current /\ r.intent = k.intent
    BY <2>2
  <2>. HIDE DEF r, x
  <2>5. \A t : Outstanding(t)' <=> Outstanding(t)
    BY <1>2, <2>3, <2>4 DEF Outstanding
  <2>6. DOMAIN disputed' = Threads /\ DisputesSettled'
    BY <1>2, <2>5, SettledStays
  <2>7. CasesOfMoney' /\ ReadsKnown'
    BY <1>1, <1>2, <2>3, <2>4 DEF CasesOfMoney, CommandOfCase, ResultOfCase, ReadsKnown
  <2>. QED  BY <2>6, <2>7 DEF DisputeInv
<1>. QED  BY <1>4, <1>5, <1>6, <1>7

\* The rows of commands inserted for an event of a thread (Inserted).
LEMMA InsertedSays ==
    ASSUME NEW t, NEW ev, NEW commands
    PROVE  /\ \A c \in Inserted(t, ev, commands) :
                 c.thread = t /\ \E b \in commands : c.type = b.type /\ c.intent = b.intent
           /\ \A b \in commands :
                 b.type # "remind" => \E c \in Inserted(t, ev, commands) : c.type = b.type
<1>. DEFINE Row(c) == [type |-> c.type, intent |-> c.intent, identity |-> c.identity,
                       shot |-> c.shot, case |-> c.case, thread |-> t, ev |-> ev]
            New == {c \in commands : c.type = "remind" =>
                       \A k \in cards : k.ev = c.case => t \notin k.reminded}
<1>1. Inserted(t, ev, commands) = {Row(c) : c \in New}
  BY DEF Inserted
<1>2. \A c : Row(c).thread = t /\ Row(c).type = c.type /\ Row(c).intent = c.intent
  OBVIOUS
<1>3. New \subseteq commands /\ \A c \in commands : c.type # "remind" => c \in New
  OBVIOUS
<1>. HIDE DEF Row, New
<1>. QED  BY <1>1, <1>2, <1>3

\* A commit of the gateway (CommitTurn, DisputedAfter).
LEMMA TurnDisputes ==
    ASSUME Inv, DisputeInv, NEW d, NEW plan, NEW fails, NEW eligible,
           CommitTurn(d, plan, fails, eligible)
    PROVE  DisputeInv'
<1>. PICK e : e = turn[1]
  OBVIOUS
<1>. PICK t : t = e.thread
  OBVIOUS
<1>. DEFINE g == process_event(e.m, e.ev, e.snap, eligible, d, plan, fails)
            row == update_workflow_state(conv[t], g)
            new == Inserted(t, e.ev, g.cmds)
            kept == IF "accepts" \in e.m.says THEN {} ELSE disputed[t]
            after == IF DisputesAlone(e.m, e.snap) THEN kept \cup {e.ev}
                     ELSE IF ~row.slots.recheck /\ row.slots.dCount = 0 THEN {} ELSE kept
<1>1. Shape /\ AgedKnown /\ CasesOfMoney /\ ReadsKnown /\ DOMAIN disputed = Threads
      /\ DisputesSettled
  BY DEF Inv, DisputeInv
<1>2. turn # <<>> /\ ~Locked(e.snap) /\ ~Locked(conv[t])
  BY DEF CommitTurn
<1>3. t \in Threads /\ IsRow(e.snap) /\ DOMAIN conv = Threads
      /\ \A k \in eligible : k.intent \in MoneySops
  BY <1>1, <1>2 DEF Shape, IsWork, IsAbout, CommitTurn
<1>4. /\ conv' = [conv EXCEPT ![t] = row] /\ cmds' = cmds \cup new /\ results' = results
      /\ reads' = AgedReads(t, reads) /\ cards' = Reminding(t, new) \cup NewCards(new)
      /\ stale' = (IF e.old \/ e.inherited THEN stale \cup {t} ELSE stale)
  BY DEF CommitTurn
<1>5. disputed' = [disputed EXCEPT ![t] = after]
  BY DEF CommitTurn, DisputedAfter
<1>6. /\ row.status = IF g.status = "none" THEN conv[t].status ELSE g.status
      /\ row.stage = g.stage /\ row.slots = g.slots /\ row.active = g.active
  BY DEF update_workflow_state
<1>7. /\ \A c \in new : c.thread = t /\ \E b \in g.cmds : c.type = b.type /\ c.intent = b.intent
      /\ \A b \in g.cmds : b.type # "remind" => \E c \in new : c.type = b.type
  <2>. HIDE DEF g
  <2>. QED  BY InsertedSays
<1>8. \A k \in NewCards(new) : \E c \in new : /\ c.type = "card" /\ k.thread = c.thread
                                              /\ k.intent = c.intent
  BY DEF NewCards
<1>9. /\ \A y \in AgedReads(t, reads) : \E x \in reads :
             /\ y.result = x.result
             /\ ~y.old => y = x /\ x.result.thread # t
      /\ \A x \in reads : \E y \in AgedReads(t, reads) : y.result = x.result
  <2>. DEFINE Aged(x) == IF x.result.thread = t THEN [x EXCEPT !.old = TRUE] ELSE x
  <2>1. AgedReads(t, reads) = {Aged(x) : x \in reads}
    BY DEF AgedReads
  <2>2. \A x \in reads : /\ Aged(x).result = x.result
                         /\ ~Aged(x).old => Aged(x) = x /\ x.result.thread # t
    BY <1>1 DEF Shape, IsRead, ReadFields
  <2>. HIDE DEF Aged
  <2>. QED  BY <2>1, <2>2
<1>10. \A c \in g.cmds : c.type = "card" => c.intent \in MoneySops
  <2>1. Sound(g, e.snap)
    BY <1>2, <1>3, TurnSound
  <2>. HIDE DEF g
  <2>. QED  BY <2>1 DEF Sound
<1>11. /\ t \notin stale' => e.snap = conv[t] /\ t \notin stale
       /\ stale \subseteq stale' /\ stale' \subseteq stale \cup {t}
  BY <1>1, <1>2, <1>4 DEF AgedKnown
<1>12. ASSUME t \notin stale'
       PROVE  /\ Decided(g, conv[t]) /\ Treats(e.m, conv[t], g)
              /\ Settled(conv[t], Outstanding(t), disputed[t])
  <2>1. Settled(conv[t], Outstanding(t), disputed[t])
    BY <1>1, <1>3, <1>11, <1>12 DEF DisputesSettled
  <2>2. Ready(conv[t])
    BY <1>2, <2>1 DEF Settled, Orderly, Ready
  <2>3. e.snap = conv[t]
    BY <1>11, <1>12
  <2>4. Decided(process_event(e.m, e.ev, conv[t], eligible, d, plan, fails), conv[t])
        /\ Treats(e.m, conv[t], process_event(e.m, e.ev, conv[t], eligible, d, plan, fails))
    BY <1>2, <1>3, <2>2, <2>3, TurnDecided
  <2>. QED  BY <2>1, <2>3, <2>4
<1>. HIDE DEF g, row, new, after
<1>13. /\ conv'[t] = row /\ disputed'[t] = after /\ DOMAIN disputed' = Threads
       /\ \A p \in Threads : p # t => conv'[p] = conv[p] /\ disputed'[p] = disputed[p]
  BY <1>1, <1>3, <1>4, <1>5
<1>14. /\ \A p : p # t => (Outstanding(p)' <=> Outstanding(p))
       /\ Outstanding(t)' <=> Outstanding(t) \/ \E c \in g.cmds : c.type = "query"
  <2>1. \A p : (\E r \in results' \cup {y.result : y \in reads'} :
                     r.type = "answered" /\ r.thread = p)
               <=> (\E r \in results \cup {y.result : y \in reads} :
                     r.type = "answered" /\ r.thread = p)
    BY <1>4, <1>9
  <2>2. \A p : (\E c \in cmds' : c.type = "query" /\ c.thread = p)
               <=> \/ \E c \in cmds : c.type = "query" /\ c.thread = p
                   \/ p = t /\ \E c \in g.cmds : c.type = "query"
    BY <1>4, <1>7
  <2>. QED  BY <2>1, <2>2 DEF Outstanding
<1>15. ASSUME NEW p \in Threads \ stale' PROVE Settled(conv[p], Outstanding(p), disputed[p])'
  <2>1. CASE p # t
    <3>1. Settled(conv[p], Outstanding(p), disputed[p])
      BY <1>1, <1>11 DEF DisputesSettled
    <3>. QED  BY <1>13, <1>14, <2>1, <3>1 DEF Settled, Orderly
  <2>2. CASE p = t
    <3>1. /\ Decided(g, conv[t]) /\ Treats(e.m, conv[t], g)
          /\ Settled(conv[t], Outstanding(t), disputed[t]) /\ e.snap = conv[t]
      BY <1>11, <1>12, <1>15, <2>2
    <3>2. after = EventsLeft(e.m, e.ev, conv[t], g.slots, disputed[t])
      BY <1>6, <3>1 DEF after, EventsLeft
    <3>3. PICK asked \in BOOLEAN : asked <=> Outstanding(t)
      OBVIOUS
    <3>4. PICK askedAfter \in BOOLEAN : askedAfter <=> Outstanding(t)'
      OBVIOUS
    <3>5. Settled(conv[t], asked, disputed[t])
      BY <3>1, <3>3 DEF Settled, Orderly
    <3>6. askedAfter <=> asked \/ \E c \in g.cmds : c.type = "query"
      BY <1>14, <3>3, <3>4
    <3>7. ASSUME ~Locked(row) PROVE Orderly(g, askedAfter, after)
      <4>1. g.status # "HANDOFF_REQUESTED"
        BY <1>6, <3>7 DEF Locked
      <4>2. ~Locked(conv[t]) /\ Decided(g, conv[t]) /\ Treats(e.m, conv[t], g)
        BY <1>2, <3>1
      <4>3. Orderly(g, askedAfter, EventsLeft(e.m, e.ev, conv[t], g.slots, disputed[t]))
        BY <3>5, <3>6, <4>1, <4>2, TurnSettles
      <4>. QED  BY <3>2, <4>3
    <3>8. Settled(row, Outstanding(t)', after)
      BY <1>6, <3>4, <3>7 DEF Settled, Orderly, Awaits
    <3>. QED  BY <1>13, <2>2, <3>8 DEF Settled, Orderly
  <2>. QED  BY <2>1, <2>2
<1>16. CasesOfMoney'
  <2>1. ASSUME t \notin stale'
        PROVE  \A c \in new : c.type = "append" => c.intent \in MoneySops
    BY <1>7, <1>12, <2>1 DEF Decided
  <2>2. \A c \in new : c.type = "card" => c.intent \in MoneySops
    BY <1>7, <1>10
  <2>4. \A c \in cmds' : CommandOfCase(c)'
    BY <1>1, <1>4, <1>7, <1>11, <2>1, <2>2 DEF CasesOfMoney, CommandOfCase
  <2>5. \A k \in cards' : k.intent \in MoneySops
    <3>1. \A k \in Reminding(t, new) : \E j \in cards : k.intent = j.intent
      <4>1. \A k \in cards : IsCard(k)
        BY <1>1 DEF Shape
      <4>. QED  BY <4>1, RemindersOnly
    <3>. QED  BY <1>1, <1>4, <1>8, <2>2, <3>1 DEF CasesOfMoney
  <2>6. /\ \A r \in results' : ResultOfCase(r)'
        /\ \A x \in reads' : ResultOfCase(x.result)'
    BY <1>1, <1>4, <1>9, <1>11 DEF CasesOfMoney, CommandOfCase, ResultOfCase
  <2>. QED  BY <2>4, <2>5, <2>6 DEF CasesOfMoney
<1>17. ReadsKnown'
  <2>1. ASSUME NEW y \in reads', ~y.old PROVE y.snap = conv'[y.result.thread]
    <3>1. PICK x \in reads : y = x /\ x.result.thread # t
      BY <1>4, <1>9, <2>1
    <3>2. x.result.thread \in Threads
      BY <1>1 DEF Shape, IsRead, IsResult, IsAbout
    <3>. QED  BY <1>1, <1>13, <2>1, <3>1, <3>2 DEF ReadsKnown
  <2>. QED  BY <2>1 DEF ReadsKnown
<1>. QED  BY <1>13, <1>15, <1>16, <1>17 DEF DisputeInv, DisputesSettled

\* A commit of the consumer (CommitResult, Written).
LEMMA ResultDisputes ==
    ASSUME Inv, DisputeInv, NEW x \in reads, CommitResult(x), ~Locked(conv[x.result.thread])
    PROVE  DisputeInv'
<1>. DEFINE r == x.result
            t == r.thread
            h == build_result_handler(r, x.snap, get_or_create(t))
            row == [status |-> h.status, active |-> h.active, stage |-> h.stage,
                    slots |-> h.slots]
            new == Inserted(t, r.ev, h.cmds)
            left == IF row.slots.conclusion = conv[t].slots.conclusion THEN disputed[t] ELSE {}
<1>1. Shape /\ OnlyOfWritten /\ CasesOfMoney /\ ReadsKnown /\ DOMAIN disputed = Threads
      /\ DisputesSettled
  BY DEF Inv, DisputeInv
<1>2. t \in Threads /\ r.type \in ResultTypes /\ ~conv[t].slots.fresh /\ IsRow(conv[t])
      /\ DOMAIN conv = Threads /\ IsRow(x.snap)
  BY <1>1 DEF Shape, IsRead, IsResult, IsAbout, OnlyOfWritten
<1>3. get_or_create(t) = conv[t]
  BY <1>1, <1>2, RowSeen
<1>4. /\ conv' = [conv EXCEPT ![t] = row] /\ cmds' = cmds \cup new /\ results' = results
      /\ reads' = AgedReads(t, reads \ {x})
      /\ disputed' = [disputed EXCEPT ![t] = left]
      /\ stale' = (IF x.old THEN stale \cup {t} ELSE stale)
  BY DEF CommitResult, Written
<1>5. \/ cards' = CardAt(r, {"posted"}, "known")
      \/ cards' = {IF k.thread = t /\ k.ev # r.ev /\ k.at = "known"
                   THEN [k EXCEPT !.at = "forgotten"] ELSE k :
                       k \in CaseClosed(r.ev)}
      \/ cards' = cards
  BY DEF CommitResult, Written
<1>6. /\ row.status = h.status /\ row.stage = h.stage /\ row.slots = h.slots
      /\ row.active = h.active
  OBVIOUS
<1>7. \A c \in new : c.thread = t /\ \E b \in h.cmds : c.type = b.type
  BY DEF Inserted
<1>8. /\ t \notin stale' => x.snap = conv[t] /\ t \notin stale
      /\ stale \subseteq stale' /\ stale' \subseteq stale \cup {t}
  BY <1>1, <1>4 DEF ReadsKnown
<1>9. Applied(h, r, conv[t])
  BY <1>2, <1>3, HandlerApplied
<1>10. ASSUME t \notin stale'
       PROVE  /\ Settled(conv[t], Outstanding(t), disputed[t])
              /\ h = build_result_handler(r, conv[t], conv[t])
              /\ r.type \in {"created", "appended", "staff"} => r.intent \in MoneySops
  <2>1. Settled(conv[t], Outstanding(t), disputed[t])
    BY <1>1, <1>2, <1>8, <1>10 DEF DisputesSettled
  <2>2. h = build_result_handler(r, conv[t], conv[t])
    BY <1>3, <1>8, <1>10
  <2>3. ResultOfCase(r) /\ t \notin stale
    BY <1>1, <1>8, <1>10 DEF CasesOfMoney
  <2>. QED  BY <2>1, <2>2, <2>3 DEF ResultOfCase
<1>11. r.type = "answered" => Outstanding(t)
  BY DEF Outstanding
<1>. HIDE DEF h, row, new, left
<1>12. /\ \A y \in AgedReads(t, reads \ {x}) : \E z \in reads \ {x} :
             /\ y.result = z.result
             /\ ~y.old => y = z /\ z.result.thread # t
       /\ \A z \in reads \ {x} : \E y \in AgedReads(t, reads \ {x}) : y.result = z.result
  <2>. DEFINE Aged(z) == IF z.result.thread = t THEN [z EXCEPT !.old = TRUE] ELSE z
  <2>1. AgedReads(t, reads \ {x}) = {Aged(z) : z \in reads \ {x}}
    BY DEF AgedReads
  <2>2. \A z \in reads : /\ Aged(z).result = z.result
                         /\ ~Aged(z).old => Aged(z) = z /\ z.result.thread # t
    BY <1>1 DEF Shape, IsRead, ReadFields
  <2>. HIDE DEF Aged, t
  <2>. QED  BY <2>1, <2>2
<1>13. /\ conv'[t] = row /\ disputed'[t] = left /\ DOMAIN disputed' = Threads
       /\ \A p \in Threads : p # t => conv'[p] = conv[p] /\ disputed'[p] = disputed[p]
  BY <1>1, <1>2, <1>4
<1>14. ASSUME t \notin stale'
       PROVE  /\ \A c \in h.cmds : c.type = "handoff"
              /\ \A asked : (\/ asked <=> Outstanding(t)
                             \/ r.type = "answered") => Settled(h, asked, left)
  <2>1. /\ Settled(conv[t], Outstanding(t), disputed[t])
        /\ h = build_result_handler(r, conv[t], conv[t])
        /\ r.type \in {"created", "appended", "staff"} => r.intent \in MoneySops
    BY <1>10, <1>14
  <2>2. left = IF h.slots.conclusion = conv[t].slots.conclusion THEN disputed[t] ELSE {}
    BY <1>6 DEF left
  <2>3. CASE r.type # "answered"
    <3>1. PICK was \in BOOLEAN : was <=> Outstanding(t)
      OBVIOUS
    <3>2. Settled(conv[t], was, disputed[t])
      BY <2>1, <3>1 DEF Settled, Orderly
    <3>3. /\ Settled(h, was, disputed[t]) /\ h.cmds = {}
          /\ h.slots.conclusion = conv[t].slots.conclusion
      <4>1. /\ r.type \in ResultTypes \ {"answered"} /\ IsRow(conv[t]) /\ ~Locked(conv[t])
            /\ r.type \in {"created", "appended", "staff"} => r.intent \in MoneySops
        BY <1>2, <2>1, <2>3
      <4>2. LET w == build_result_handler(r, conv[t], conv[t])
            IN  /\ Settled(w, was, disputed[t]) /\ w.cmds = {}
                /\ w.slots.conclusion = conv[t].slots.conclusion
        <5>. HIDE DEF r, t
        <5>. PICK now, events : now = conv[t] /\ events = disputed[t]
          OBVIOUS
        <5>1. /\ r.type \in ResultTypes \ {"answered"} /\ IsRow(now) /\ ~Locked(now)
              /\ r.type \in {"created", "appended", "staff"} => r.intent \in MoneySops
              /\ Settled(now, was, events)
          BY <3>2, <4>1
        <5>2. LET w == build_result_handler(r, now, now)
              IN  /\ Settled(w, was, events) /\ w.cmds = {}
                  /\ w.slots.conclusion = now.slots.conclusion
          BY <5>1, OtherResultSettles
        <5>. QED  BY <5>2
      <4>. QED  BY <2>1, <4>2
    <3>4. left = disputed[t]
      BY <2>2, <3>3
    <3>5. ASSUME NEW asked, asked <=> Outstanding(t) PROVE Settled(h, asked, left)
      BY <3>1, <3>3, <3>4, <3>5 DEF Settled, Orderly
    <3>. QED  BY <2>3, <3>3, <3>5
  <2>4. CASE r.type = "answered"
    <3>1. Settled(conv[t], TRUE, disputed[t])
      BY <1>11, <2>1, <2>4 DEF Settled, Orderly
    <3>2. \/ h = QueryFailed(r, conv[t], conv[t])
          \/ h = QueryAnswered(r, conv[t], conv[t])
      BY <2>1, <2>4 DEF build_result_handler
    <3>3. CASE h = QueryFailed(r, conv[t], conv[t])
      <4>1. /\ \A asked : Settled(h, asked, disputed[t])
            /\ h.slots.conclusion = conv[t].slots.conclusion
            /\ \A c \in h.cmds : c.type = "handoff"
        BY <1>2, <3>1, <3>3, FailureSettles
      <4>. QED  BY <2>2, <4>1
    <3>4. CASE h = QueryAnswered(r, conv[t], conv[t])
      <4>1. /\ \A asked : Settled(h, asked, IF h.slots.conclusion = conv[t].slots.conclusion
                                            THEN disputed[t] ELSE {})
            /\ \A c \in h.cmds : c.type = "handoff"
        BY <1>2, <3>1, <3>4, AnswerSettles
      <4>. QED  BY <2>2, <4>1
    <3>. QED  BY <3>2, <3>3, <3>4
  <2>. QED  BY <2>3, <2>4
<1>15. /\ \A p : p # t => (Outstanding(p)' <=> Outstanding(p))
       /\ t \notin stale' /\ r.type # "answered" => (Outstanding(t)' <=> Outstanding(t))
  <2>1. ASSUME NEW p, p # t \/ r.type # "answered"
        PROVE  (\E q \in results' \cup {y.result : y \in reads'} :
                     q.type = "answered" /\ q.thread = p)
               <=> (\E q \in results \cup {y.result : y \in reads} :
                     q.type = "answered" /\ q.thread = p)
    <3>1. \A y \in reads' : \E z \in reads : y.result = z.result
      BY <1>4, <1>12
    <3>2. \A z \in reads : z = x \/ \E y \in reads' : y.result = z.result
      BY <1>4, <1>12
    <3>3. ASSUME NEW q \in results' \cup {y.result : y \in reads'}
          PROVE  q \in results \cup {y.result : y \in reads}
      BY <1>4, <3>1
    <3>4. ASSUME NEW q \in results \cup {y.result : y \in reads}, q.type = "answered",
                 q.thread = p
          PROVE  q \in results' \cup {y.result : y \in reads'}
      <4>1. q # x.result
        BY <2>1, <3>4
      <4>. QED  BY <1>4, <3>2, <4>1
    <3>. QED  BY <3>3, <3>4
  <2>2. \A p : p # t \/ t \notin stale' =>
               ((\E c \in cmds' : c.type = "query" /\ c.thread = p)
                <=> (\E c \in cmds : c.type = "query" /\ c.thread = p))
    BY <1>4, <1>7, <1>14
  <2>. QED  BY <2>1, <2>2 DEF Outstanding
<1>16. ASSUME NEW p \in Threads \ stale' PROVE Settled(conv[p], Outstanding(p), disputed[p])'
  <2>1. CASE p # t
    <3>1. Settled(conv[p], Outstanding(p), disputed[p])
      BY <1>1, <1>8 DEF DisputesSettled
    <3>. QED  BY <1>13, <1>15, <2>1, <3>1 DEF Settled, Orderly
  <2>2. CASE p = t
    <3>1. PICK asked \in BOOLEAN : asked <=> Outstanding(t)'
      OBVIOUS
    <3>2. r.type # "answered" => (asked <=> Outstanding(t))
      BY <1>15, <1>16, <2>2, <3>1
    <3>3. Settled(h, asked, left)
      BY <1>14, <1>16, <2>2, <3>2
    <3>4. Settled(row, Outstanding(t)', left)
      BY <1>6, <3>1, <3>3 DEF Settled, Orderly, Locked, Awaits
    <3>. QED  BY <1>13, <2>2, <3>4 DEF Settled, Orderly
  <2>. QED  BY <2>1, <2>2
<1>17. CasesOfMoney'
  <2>1. \A k \in cards' : \E j \in cards : k.intent = j.intent
    <3>1. \A k \in cards : IsCard(k)
      BY <1>1 DEF Shape
    <3>2. CASE cards' = CardAt(r, {"posted"}, "known") \/ cards' = cards
      BY <3>1, <3>2, CardsSame
    <3>3. CASE cards' = {IF k.thread = t /\ k.ev # r.ev /\ k.at = "known"
                         THEN [k EXCEPT !.at = "forgotten"] ELSE k :
                             k \in CaseClosed(r.ev)}
      <4>. DEFINE closed == CaseClosed(r.ev)
                  Forget(k) == IF k.thread = t /\ k.ev # r.ev /\ k.at = "known"
                               THEN [k EXCEPT !.at = "forgotten"] ELSE k
      <4>1. \A k \in closed : IsCard(k) /\ \E j \in cards : k.intent = j.intent
        BY <3>1, CardsSame
      <4>2. \A k \in closed : Forget(k).intent = k.intent
        BY <4>1 DEF IsCard, CardFields
      <4>3. cards' = {Forget(k) : k \in closed}
        BY <3>3
      <4>. HIDE DEF Forget, closed
      <4>. QED  BY <4>1, <4>2, <4>3
    <3>. QED  BY <1>5, <3>2, <3>3
  <2>2. \A c \in new : c.type = "handoff" \/ t \in stale'
    BY <1>7, <1>14
  <2>3. \A c \in new : CommandOfCase(c)'
    <3>1. \A b \in h.cmds : b.type # "card"
      BY <1>9 DEF Applied
    <3>2. ASSUME NEW c \in new
          PROVE  /\ c.type # "card"
                 /\ c.type = "append" => c.thread \in stale'
      BY <1>7, <2>2, <3>1
    <3>. QED  BY <3>2 DEF CommandOfCase
  <2>4. /\ \A k \in cards' : k.intent \in MoneySops
        /\ \A c \in cmds' : CommandOfCase(c)'
    <3>1. \A c : CommandOfCase(c) => CommandOfCase(c)'
      BY <1>8 DEF CommandOfCase
    <3>. QED  BY <1>1, <1>4, <2>1, <2>3, <3>1 DEF CasesOfMoney
  <2>5. /\ \A q \in results' : ResultOfCase(q)'
        /\ \A y \in reads' : ResultOfCase(y.result)'
    <3>1. \A q : ResultOfCase(q) => ResultOfCase(q)'
      BY <1>8 DEF ResultOfCase
    <3>2. results' = results /\ \A y \in reads' : \E z \in reads : y.result = z.result
      BY <1>4, <1>12
    <3>. QED  BY <1>1, <3>1, <3>2 DEF CasesOfMoney
  <2>. QED  BY <2>4, <2>5 DEF CasesOfMoney
<1>18. ReadsKnown'
  <2>1. ASSUME NEW y \in reads', ~y.old PROVE y.snap = conv'[y.result.thread]
    <3>1. PICK z \in reads : y = z /\ z.result.thread # t
      BY <1>4, <1>12, <2>1
    <3>2. z.result.thread \in Threads
      BY <1>1 DEF Shape, IsRead, IsResult, IsAbout
    <3>. QED  BY <1>1, <1>13, <2>1, <3>1, <3>2 DEF ReadsKnown
  <2>. QED  BY <2>1 DEF ReadsKnown
<1>. QED  BY <1>13, <1>16, <1>17, <1>18 DEF DisputeInv, DisputesSettled

\* Every step keeps it.
LEMMA StepDisputes == Inv /\ DisputeInv /\ [Next]_vars => DisputeInv'
<1>. SUFFICES ASSUME Inv, DisputeInv, [Next]_vars PROVE DisputeInv'
  OBVIOUS
<1>1. CASE \/ \E m \in Messages, t \in Threads : Send(m, t)
           \/ Receive \/ TurnFails \/ SkipTurn \/ UNCHANGED vars
  <2>1. UNCHANGED <<conv, cmds, results, reads, cards, disputed, stale>>
    BY <1>1 DEF Send, Receive, TurnFails, SkipTurn, vars
  <2>. QED  BY <2>1, GatewayDisputes
<1>2. CASE Commits
  BY <1>2, TurnDisputes DEF Commits
<1>3. CASE Execute
  BY <1>3, ExecuteDisputes
<1>4. CASE \/ \E r \in results : ReadResult(r)
           \/ \E x \in reads : ResultFails(x)
           \/ \E x \in reads : CommitResult(x) /\ Locked(conv[x.result.thread])
           \/ \E k \in cards, w \in StaffSays : StaffReply(k, w)
  BY <1>4, ReadDisputes
<1>5. CASE \E x \in reads : CommitResult(x) /\ ~Locked(conv[x.result.thread])
  BY <1>5, ResultDisputes
<1>. QED  BY <1>1, <1>2, <1>3, <1>4, <1>5 DEF Next, Commits

\* A conclusion that two messages have disputed for that alone has been handed to a human,
\* unless another answer is on the way, the recheck that would have answered failed and is
\* still pending in the row, or was ordered for an earlier conclusion, or the row was written
\* from an older read.
THEOREM DisputesReachHuman == Spec => []SecondDisputeReachesHuman
<1>1. Inv /\ DisputeInv => SecondDisputeReachesHuman
  <2>. SUFFICES ASSUME DisputeInv, NEW t \in Threads \ stale, Cardinality(disputed[t]) >= 2,
                       ~Locked(conv[t]), ~Outstanding(t)
                PROVE  /\ conv[t].slots.recheck
                       /\ \/ conv[t].slots.failCount > 0
                          \/ conv[t].slots.origin # conv[t].slots.conclusion
    BY DEF SecondDisputeReachesHuman
  <2>1. Settled(conv[t], Outstanding(t), disputed[t])
    BY DEF DisputeInv, DisputesSettled
  <2>2. disputed[t] # {}
    BY FewEvents
  <2>. QED  BY <2>1, <2>2 DEF Settled, Orderly
<1>2. Inv /\ DisputeInv /\ [Next]_vars => DisputeInv'
  BY StepDisputes
<1>. QED  BY <1>1, <1>2, InitDisputes, RowsInvariant, PTL DEF Spec
=============================================================================
