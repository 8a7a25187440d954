---------------------------- MODULE Conversation ----------------------------
(***************************************************************************)
(* The workflow state of one chat while the gateway answers the customer   *)
(* (GatewayService.process_event, process_event_transactionally), the      *)
(* command worker talks to Telegram and to the backend, and the result     *)
(* consumer applies what they answered (external_result_consumer,          *)
(* process_result_transactionally) or what staff replied.  The gateway and *)
(* the consumer read the row, compute for seconds, and write it back in a  *)
(* later transaction; nothing but the handoff lock is compared in between. *)
(*                                                                         *)
(* What a turn computes is TurnRouting!process_event.  A chat has its      *)
(* LiveChat threads one after the other, each with a row of its own.  The  *)
(* transfer that follows a handoff command is module HumanHandoff, human   *)
(* takeover is module Takeover.                                            *)
(*                                                                         *)
(* An operator X_Suffix before X is a plausible bug of X; nothing uses it. *)
(***************************************************************************)
EXTENDS Naturals, Sequences, FiniteSets, TurnRouting

CONSTANTS
    MaxThreads,  \* bound: threads of the chat
    Topics       \* by name: what customer, LLM, backend and staff may say, and bounds

ASSUME TopicsAssumption ==
    \A p \in DOMAIN Topics :
        /\ Topics[p].threads \in 1..MaxThreads /\ MaxThreads \in 1..2
        /\ Topics[p].events \in Nat /\ Topics[p].crashes \in Nat

VARIABLES
    topic,     \* the name of one of Topics, for ever
    conv,      \* conversation_states: [thread -> row]
    inbox,     \* inbound events not processed yet, in order
    sent,      \* messages the customer has written
    turn,      \* the event the gateway is working on, with the row it read
    cmds,      \* external_commands not executed yet
    results,   \* external_command_results not read yet
    reads,     \* results the consumer is working on, with the row it read
    crashes,   \* turns and results dropped so far
    cards,     \* history: case cards inserted and how far each has come
    handoffs,  \* history: transactions that inserted a handoff command, by thread
    disputed,  \* history: events that disputed the conclusion of the row and were taken for that
    stale      \* history: threads written from a row that had changed, or inherited

vars == <<topic, conv, inbox, sent, turn, cmds, results, reads, crashes,
          cards, handoffs, disputed, stale>>

Threads == 1..MaxThreads
Messages == Topics[topic].messages     \* what the customer may write
Decisions == Topics[topic].decisions   \* what the LLM router may answer
Plans == Topics[topic].plans           \* what slot extraction may yield
AiFails == Topics[topic].aiFails       \* whether the final reply may fail for good
Answers == Topics[topic].answers       \* what the backend may answer to a query
Found == Topics[topic].found           \* what a lookup of an older case may find
StaffSays == Topics[topic].staff       \* what staff may reply to a case
MaxEvents == Topics[topic].events      \* bound: messages of the customer
Fair == Topics[topic].fair     \* whether worker and consumer go on for ever
MaxCrashes == Topics[topic].crashes    \* bound: turns and results that are read and dropped

Fresh == [status |-> "AI_ACTIVE", active |-> "none", stage |-> "none", slots |-> NoSlots]

Init ==
    /\ topic \in DOMAIN Topics
    /\ conv = [t \in Threads |-> Fresh]
    /\ inbox = <<>> /\ sent = <<>> /\ turn = <<>>
    /\ cmds = {} /\ results = {} /\ reads = {} /\ crashes = 0
    /\ cards = {} /\ handoffs = [t \in Threads |-> 0]
    /\ disputed = [t \in Threads |-> {}] /\ stale = {}

--------------------------------------------------------------------------------
(* The row *)

Locked(row) == row.status \in {"HANDOFF_REQUESTED", "HUMAN_ACTIVE"}

_is_fresh_ai_state(row) ==
    row.status = "AI_ACTIVE" /\ row.active = "none" /\ row.stage = "none" /\ row.slots.fresh

_is_continuable_previous_thread_EvenLocked(row) ==
    row.stage \notin {"none", "completed"} /\ row.slots.resolvedAt = 0

_is_continuable_previous_thread(row) ==
    /\ row.status \notin {"CLOSED", "HUMAN_ACTIVE", "HANDOFF_REQUESTED"}
    /\ row.stage # "completed" /\ row.slots.resolvedAt = 0
    /\ \/ row.status = "WAITING_EXTERNAL"
       \/ row.stage \in {"collecting_slots", "waiting_backend", "backend_querying",
                         "lookup_pending_reply"}

Inherits(t) ==
    /\ _is_fresh_ai_state(conv[t])
    /\ \E p \in Threads \ {t} : _is_continuable_previous_thread(conv[p])

\* The row as the application sees it: a thread nobody has written to continues
\* the unfinished workflow of the chat's other thread.
get_or_create(t) ==
    IF Inherits(t)
    THEN conv[CHOOSE p \in Threads \ {t} : _is_continuable_previous_thread(conv[p])]
    ELSE conv[t]

update_workflow_state_NoCoalesce(row, graph) ==
    [status |-> graph.status, active |-> graph.active, stage |-> graph.stage,
     slots |-> graph.slots]

update_workflow_state(row, graph) ==
    [status |-> IF graph.status = "none" THEN row.status ELSE graph.status,
     active |-> graph.active, stage |-> graph.stage, slots |-> graph.slots]

\* Whoever holds an earlier read of thread t now holds an old one.
AgedTurn(t) ==
    IF turn # <<>> /\ turn[1].thread = t THEN <<[turn[1] EXCEPT !.old = TRUE]>> ELSE turn

AgedReads(t, rest) ==
    {IF r.result.thread = t THEN [r EXCEPT !.old = TRUE] ELSE r : r \in rest}

\* A command row: the dedup key has the event and the payload.  That of a reminder has
\* the case and the thread only, so a case is continued in a thread once.
Inserted(t, ev, commands) ==
    {[type |-> c.type, intent |-> c.intent, identity |-> c.identity, shot |-> c.shot,
      case |-> c.case, thread |-> t, ev |-> ev] :
        c \in {x \in commands : x.type = "remind" =>
                  \A k \in cards : k.ev = x.case => t \notin k.reminded}}

\* One transaction may insert two handoff commands, with different reasons.
HandoffIn(commands) == IF \E c \in commands : c.type = "handoff" THEN 1 ELSE 0

--------------------------------------------------------------------------------
(* The customer and the gateway *)

Send(m, t) ==
    /\ t <= Topics[topic].threads /\ Len(sent) < MaxEvents
    /\ \A i \in DOMAIN sent : sent[i] <= t
    /\ sent' = Append(sent, t)
    /\ inbox' = Append(inbox, [m |-> m, thread |-> t, ev |-> Len(sent) + 1])
    /\ UNCHANGED <<topic, conv, turn, cmds, results, reads, crashes, cards, handoffs, disputed,
                   stale>>

\* What _with_money_case_candidates finds: the money cases sent to staff that belong to
\* another thread by now.
list_money_case_candidates(t) ==
    {[ev |-> k.ev, intent |-> k.intent] :
        k \in {x \in cards : x.intent \in MoneySops /\ x.at # "queued" /\ x.current # t}}

\* process_event reads the conversation and the cases before it calls the graph.
Receive ==
    /\ turn = <<>> /\ inbox # <<>>
    /\ LET e == Head(inbox)
       IN  turn' = <<[m |-> e.m, thread |-> e.thread, ev |-> e.ev,
                      snap |-> get_or_create(e.thread), old |-> FALSE,
                      inherited |-> Inherits(e.thread),
                      cases |-> list_money_case_candidates(e.thread)]>>
    /\ UNCHANGED <<topic, conv, inbox, sent, cmds, results, reads, crashes, cards, handoffs,
                   disputed, stale>>

\* The graph raises or the process dies: the event is leased again later.
TurnFails ==
    /\ turn # <<>> /\ crashes < MaxCrashes
    /\ turn' = <<>> /\ crashes' = crashes + 1
    /\ UNCHANGED <<topic, conv, inbox, sent, cmds, results, reads, cards, handoffs, disputed,
                   stale>>

Consume == turn' = <<>> /\ inbox' = Tail(inbox)

\* A conversation that a human owns, or is about to, is not answered.
SkipTurn ==
    /\ turn # <<>>
    /\ Locked(turn[1].snap) \/ Locked(conv[turn[1].thread])
    /\ Consume
    /\ UNCHANGED <<topic, conv, sent, cmds, results, reads, crashes, cards, handoffs, disputed,
                   stale>>

\* The message disputes the conclusion and is taken for that alone: it is no button, asks
\* for no change of the wallet, and no money case is awaited.
DisputesAlone(m, before) ==
    /\ before.slots.conclusion # "none" /\ "disputes" \in m.raw
    /\ m.button \notin DOMAIN BUSINESS_BUTTON_ROUTES
    /\ "wallet_change" \in m.says => m.identity # "none"
    /\ ~(before.active \in MoneySops /\ before.stage \in AwaitingStages)

DisputedAfter(t, m, ev, before, after) ==
    LET kept == IF "accepts" \in m.says THEN {} ELSE disputed[t]
    IN  IF DisputesAlone(m, before) THEN kept \cup {ev}
        ELSE IF ~after.slots.recheck /\ after.slots.dCount = 0 THEN {}
        ELSE kept

NewCards(commands) ==
    {[thread |-> c.thread, ev |-> c.ev, intent |-> c.intent, shot |-> c.shot,
      at |-> "queued", current |-> c.thread, reminded |-> {}] : c \in {x \in commands : x.type = "card"}}

Reminding(t, commands) ==
    {IF \E c \in commands : c.type = "remind" /\ c.case = k.ev
     THEN [k EXCEPT !.reminded = @ \cup {t}] ELSE k : k \in cards}

\* process_event_transactionally: the row read before the graph ran is written
\* over the row of now, and the commands are inserted with it.  The status of the cases of
\* other threads and the order number in the text leave the `eligible` ones.
CommitTurn(d, plan, fails, eligible) ==
    /\ turn # <<>> /\ ~Locked(turn[1].snap) /\ ~Locked(conv[turn[1].thread])
    /\ eligible \subseteq turn[1].cases
    /\ LET e     == turn[1]
           t     == e.thread
           graph == process_event(e.m, e.ev, e.snap, eligible, d, plan, fails)
           row   == update_workflow_state(conv[t], graph)
           new   == Inserted(t, e.ev, graph.cmds)
       IN  /\ conv' = [conv EXCEPT ![t] = row]
           /\ cmds' = cmds \cup new
           /\ reads' = AgedReads(t, reads)
           /\ cards' = Reminding(t, new) \cup NewCards(new)
           /\ handoffs' = [handoffs EXCEPT ![t] = @ + HandoffIn(new)]
           /\ disputed' = [disputed EXCEPT ![t] = DisputedAfter(t, e.m, e.ev, e.snap, row)]
           /\ stale' = IF e.old \/ e.inherited THEN stale \cup {t} ELSE stale
    /\ Consume
    /\ UNCHANGED <<topic, sent, results, crashes>>

--------------------------------------------------------------------------------
(* The command worker *)

Result(c, type, status, fingerprint) ==
    [type |-> type, thread |-> c.thread, ev |-> c.ev, intent |-> c.intent,
     identity |-> c.identity, status |-> status, fingerprint |-> fingerprint]

CardAt(c, from, to) ==
    {IF k.thread = c.thread /\ k.ev = c.ev /\ k.at \in from THEN [k EXCEPT !.at = to] ELSE k :
        k \in cards}

\* A command is dropped only when a human has taken over, which is not
\* modelled here; one for a conversation that waits for a human is executed.
Executed(c, r) ==
    /\ cmds' = cmds \ {c}
    /\ results' = results \cup r
    /\ cards' = IF c.type = "card" THEN CardAt(c, {"queued"}, "posted") ELSE cards
    /\ UNCHANGED <<topic, conv, inbox, sent, turn, reads, crashes, handoffs, disputed,
                   stale>>

ExecuteCard(c) ==
    /\ c.type = "card"
    /\ Executed(c, {Result(c, "created", "created", "none")})

\* Once the reminder is being sent the case belongs to the thread it was asked in, where
\* its staff are answered from now on.  Its result needs nothing of the conversation.
ExecuteReminder(c) ==
    /\ c.type = "remind"
    /\ cmds' = cmds \ {c}
    /\ cards' = {IF k.ev = c.case THEN [k EXCEPT !.current = c.thread] ELSE k : k \in cards}
    /\ UNCHANGED <<topic, conv, inbox, sent, turn, results, reads, crashes, handoffs, disputed,
                   stale>>

\* Telegram refuses the card or the retries are used up, or the case is in a state that
\* needs no reminder: no result is written.
CardFails(c) ==
    /\ c.type \in {"card", "append", "remind"} /\ crashes < MaxCrashes
    /\ crashes' = crashes + 1 /\ cmds' = cmds \ {c}
    /\ UNCHANGED <<topic, conv, inbox, sent, turn, results, reads, cards, handoffs, disputed,
                   stale>>

ExecuteAppend(c) ==
    /\ c.type = "append"
    /\ Executed(c, {Result(c, "appended", "appended", "none")})

ExecuteQuery_ResultOnlyOnSuccess(c, a) ==
    /\ c.type = "query"
    /\ Executed(c, IF a.status = "failed" THEN {}
                   ELSE {Result(c, "answered", a.status, a.fingerprint)})

\* A query that fails has a result as well.
ExecuteQuery(c, a) ==
    /\ c.type = "query"
    /\ Executed(c, {Result(c, "answered", a.status, a.fingerprint)})

ExecuteLookup(c, status) ==
    /\ c.type = "lookup"
    /\ Executed(c, {Result(c, "looked_up", status, "none")})

ExecuteHandoff(c) == c.type = "handoff" /\ Executed(c, {})

--------------------------------------------------------------------------------
(* The result consumer *)

\* slot_memory of the row, overwritten by the keys the handler has: keys the
\* handler dropped stay.  The keys in `set` are there even with the value of
\* an absent one.
Merged(row, new, set) ==
    [k \in DOMAIN row |-> IF new[k] = NoSlots[k] /\ k \notin set THEN row[k] ELSE new[k]]

_backend_lookup_escalation(slots, kind, value) ==
    LET count == IF kind = "failed" THEN slots.failCount + 1
                 ELSE IF slots.nfValue = value THEN slots.nfCount
                 ELSE slots.nfCount + 1
    IN  [count |-> count, handoff |-> count >= 2 /\ ~slots.handoffReq]

HandoffFor(reason, slots) == Command("handoff", reason, slots)

Escalated(handoff, status, active, stage, slots, commands) ==
    [status |-> IF handoff THEN "HANDOFF_REQUESTED" ELSE status,
     active |-> IF handoff THEN "human_handoff" ELSE active,
     stage  |-> IF handoff THEN "handoff_requested" ELSE stage,
     slots  |-> slots, cmds |-> commands]

QueryFailed(r, read, row) ==
    LET e == _backend_lookup_escalation(read.slots, "failed", r.identity)
        slots == [row.slots EXCEPT !.failCount = e.count, !.fresh = FALSE,
                                   !.handoffReq = @ \/ e.handoff]
    IN  Escalated(e.handoff, "WAITING_EXTERNAL", Blocked,
                  "backend_query_failed_waiting_manual", slots,
                  IF e.handoff THEN {HandoffFor("failed", slots)} ELSE {})

\* The slot_memory read before is part of the handler's; _backend_lookup_reset
\* when the player was found.
QueryAnswered(r, read, row) ==
    LET missing == r.status = "not_found"
        e == IF missing THEN _backend_lookup_escalation(read.slots, "not_found", r.identity)
             ELSE [count |-> 0, handoff |-> FALSE]
        recheck == resolve_backend_recheck(read.slots, r)
        new == [recheck.memory EXCEPT
                    !.nfCount = e.count,
                    !.nfValue = IF missing THEN r.identity ELSE "none",
                    !.failCount = IF missing THEN @ ELSE 0,
                    !.handoffReq = IF missing THEN @ \/ e.handoff ELSE FALSE,
                    !.fresh = FALSE]
        set == {"nfCount", "nfValue", "fresh"}
               \cup (IF missing THEN {} ELSE {"failCount", "handoffReq"})
               \cup (IF _is_authoritative_result(r) THEN {"dCount"} ELSE {})
               \cup (IF read.slots.resolvedAt # 0 THEN {"confirmed"} ELSE {})
        slots == Merged(row.slots, new, set)
    IN  Escalated(e.handoff \/ recheck.should_handoff, "AI_ACTIVE", "none", "completed", slots,
                  (IF e.handoff THEN {HandoffFor("not_found", slots)} ELSE {})
                  \cup (IF recheck.should_handoff THEN {HandoffFor("recheck", slots)} ELSE {}))

LookedUp(r, row) ==
    LET waits == r.status \in {"waiting", "human_handoff"}
    IN  [status |-> IF waits THEN "WAITING_EXTERNAL" ELSE "AI_ACTIVE",
         active |-> IF waits THEN Lookup ELSE "none",
         stage  |-> "pending_reply_answered",
         slots  |-> [row.slots EXCEPT !.fresh = FALSE], cmds |-> {}]

Waiting(r, slots) ==
    [status |-> "WAITING_EXTERNAL", active |-> r.intent, stage |-> "waiting_backend",
     slots |-> [slots EXCEPT !.fresh = FALSE], cmds |-> {}]

\* A resolution removes the keys of the case; the collected slots stay.
Resolved(row) ==
    [status |-> "AI_ACTIVE", active |-> "none", stage |-> "completed",
     slots |-> [row.slots EXCEPT !.resolvedAt = Len(sent) + 1, !.confirmed = FALSE,
                                 !.case = 0, !.staff = "none", !.fresh = FALSE],
     cmds |-> {}]

build_staff_reply_handler(r, row) ==
    CASE r.status = "under_review" -> Waiting(r, [row.slots EXCEPT !.staff = "received"])
      [] r.status = "waiting_customer" ->
            [Waiting(r, [row.slots EXCEPT !.staff = "ask_customer"])
                EXCEPT !.stage = "waiting_customer_supplement"]
      [] OTHER -> Resolved(row)

build_result_handler(r, read, row) ==
    CASE r.type = "created"  -> Waiting(r, [row.slots EXCEPT !.case = r.ev])
      [] r.type = "appended" -> Waiting(r, row.slots)
      [] r.type = "looked_up" -> LookedUp(r, row)
      [] r.type = "answered" /\ r.status = "failed" -> QueryFailed(r, read, row)
      [] r.type = "answered" /\ r.status # "failed" -> QueryAnswered(r, read, row)
      [] OTHER -> build_staff_reply_handler(r, row)

\* process_one: results are read and worked on concurrently.
ReadResult(r) ==
    /\ results' = results \ {r}
    /\ reads' = IF Locked(get_or_create(r.thread)) THEN reads
                ELSE reads \cup {[result |-> r, snap |-> get_or_create(r.thread), old |-> FALSE]}
    /\ UNCHANGED <<topic, conv, inbox, sent, turn, cmds, crashes, cards, handoffs, disputed,
                   stale>>

\* The transaction rolls back or the process dies; the row is leased again.
ResultFails(x) ==
    /\ crashes < MaxCrashes /\ crashes' = crashes + 1
    /\ reads' = reads \ {x} /\ results' = results \cup {x.result}
    /\ UNCHANGED <<topic, conv, inbox, sent, turn, cmds, cards, handoffs, disputed, stale>>

\* Staff close a case, whichever thread asks after it by now.
CaseClosed(ev) ==
    {IF k.ev = ev /\ k.at # "queued" THEN [k EXCEPT !.at = "closed"] ELSE k : k \in cards}

Written(x) ==
    LET r == x.result
        t == r.thread
        handler == build_result_handler(r, x.snap, get_or_create(t))
        row == [status |-> handler.status, active |-> handler.active,
                stage |-> handler.stage, slots |-> handler.slots]
        new == Inserted(t, r.ev, handler.cmds)
    IN  /\ conv' = [conv EXCEPT ![t] = row]
        /\ cmds' = cmds \cup new
        /\ turn' = AgedTurn(t)
        /\ reads' = AgedReads(t, reads \ {x})
        /\ cards' = IF r.type = "created" THEN CardAt(r, {"posted"}, "known")
                    ELSE IF r.type = "staff" /\ handler.stage = "completed"
                    THEN {IF k.thread = t /\ k.ev # r.ev /\ k.at = "known"
                          THEN [k EXCEPT !.at = "forgotten"] ELSE k :
                              k \in CaseClosed(r.ev)}
                    ELSE cards
        /\ handoffs' = [handoffs EXCEPT ![t] = @ + HandoffIn(new)]
        /\ disputed' = [disputed EXCEPT ![t] =
                           IF row.slots.conclusion = conv[t].slots.conclusion THEN @ ELSE {}]
        /\ stale' = IF x.old THEN stale \cup {t} ELSE stale

CommitResult_NoLock(x) == Written(x) /\ UNCHANGED <<topic, inbox, sent, results, crashes>>

CommitResult_RequeuesFailures(x) ==
    IF x.result.status = "failed"
    THEN /\ reads' = reads \ {x} /\ results' = results \cup {x.result}
         /\ UNCHANGED <<topic, conv, turn, cmds, cards, handoffs, disputed, stale, inbox, sent, crashes>>
    ELSE /\ ~Locked(conv[x.result.thread])
         /\ CommitResult_NoLock(x)

CommitResult(x) ==
    /\ IF Locked(conv[x.result.thread])
       THEN /\ reads' = reads \ {x}
            /\ UNCHANGED <<topic, conv, turn, cmds, cards, handoffs, disputed, stale>>
       ELSE Written(x)
    /\ UNCHANGED <<topic, inbox, sent, results, crashes>>

\* Staff answer a card they can see; delivery to this transaction is module
\* TelegramCase.
StaffReply(k, what) ==
    /\ k.at \in {"posted", "known", "forgotten"}
    /\ \A x \in {y.result : y \in reads} \cup results : x.type # "staff" \/ x.ev # k.ev
    /\ ~Locked(get_or_create(k.current))
    /\ reads' = reads \cup
         {[result |-> [type |-> "staff", thread |-> k.current, ev |-> k.ev, intent |-> k.intent,
                       identity |-> "none", status |-> what, fingerprint |-> "none"],
           snap |-> get_or_create(k.current), old |-> FALSE]}
    /\ UNCHANGED <<topic, conv, inbox, sent, turn, cmds, results, crashes, cards, handoffs, disputed,
                   stale>>

--------------------------------------------------------------------------------
Execute ==
    \E c \in cmds :
        \/ ExecuteCard(c) \/ CardFails(c) \/ ExecuteAppend(c) \/ ExecuteReminder(c) \/ ExecuteHandoff(c)
        \/ \E a \in Answers : ExecuteQuery(c, a)
        \/ \E f \in Found : ExecuteLookup(c, f)

Next ==
    \/ \E m \in Messages, t \in Threads : Send(m, t)
    \/ Receive
    \/ TurnFails
    \/ SkipTurn
    \/ \E d \in Decisions, p \in Plans, f \in AiFails :
          \E eligible \in SUBSET (UNION {turn[i].cases : i \in DOMAIN turn}) :
             CommitTurn(d, p, f, eligible)
    \/ Execute
    \/ \E r \in results : ReadResult(r)
    \/ \E x \in reads : ResultFails(x) \/ CommitResult(x)
    \/ \E k \in cards, w \in StaffSays : StaffReply(k, w)

Spec == Init /\ [][Next]_vars

--------------------------------------------------------------------------------
(* Fairness, in the topics that ask for it: the command worker and the result  *)
(* consumer poll for ever, and lease again what failed.  Nothing is asked of    *)
(* the gateway.                                                                 *)
Fairness ==
    /\ WF_vars(Fair /\ \E c \in cmds, a \in Answers : ExecuteQuery(c, a))
    /\ WF_vars(Fair /\ \E r \in results : ReadResult(r))
    /\ WF_vars(Fair /\ \E x \in reads : CommitResult(x))

LiveSpec == Spec /\ Fairness

--------------------------------------------------------------------------------
(* Properties *)

Statuses == {"AI_ACTIVE", "WAITING_EXTERNAL", "HANDOFF_REQUESTED"}

\* Rows have a known status and every slot; a turn holds the head of the inbox
\* (process_event, update_workflow_state_on_connection).
TypeOK ==
    /\ \A t \in Threads : conv[t].status \in Statuses /\ DOMAIN conv[t].slots = DOMAIN NoSlots
    /\ turn # <<>> => inbox # <<>> /\ turn[1].ev = Head(inbox).ev
    /\ crashes \in 0..MaxCrashes

Outstanding(t) ==
    \/ \E c \in cmds : c.type = "query" /\ c.thread = t
    \/ \E r \in results \cup {x.result : x \in reads} : r.type = "answered" /\ r.thread = t

IsNew(k) == \A j \in cards : j.thread # k.thread \/ j.ev # k.ev

\* Turns, results of failed queries and repeated disputes may each ask for a
\* human: a thread asks at most once, and its row says so exactly then
\* (process_event_transactionally, process_result_transactionally).
OneHandoffPerThread ==
    \A t \in Threads : handoffs[t] = IF conv[t].status = "HANDOFF_REQUESTED" THEN 1 ELSE 0

\* A conversation that says it is querying the backend has a query, or its
\* answer, on the way, unless its row was written from an older read or the
\* wait for the answer was handed to a human, which leaves the stage as it is
\* (_withdrawal_blocked_sop, _backend_query_state, _build_handoff_state).
QueryingHasQuery ==
    \A t \in Threads \ stale :
        conv[t].stage = "backend_querying" /\ ~Locked(conv[t]) => Outstanding(t)

\* Once a case is recorded in the row and until staff close a case of the
\* thread no second card is sent, whatever buttons and texts come in between,
\* unless an older read has wiped the case from the row (evaluate_sop_policy).
NoCardBesideRecordedCase ==
    [][\A k \in cards', j \in cards :
         IsNew(k) /\ j.thread = k.thread /\ j.at = "known" => k.thread \in stale']_vars

\* A conclusion that two messages have disputed has been handed to a human,
\* unless another answer is on the way, the recheck still pending in the row
\* has failed or was ordered for an earlier conclusion, or the row was written
\* from an older read (evaluate_backend_dispute, resolve_backend_recheck).
SecondDisputeReachesHuman ==
    \A t \in Threads \ stale :
        Cardinality(disputed[t]) >= 2 =>
            \/ Locked(conv[t]) \/ Outstanding(t)
            \/ /\ conv[t].slots.recheck
               /\ \/ conv[t].slots.failCount > 0
                  \/ conv[t].slots.origin # conv[t].slots.conclusion

\* The assistant falls silent in a thread only after a handoff was asked for in
\* that very thread; that of an earlier thread of the chat is not inherited
\* (_is_continuable_previous_thread).
OwnHandoffSilences ==
    turn # <<>> /\ Locked(turn[1].snap) => handoffs[turn[1].thread] = 1

\* Handoffs stay in their thread: each thread asks for a human at most once, and only
\* its own request silences it.
HandoffsSound == TypeOK /\ OneHandoffPerThread /\ OwnHandoffSilences

\* The money cases of other threads that the text asks after.
AskedAfter(e) ==
    {k.intent : k \in {x \in e.cases : e.m.says \cap {"follows_up", "received"} # {}}}

\* Whatever the LLM router answers, a customer in the middle of a money case is not
\* moved to another case by a text, unless it disputes a backend conclusion or asks after
\* an open money case of another thread, and then to such a case only
\* (validate_intent_classification_output, _active_workflow_deterministic_route,
\* _cross_thread_money_case_route).
TextKeepsMoneyCase ==
    [][turn # <<>> /\ Len(inbox') < Len(inbox) /\ turn[1].m.button = "none"
         /\ turn[1].snap.active \in MoneySops
         /\ turn[1].snap.stage \in ACTIVE_WORKFLOW_GUARD_STAGES
         /\ "disputes" \notin turn[1].m.raw
         => \A t \in Threads : conv'[t] # conv[t] =>
              conv'[t].active \notin (MoneySops \cup {Blocked, Lookup})
                                      \ ({turn[1].snap.active} \cup AskedAfter(turn[1]))]_vars

\* A money case survives the turns after it: whatever the customer presses or the LLM
\* answers, it is neither opened a second time once recorded nor turned into another.
MoneyCaseKept == NoCardBesideRecordedCase /\ TextKeepsMoneyCase

\* A query does not leave the customer waiting: the row leaves backend_querying
\* or goes to a human, unless it was written from an older read
\* (process_result_transactionally).
QueryEnds ==
    \A t \in Threads :
        (Fair /\ conv[t].stage = "backend_querying")
            ~> (conv[t].stage # "backend_querying" \/ Locked(conv[t]) \/ t \in stale)
=============================================================================
