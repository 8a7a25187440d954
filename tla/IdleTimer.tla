------------------------------ MODULE IdleTimer -----------------------------
(***************************************************************************)
(* One LiveChat thread and the idle timer that asks a silent customer      *)
(* whether they are still there and later closes the chat.                 *)
(*                                                                         *)
(* A tick of the timer reads the conversation once, and then writes back   *)
(* the slot memory it read (and, in the end, the status CLOSED) after LLM  *)
(* and LiveChat calls, without looking at the conversation row again.  It  *)
(* looks at the customer's events instead.  The gateway, the workers and   *)
(* human agents change the conversation meanwhile.                         *)
(*                                                                         *)
(* Time is a counter that advances with every message; the durations       *)
(* (follow-up, close, backlog, failure back-off) may have passed or not.   *)
(* slot_memory is reduced to the timer's own keys.                         *)
(*                                                                         *)
(* An operator X_Suffix before X is a plausible bug of X; nothing uses it. *)
(***************************************************************************)
EXTENDS Naturals, FiniteSets

CONSTANTS
    MaxMessages,    \* bound: messages the customer writes
    MaxFaults       \* bound: failed calls and crashes of the timer

ASSUME ConstantsAssumption == MaxMessages \in Nat /\ MaxFaults \in Nat

VARIABLES
    status, slot,   \* conversation_states.status, .slot_memory
    latest,         \* the newest row of conversation_messages
    written, visible,   \* when each customer message was written; which of
                        \* them have reached inbound_events
    processed,      \* customer messages marked processed
    replies,        \* queued replies of the bot
    work,           \* unfinished command or result of the conversation
    handoff,        \* a queued handoff command
    threadActive,   \* LiveChat: the thread is open
    gateway, timer, \* worker-local state
    clock, faults,
    takenOver,      \* history: the conversation has been HUMAN_ACTIVE
    silentSince,    \* history: what the customer's silence is counted from: the
                    \* bot's last answer, or the idle text that was the newest
                    \* message when the customer last answered an idle text
    warned,         \* history: idle texts the customer has received since
                    \* their last message that was written after silentSince
                    \* and stored before the last look of a tick that closes
    sentAt,         \* history: when each idle text was last sent
    seen,           \* history: messages stored by the last look of the last
                    \* tick that closed the chat
    told, repeats   \* history: idle texts sent since anybody else wrote; how
                    \* often one of them was sent again

history == <<silentSince, warned, sentAt, seen, told, repeats>>
convVars == <<status, slot, latest, takenOver>>
customerVars == <<written, visible, threadActive>>
queueVars == <<processed, replies, work, handoff>>
vars == <<convVars, customerVars, queueVars, gateway, timer, clock, faults, history>>

Messages == 1 .. MaxMessages
Never == 0                  \* a timestamp that is not set
Statuses == {"AI_ACTIVE", "WAITING_EXTERNAL", "HANDOFF_REQUESTED", "HUMAN_ACTIVE", "CLOSED"}
\* _is_automation_suspended
Locked == {"HANDOFF_REQUESTED", "HUMAN_ACTIVE"}
Texts == {"followup", "close"}

\* IDLE_SLOT_KEYS: idle_followup_sent_at, idle_close_sent_at,
\* idle_base_assistant_created_at, idle_closed_at; and
\* ai_service_failure_handoff_at, which the timer never clears.
Slot == [followup : Nat, close : BOOLEAN, base : Nat, closed : BOOLEAN, failed : BOOLEAN]
NoSlot == [followup |-> Never, close |-> FALSE, base |-> Never, closed |-> FALSE,
           failed |-> FALSE]
ClearIdle_DropsBase(s) ==
    [followup |-> Never, close |-> FALSE, closed |-> FALSE, failed |-> s.failed]
ClearIdle(s) == [NoSlot EXCEPT !.failed = s.failed]

TimerStates ==
    {"idle", "started", "fetched", "examined", "checked", "closing", "sending",
     "sent", "saving", "inserted", "handing_off", "notice", "deactivating", "mark_closed",
     "record_failure"}

TypeOK ==
    /\ status \in Statuses
    /\ slot \in Slot
    /\ latest \in [role : {"none", "customer", "assistant"}, at : Nat]
    /\ written \in [Messages -> Nat]
    /\ visible \subseteq Messages
    /\ processed \in 0 .. MaxMessages
    /\ replies \in Nat
    /\ work \in BOOLEAN /\ handoff \in BOOLEAN /\ threadActive \in BOOLEAN
    /\ gateway \in [pc : {"idle", "graph", "suspended"}, slot : Slot]
    /\ timer \in [pc : TimerStates, now : Nat, status : Statuses, slot : Slot,
                  cutoff : Nat, text : Texts]
    /\ clock \in Nat
    /\ faults \in 0 .. MaxFaults
    /\ takenOver \in BOOLEAN
    /\ silentSince \in Nat
    /\ warned \subseteq Texts /\ told \subseteq Texts /\ repeats \in Nat
    /\ sentAt \in [Texts -> Nat] /\ seen \subseteq Messages

NoGateway == [pc |-> "idle", slot |-> NoSlot]
NoTimer == [pc |-> "idle", now |-> 0, status |-> "AI_ACTIVE", slot |-> NoSlot,
            cutoff |-> Never, text |-> "followup"]

Init ==
    /\ status = "AI_ACTIVE" /\ slot = NoSlot /\ takenOver = FALSE
    /\ latest = [role |-> "none", at |-> Never]
    /\ written = [m \in Messages |-> Never] /\ visible = {}
    /\ processed = 0 /\ replies = 0 /\ work = FALSE /\ handoff = FALSE
    /\ threadActive = TRUE
    /\ gateway = NoGateway /\ timer = NoTimer
    /\ clock = 0 /\ faults = 0 
    /\ silentSince = Never /\ warned = {} /\ told = {} /\ repeats = 0
    /\ sentAt = [t \in Texts |-> Never] /\ seen = {}

Fault == faults < MaxFaults /\ faults' = faults + 1

\* A row of conversation_messages; the newest is the one with the latest
\* created_at, and of two with the same the one inserted later.
InsertMessage(role, at) ==
    latest' = IF at >= latest.at THEN [role |-> role, at |-> at] ELSE latest

-----------------------------------------------------------------------------
(* Customer, gateway, other workers, human agent *)

\* occurred_at is set where the customer writes ...
CustomerWrites ==
    /\ threadActive
    /\ \E m \in Messages :
          /\ written[m] = Never
          /\ \A j \in 1 .. m - 1 : written[j] # Never
          /\ written' = [written EXCEPT ![m] = clock + 1]
    /\ clock' = clock + 1
    /\ UNCHANGED <<convVars, visible, threadActive, queueVars, gateway, timer,
                   faults, history>>

\* ... and the event is seen when the webhook or the poll has stored it.
\* Messages are delivered in order here (InboundQueue treats the rest).
EventStored ==
    /\ \E m \in Messages \ visible :
          /\ written[m] # Never
          /\ 1 .. m - 1 \subseteq visible
          /\ visible' = visible \cup {m}
          /\ warned' = IF written[m] > silentSince /\ timer.pc # "deactivating" THEN {} ELSE warned
    /\ told' = {}
    /\ UNCHANGED <<convVars, written, threadActive, queueVars, gateway, timer,
                   clock, faults, silentSince, sentAt, seen, repeats>>

\* process_event loads the conversation; a CLOSED one is reopened.
GatewayLoad ==
    /\ gateway.pc = "idle"
    /\ processed + 1 \in visible
    /\ gateway' = [pc |-> IF status \in Locked THEN "suspended" ELSE "graph",
                   slot |-> slot]
    /\ UNCHANGED <<convVars, customerVars, queueVars, timer, clock, faults, history>>

\* process_event_transactionally: the customer's message is recorded; the state,
\* with the slot memory loaded before the graph ran, only if nobody has taken
\* the conversation over since.
GatewayCommit ==
    /\ gateway.pc # "idle"
    /\ gateway' = NoGateway
    /\ processed' = processed + 1
    /\ clock' = clock + 1
    /\ InsertMessage("customer", clock + 1)
    /\ \/ /\ status \in Locked \/ gateway.pc = "suspended"
          /\ UNCHANGED <<status, slot, replies, work, handoff>>
       \/ /\ status \notin Locked /\ gateway.pc = "graph"
          /\ slot' = gateway.slot
          /\ replies' = replies + 1
          /\ \/ status' = "AI_ACTIVE" /\ UNCHANGED <<work, handoff>>
             \/ status' = "WAITING_EXTERNAL" /\ work' = TRUE /\ UNCHANGED handoff
             \/ status' = "HANDOFF_REQUESTED" /\ handoff' = TRUE /\ UNCHANGED work
    /\ UNCHANGED <<takenOver, customerVars, timer, faults, history>>

\* The sender delivers a reply, unless the conversation is HUMAN_ACTIVE.
SenderStep ==
    /\ replies > 0
    /\ replies' = replies - 1
    /\ IF status = "HUMAN_ACTIVE" \/ ~threadActive
       THEN UNCHANGED <<latest, clock, silentSince, told>>
       ELSE /\ clock' = clock + 1 /\ silentSince' = clock + 1 /\ told' = {}
            /\ InsertMessage("assistant", clock + 1)
    /\ UNCHANGED <<status, slot, takenOver, customerVars, processed, work, handoff,
                   gateway, timer, faults, warned, sentAt, seen, repeats>>

\* The pending command and its result are finished: answered by
\* process_result_transactionally, dropped under a lock, or given up.
WorkDone ==
    /\ work
    /\ work' = FALSE
    /\ \/ UNCHANGED <<status, replies>>
       \/ status \notin Locked /\ status' = "AI_ACTIVE" /\ replies' = replies + 1
    /\ UNCHANGED <<slot, latest, takenOver, customerVars, processed, handoff, gateway,
                   timer, clock, faults, history>>

\* The handoff command ends in a transfer, which resets slot_memory, or fails.
HandoffDone ==
    /\ handoff
    /\ handoff' = FALSE
    /\ \/ UNCHANGED <<status, slot, takenOver>>
       \/ status' = "HUMAN_ACTIVE" /\ takenOver' = TRUE /\ slot' = NoSlot
    /\ UNCHANGED <<latest, customerVars, processed, replies, work, gateway, timer,
                   clock, faults, history>>

\* mark_human_active: an agent's public reply; queued work is cancelled.
AgentReply ==
    /\ threadActive
    /\ status' = "HUMAN_ACTIVE" /\ takenOver' = TRUE
    /\ replies' = 0 /\ work' = FALSE /\ handoff' = FALSE
    /\ UNCHANGED <<slot, latest, customerVars, processed, gateway, timer, clock,
                   faults, history>>

\* The customer or an agent ends the thread in LiveChat.
ThreadEnds ==
    /\ threadActive
    /\ threadActive' = FALSE
    /\ UNCHANGED <<convVars, written, visible, queueVars, gateway, timer, clock, faults,
                   history>>

-----------------------------------------------------------------------------
(* The timer *)

timerOnly == UNCHANGED <<convVars, customerVars, queueVars, gateway, clock, history>>
Goto(state) == timer' = [timer EXCEPT !.pc = state]
EndTick == timer' = NoTimer

\* process_idle_conversations takes the time of the tick once, ...
TimerStart ==
    /\ timer.pc = "idle"
    /\ timer' = [timer EXCEPT !.pc = "started", !.now = clock]
    /\ UNCHANGED faults
    /\ timerOnly

\* fetch_candidates
Candidate ==
    /\ status \in {"AI_ACTIVE", "WAITING_EXTERNAL"}
    /\ latest.role = "assistant"
    /\ status = "WAITING_EXTERNAL" => ~work /\ ~handoff /\ replies = 0

\* ... and then reads the conversations to work on.
TimerFetch ==
    /\ timer.pc = "started"
    /\ IF Candidate
       THEN timer' = [timer EXCEPT !.pc = "fetched", !.status = status, !.slot = slot]
       ELSE EndTick
    /\ UNCHANGED faults
    /\ timerOnly

\* process_idle_conversation reads the latest message again, and whether a
\* waiting conversation has unfinished work.
TimerExamine ==
    /\ timer.pc = "fetched"
    /\ IF latest.role # "assistant"
       THEN /\ slot' = IF timer.slot.followup # Never THEN ClearIdle(timer.slot) ELSE slot
            /\ EndTick
       ELSE /\ UNCHANGED slot
            /\ IF \/ timer.slot.closed
                  \/ timer.slot.failed
                  \/ timer.status = "WAITING_EXTERNAL" /\ (work \/ handoff \/ replies > 0)
               THEN EndTick
               ELSE timer' = [timer EXCEPT !.pc = "examined", !.cutoff = latest.at]
    /\ UNCHANGED <<status, latest, takenOver, customerVars, queueVars, gateway, clock,
                   faults, history>>

\* has_customer_activity_after
ActivityAfter(t) == \E m \in visible : written[m] > t

\* An answer to the follow-up starts a new cycle.  In the cycle under way the
\* cutoff is the assistant message it began with, else the latest one.
CycleCutoff_Followup(s, at) == IF s.followup # Never THEN s.followup ELSE at
CycleCutoff(s, at) == IF s.followup # Never \/ s.close THEN s.base ELSE at

TimerCheckFollowup ==
    /\ timer.pc = "examined"
    /\ LET restart == timer.slot.followup # Never /\ ActivityAfter(timer.slot.followup)
           local == IF restart THEN ClearIdle(timer.slot) ELSE timer.slot
       IN  /\ timer' = [timer EXCEPT !.pc = "checked", !.slot = local,
                                     !.cutoff = CycleCutoff(local, timer.cutoff)]
           /\ slot' = IF restart THEN local ELSE slot
           /\ silentSince' = IF restart /\ timer.cutoff > silentSince
                             THEN timer.cutoff ELSE silentSince
    /\ UNCHANGED <<status, latest, takenOver, customerVars, queueVars, gateway, clock,
                   faults, warned, sentAt, seen, told, repeats>>

\* No customer activity since the cutoff: wait, send the next text, close.
TimerDecide ==
    /\ timer.pc = "checked"
    /\ \/ EndTick               \* activity, or the time has not come yet
       \/ /\ ~ActivityAfter(timer.cutoff)
          /\ IF timer.slot.close
             THEN Goto("closing")
             ELSE IF timer.slot.followup # Never
             THEN /\ timer.now >= timer.slot.followup
                  /\ timer' = [timer EXCEPT !.pc = "sending", !.text = "close"]
             ELSE /\ timer.now >= timer.cutoff
                  /\ \/ Goto("mark_closed")     \* stale_idle_backlog
                     \/ timer' = [timer EXCEPT !.pc = "sending", !.text = "followup",
                                               !.slot.base = timer.cutoff]
    /\ UNCHANGED faults
    /\ timerOnly

\* _send_idle_text: the LLM words the text, then the customer's events are
\* checked once more.  A terminal LLM failure asks for a human instead.
TimerFinalize ==
    /\ timer.pc = "sending"
    /\ IF ActivityAfter(timer.cutoff)
       THEN EndTick
       ELSE \/ Goto("sent")
            \/ Goto("handing_off")
    /\ UNCHANGED faults
    /\ timerOnly

\* AI_FAILURE_HANDOFF_ELIGIBLE_STATUSES
EligibleForHandoff_Any == Statuses
EligibleForHandoff == {"AI_ACTIVE", "WAITING_EXTERNAL"}

\* request_ai_failure_handoff: a transaction that locks the row and gives way
\* to whoever has taken the conversation meanwhile.
TimerRequestHandoff ==
    /\ timer.pc = "handing_off"
    /\ IF status \in EligibleForHandoff
       THEN /\ status' = "HANDOFF_REQUESTED"
            /\ slot' = [slot EXCEPT !.failed = TRUE]
            /\ handoff' = TRUE
            /\ Goto("notice")
       ELSE EndTick /\ UNCHANGED <<status, slot, handoff>>
    /\ UNCHANGED <<latest, takenOver, customerVars, processed, replies, work, gateway,
                   clock, faults, history>>

\* The handoff notice is sent, or fails; either way the tick ends.
TimerNotice ==
    /\ timer.pc = "notice"
    /\ EndTick
    /\ UNCHANGED faults
    /\ timerOnly

\* send_text succeeds: the customer reads it.
TimerSend ==
    /\ timer.pc = "sent"
    /\ threadActive
    /\ Goto("saving")
    /\ warned' = warned \cup {timer.text}
    /\ sentAt' = [sentAt EXCEPT ![timer.text] = clock]
    /\ told' = told \cup {timer.text}
    /\ repeats' = IF timer.text \in told THEN repeats + 1 ELSE repeats
    /\ UNCHANGED <<convVars, customerVars, queueVars, gateway, clock, faults, silentSince, seen>>

\* It finds the chat closed, or fails.
TimerSendFails ==
    /\ timer.pc = "sent"
    /\ \/ ~threadActive /\ Goto("mark_closed") /\ UNCHANGED faults
       \/ Fault /\ Goto("record_failure")
    /\ timerOnly

\* insert_assistant_message, stamped with the time of the tick
TimerInsertMessage ==
    /\ timer.pc = "saving"
    /\ InsertMessage("assistant", timer.now)
    /\ Goto("inserted")
    /\ UNCHANGED <<status, slot, takenOver, customerVars, queueVars, gateway, clock,
                   faults, history>>

\* update_slot_memory; after the close text the tick goes on to _close_chat.
SentSlot_NotSaved(s, text, now) == s
SentSlot(s, text, now) ==
    IF text = "followup" THEN [s EXCEPT !.followup = now] ELSE [s EXCEPT !.close = TRUE]

TimerSaveSlot ==
    /\ timer.pc = "inserted"
    /\ LET local == SentSlot(timer.slot, timer.text, timer.now)
       IN  /\ slot' = local
           /\ timer' = IF timer.text = "followup" THEN NoTimer
                       ELSE [timer EXCEPT !.pc = "closing", !.slot = local]
    /\ UNCHANGED <<status, latest, takenOver, customerVars, queueVars, gateway, clock,
                   faults, history>>

\* The failure is noted with update_slot_memory, again on the slot memory of
\* the fetch.
TimerRecordFailure ==
    /\ timer.pc = "record_failure"
    /\ slot' = timer.slot
    /\ EndTick
    /\ UNCHANGED <<status, latest, takenOver, customerVars, queueVars, gateway, clock,
                   faults, history>>

\* _close_chat: the last look at the customer's events, ...
TimerFinalCheck ==
    /\ timer.pc = "closing"
    /\ IF ActivityAfter(timer.cutoff)
       THEN EndTick /\ UNCHANGED seen
       ELSE Goto("deactivating") /\ seen' = visible
    /\ UNCHANGED <<convVars, customerVars, queueVars, gateway, clock, faults,
                   silentSince, warned, sentAt, told, repeats>>

\* ... then deactivate_chat (which may find the chat closed already) ...
TimerDeactivate ==
    /\ timer.pc = "deactivating"
    /\ threadActive' = FALSE
    /\ Goto("mark_closed")
    /\ UNCHANGED <<convVars, written, visible, queueVars, gateway, clock, faults, history>>

TimerDeactivateFails ==
    /\ timer.pc = "deactivating"
    /\ Fault
    /\ Goto("record_failure")
    /\ timerOnly

\* ... and mark_closed, unconditional on the status the row has by now.
TimerMarkClosed ==
    /\ timer.pc = "mark_closed"
    /\ status' = "CLOSED"
    /\ slot' = [timer.slot EXCEPT !.closed = TRUE]
    /\ EndTick
    /\ UNCHANGED <<latest, takenOver, customerVars, queueVars, gateway, clock, faults,
                   history>>

\* The tick dies, or a query of it fails (a failed activity check ends it too).
TimerCrash ==
    /\ timer.pc # "idle"
    /\ Fault
    /\ EndTick
    /\ timerOnly

TimerStep ==
    \/ TimerStart \/ TimerFetch \/ TimerExamine \/ TimerCheckFollowup \/ TimerDecide
    \/ TimerFinalize \/ TimerRequestHandoff \/ TimerNotice \/ TimerSend
    \/ TimerSendFails \/ TimerInsertMessage \/ TimerSaveSlot
    \/ TimerRecordFailure \/ TimerFinalCheck
    \/ TimerDeactivate \/ TimerDeactivateFails \/ TimerMarkClosed \/ TimerCrash

Next ==
    \/ CustomerWrites \/ EventStored
    \/ GatewayLoad \/ GatewayCommit \/ SenderStep \/ WorkDone \/ HandoffDone
    \/ AgentReply \/ ThreadEnds
    \/ TimerStep

Spec == Init /\ [][Next]_vars

-----------------------------------------------------------------------------
(* Properties *)

\* deactivate_chat disconnects a customer who is still there only if they have
\* had their warnings: both idle texts were sent after the customer wrote the
\* last of the messages stored when the timer looked for the last time, whatever
\* failed in between; and both were delivered in the silence that is counted,
\* that is since the last of these messages written after the bot's last answer
\* (or after the idle text that was newest when an answer restarted the cycle)
\* was stored.  The second holds for ticks that do not fail: one that dies
\* between insert_assistant_message and update_slot_memory makes the idle text
\* the new base of the cycle.  A message stored between the look and the call
\* does not stop the call.
Disconnects == timer.pc = "deactivating" /\ timer'.pc = "mark_closed" /\ threadActive

WarnedBeforeClosing ==
    [][Disconnects =>
          /\ \A m \in seen, t \in Texts : sentAt[t] >= written[m]
          /\ faults = 0 => warned = Texts]_vars

\* A silent customer is not asked the same thing over and over: every repetition
\* of an idle text is due to a failure of the timer or to a message of the
\* customer.  The gateway's commits, which put back the slot memory of their
\* load, never make the timer forget what it has sent.
NoRepeatedText == repeats <= faults + Cardinality(visible)

\* The timer asks for a human only where nobody has yet: a conversation that
\* waits for a human or has one never falls back to an earlier status, and
\* nothing but the timer's closing takes it out of there.
HandoffNotTakenBack ==
    [][/\ status = "HUMAN_ACTIVE" => status' \in {"HUMAN_ACTIVE", "CLOSED"}
       /\ status = "HANDOFF_REQUESTED" =>
             status' \in {"HANDOFF_REQUESTED", "HUMAN_ACTIVE", "CLOSED"}]_vars

\* README: once a conversation is HUMAN_ACTIVE, the gateway does not run the
\* graph or enqueue outbound messages.
GatewayStaysOut ==
    [][takenOver /\ gateway'.pc = "graph" => gateway.pc = "graph"]_vars
=============================================================================
