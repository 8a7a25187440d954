---------------------------- MODULE TelegramCase ----------------------------
(***************************************************************************)
(* A money case in the staff's Telegram group: the command worker posts    *)
(* the case card and later reminders, the reply consumer carries staff     *)
(* replies back to the customer, and the customer may dispute or confirm   *)
(* from a later thread of the same chat.  Cards, cases and root messages   *)
(* have the same numbers; update ids count the staff messages; thread 1    *)
(* opened the case.                                                        *)
(*                                                                         *)
(* Texts are reduced to what the patterns of telegram_case_status tell     *)
(* apart.  A Telegram call may fail before or after the group sees the     *)
(* message.                                                                *)
(*                                                                         *)
(* An operator X_Suffix before X is a plausible bug of X; nothing uses it. *)
(***************************************************************************)
EXTENDS Naturals, Sequences, FiniteSets, FiniteSetsExt

CONSTANTS
    Workers,        \* external_command_worker tasks
    Consumers,      \* telegram_reply_consumer processes
    NThreads,
    MaxRetries,     \* attempts before a command or result is FAILED
    MaxCards,       \* bound: cards posted
    MaxReplies,     \* bound: staff messages
    Setups          \* what may happen, and how often

Texts == {"ask", "wait", "done", "reject", "noted", "photo"}

ASSUME ConstantsAssumption ==
    /\ NThreads \in Nat \ {0} /\ MaxCards \in Nat \ {0} /\ MaxRetries \in Nat \ {0}
    /\ MaxReplies \in Nat
    /\ \A s \in Setups :
          /\ s.workers \subseteq Workers /\ s.threads \in 1 .. NThreads
          /\ s.cards \in 1 .. MaxCards /\ s.replies \in 0 .. MaxReplies
          /\ s.texts \subseteq Texts /\ s.turns \in Nat /\ s.faults \in Nat
          /\ s.takenOver \subseteq {"HANDOFF_REQUESTED", "HUMAN_ACTIVE"}

VARIABLES
    setup,      \* one of Setups, for ever: the workers that run, the threads the chat
                \* may have, what staff may write, the statuses of Locked a thread may
                \* get, and bounds on cards, replies, customer turns and faults
    command,    \* external_commands: 1 sends the card, t > 1 reminds from thread t
    worker,     \* local state of _process_real_telegram(_followup)_command
    cards,      \* number of cards in the group
    created,    \* cards with a telegram.case.created result
    case,       \* telegram_cases
    link,       \* telegram_case_messages: message -> case, 0 when not recorded
    followup,   \* telegram_case_followups of the case, by source thread
    reminded,   \* history: reminders the group has seen, by thread
    posted,     \* staff messages, by update id
    offset,     \* telegram_update_offsets
    consumer,   \* local state of process_telegram_updates
    result,     \* telegram.staff_reply.received results, by update id
    queued,     \* history: answers queued for the customer, by update id
    conv,       \* conversation_states.status, by thread
    opened,     \* the chat's latest thread
    turn,       \* local state of the gateway
    turns, faults

vars == <<setup, command, worker, cards, created, case, link, followup, reminded,
          posted, offset, consumer, result, queued, conv, opened, turn, turns, faults>>

telegramVars == <<cards, created, reminded>>
replyVars == <<posted, offset, consumer, result, queued>>
gatewayVars == <<opened, turn, turns>>
workVars == <<command, worker, followup>>

Threads == 1 .. NThreads
Cards == 1 .. MaxCards
Updates == 1 .. MaxReplies
Messages == ({"card"} \X Cards) \cup ({"reminder"} \X Threads) \cup ({"staff"} \X Updates)

CaseStatuses == {"none", "awaiting_review", "under_review", "waiting_customer", "completed_by_staff",
                 "terminal_other", "completion_disputed", "completed_confirmed_by_customer"}
Sticky == {"completion_disputed", "completed_confirmed_by_customer"}
ConvStatuses == {"AI_ACTIVE", "WAITING_EXTERNAL", "HANDOFF_REQUESTED", "HUMAN_ACTIVE"}
Locked == {"HANDOFF_REQUESTED", "HUMAN_ACTIVE"}
RowStatuses == {"none", "PENDING", "SENT", "FAILED", "UNCERTAIN", "SKIPPED"}
FollowupStatuses == {"none", "reserved", "sending", "sent", "delivery_uncertain", "canceled"}

NoWork == [pc |-> "idle", cmd |-> 1, card |-> 0]
NoUpdate == [pc |-> "idle", update |-> 0, last |-> 0, card |-> 0, st |-> "none", thread |-> 1]
NoTurn == [thread |-> 0, confirms |-> FALSE, card |-> 0, st |-> "none"]

TypeOK ==
    /\ setup \in Setups
    /\ command \in [Threads -> [st : RowStatuses, retry : Nat, locked : BOOLEAN, card : 0 .. MaxCards]]
    /\ \A w \in Workers : worker[w].cmd \in Threads /\ worker[w].card \in 0 .. MaxCards
    /\ cards \in 0 .. MaxCards /\ created \subseteq 1 .. cards
    /\ case \in [Cards -> [st : CaseStatuses, thread : Threads]]
    /\ link \in [Messages -> 0 .. MaxCards]
    /\ followup \in [Threads -> [st : FollowupStatuses, number : Nat]]
    /\ reminded \in [Threads -> Nat]
    /\ posted \in Seq([to : Messages, text : setup.texts]) /\ offset \in 0 .. Len(posted)
    /\ \A c \in Consumers : consumer[c].update \in 0 .. Len(posted) + 1 /\ consumer[c].st \in CaseStatuses
    /\ result \in [Updates -> [st : {"none", "PENDING", "PROCESSED", "FAILED"},
                              retry : Nat, thread : Threads, leased : BOOLEAN]]
    /\ queued \in [Updates -> Nat]
    /\ conv \in [Threads -> ConvStatuses]
    /\ opened \in Threads /\ turns \in 0 .. setup.turns /\ faults \in 0 .. setup.faults

\* The gateway has just queued the card (telegram.send_case_card).
Init ==
    /\ setup \in Setups
    /\ command = [t \in Threads |-> [st |-> IF t = 1 THEN "PENDING" ELSE "none", retry |-> 0, locked |-> FALSE, card |-> 0]]
    /\ worker = [w \in Workers |-> NoWork]
    /\ cards = 0 /\ created = {}
    /\ case = [k \in Cards |-> [st |-> "none", thread |-> 1]]
    /\ link = [m \in Messages |-> 0]
    /\ followup = [t \in Threads |-> [st |-> "none", number |-> 0]]
    /\ reminded = [t \in Threads |-> 0]
    /\ posted = <<>> /\ offset = 0
    /\ consumer = [c \in Consumers |-> NoUpdate]
    /\ result = [u \in Updates |-> [st |-> "none", retry |-> 0, thread |-> 1, leased |-> FALSE]]
    /\ queued = [u \in Updates |-> 0]
    /\ conv = [t \in Threads |-> IF t = 1 THEN "WAITING_EXTERNAL" ELSE "AI_ACTIVE"]
    /\ opened = 1 /\ turn = NoTurn
    /\ turns = 0 /\ faults = 0

Fault == faults < setup.faults /\ faults' = faults + 1

-----------------------------------------------------------------------------
(* The command worker *)

\* mark_processing_failed; PENDING stands for RETRYABLE too.  MySQL assigns from
\* left to right: the limit is compared with the new count plus one.
Failed(c) == [c EXCEPT !.retry = @ + 1, !.locked = FALSE,
                       !.st = IF c.retry + 2 >= MaxRetries THEN "FAILED" ELSE "PENDING"]
Settled(c, st) == [c EXCEPT !.st = st, !.locked = FALSE]

Goto(w, pc) == worker' = [worker EXCEPT ![w].pc = pc]
Finish(w, cmdRow) ==
    /\ command' = [command EXCEPT ![worker[w].cmd] = cmdRow]
    /\ worker' = [worker EXCEPT ![w] = NoWork]

CommandLease(w, t) ==
    /\ w \in setup.workers /\ worker[w].pc = "idle"
    /\ command[t].st = "PENDING" /\ ~command[t].locked
    /\ command' = [command EXCEPT ![t].locked = TRUE]
    /\ worker' = [worker EXCEPT ![w] = [pc |-> "check", cmd |-> t, card |-> command[t].card]]
    /\ UNCHANGED <<setup, followup, telegramVars, case, link, replyVars, conv, gatewayVars, faults>>

\* _command_blocked_by_human_active
CommandCheck(w) ==
    /\ worker[w].pc = "check"
    /\ LET t == worker[w].cmd
       IN  IF conv[t] = "HUMAN_ACTIVE"
           THEN Finish(w, Settled(command[t], "SKIPPED"))
           ELSE Goto(w, IF t = 1 THEN "card" ELSE "reserve") /\ UNCHANGED command
    /\ UNCHANGED <<setup, followup, telegramVars, case, link, replyVars, conv, gatewayVars, faults>>

\* send_case_card has posted the card and all its pictures.
PostCard(w) ==
    /\ worker[w].pc = "card" /\ cards < setup.cards
    /\ cards' = cards + 1
    /\ worker' = [worker EXCEPT ![w].pc = "emit", ![w].card = cards + 1]
    /\ UNCHANGED <<setup, command, followup, created, reminded, case, link, replyVars, conv, gatewayVars, faults>>

\* send_message fails, or a picture fails after the card is in the group: either
\* way the command is retried from the beginning (classify_telegram_error), or
\* failed at once for an error that is not worth a retry.
PostCardFails(w) ==
    /\ worker[w].pc = "card" /\ Fault
    /\ \E seen \in BOOLEAN, retryable \in BOOLEAN :
          /\ seen => cards < setup.cards
          /\ cards' = IF seen THEN cards + 1 ELSE cards
          /\ Finish(w, IF retryable THEN Failed(command[1]) ELSE Settled(command[1], "FAILED"))
    /\ UNCHANGED <<setup, followup, created, reminded, case, link, replyVars, conv, gatewayVars>>

\* insert_idempotent: the message id is part of the result, and of its key.
EmitCreated(w) ==
    /\ worker[w].pc = "emit"
    /\ created' = created \cup {worker[w].card}
    /\ Goto(w, "mark_sent")
    /\ UNCHANGED <<setup, command, followup, cards, reminded, case, link, replyVars, conv, gatewayVars, faults>>

CommandMarkSent(w) ==
    /\ worker[w].pc = "mark_sent"
    /\ Finish(w, Settled(command[worker[w].cmd], "SENT"))
    /\ UNCHANGED <<setup, followup, telegramVars, case, link, replyVars, conv, gatewayVars, faults>>

\* effective_follow_up_kind; a reminder is only queued for follow-up texts.
Remindable(st) == st \notin {"completed_confirmed_by_customer", "terminal_other", "waiting_customer"}

NextNumber_CountsSent == 2 + Cardinality({t \in Threads : followup[t].st = "sent"})
NextNumber == Max({1} \cup {followup[t].number : t \in Threads}) + 1

\* reserve_followup under the case's row lock, the duplicate checks that follow
\* it, and cancel_followup when the case no longer needs a reminder.
ReserveFollowup_ForgetsSending(w) ==
    /\ worker[w].pc = "reserve"
    /\ LET t == worker[w].cmd
           done == followup[t].st \in {"sent", "delivery_uncertain"}
       IN  /\ followup' = IF followup[t].st = "none"
                          THEN [followup EXCEPT ![t] = [st |-> "reserved", number |-> NextNumber]] ELSE followup
           /\ Goto(w, IF done THEN "mark_sent"
                      ELSE IF ~Remindable(case[worker[w].card].st) THEN "cancel" ELSE "route")
    /\ UNCHANGED <<setup, command, telegramVars, case, link, replyVars, conv, gatewayVars, faults>>
ReserveFollowup_SkipsSending(w) ==
    /\ worker[w].pc = "reserve"
    /\ LET t == worker[w].cmd
           done == followup[t].st \in {"sent", "delivery_uncertain"}
       IN  /\ followup' = IF followup[t].st = "none"
                          THEN [followup EXCEPT ![t] = [st |-> "reserved", number |-> NextNumber]] ELSE followup
           /\ Goto(w, IF followup[t].st = "sending" THEN "idle" ELSE IF done THEN "mark_sent"
                      ELSE IF ~Remindable(case[worker[w].card].st) THEN "cancel" ELSE "route")
    /\ UNCHANGED <<setup, command, telegramVars, case, link, replyVars, conv, gatewayVars, faults>>
ReserveFollowup(w) ==
    /\ worker[w].pc = "reserve"
    /\ LET t == worker[w].cmd
           done == followup[t].st \in {"sent", "delivery_uncertain", "sending"}
       IN  /\ followup' = IF followup[t].st = "none"
                          THEN [followup EXCEPT ![t] = [st |-> "reserved", number |-> NextNumber]] ELSE followup
           /\ Goto(w, IF done THEN "mark_sent"
                      ELSE IF ~Remindable(case[worker[w].card].st) THEN "cancel" ELSE "route")
    /\ UNCHANGED <<setup, command, telegramVars, case, link, replyVars, conv, gatewayVars, faults>>

CancelFollowup(w) ==
    /\ worker[w].pc = "cancel"
    /\ followup' = [followup EXCEPT ![worker[w].cmd].st = "canceled"]
    /\ Goto(w, "mark_sent")
    /\ UNCHANGED <<setup, command, telegramVars, case, link, replyVars, conv, gatewayVars, faults>>

\* mark_followup_sending: from here on staff replies go to the new thread.
MarkFollowupSending(w) ==
    /\ worker[w].pc = "route"
    /\ followup' = [followup EXCEPT ![worker[w].cmd].st = "sending"]
    /\ case' = [case EXCEPT ![worker[w].card].thread = worker[w].cmd]
    /\ Goto(w, "post")
    /\ UNCHANGED <<setup, command, telegramVars, link, replyVars, conv, gatewayVars, faults>>

\* send_case_followup; pictures that fail are only listed.
PostFollowup(w) ==
    /\ worker[w].pc = "post"
    /\ reminded' = [reminded EXCEPT ![worker[w].cmd] = @ + 1]
    /\ Goto(w, "record")
    /\ UNCHANGED <<setup, command, followup, cards, created, case, link, replyVars, conv, gatewayVars, faults>>

PostFollowupFails(w) ==
    /\ worker[w].pc = "post" /\ Fault
    /\ \/ Goto(w, "retryable") /\ UNCHANGED reminded                         \* 429
       \/ /\ Goto(w, "uncertain")
          /\ \E seen \in BOOLEAN : reminded' = [reminded EXCEPT ![worker[w].cmd] = IF seen THEN @ + 1 ELSE @]
    /\ UNCHANGED <<setup, command, followup, cards, created, case, link, replyVars, conv, gatewayVars>>

RecordFollowupSent(w) ==
    /\ worker[w].pc = "record"
    /\ followup' = [followup EXCEPT ![worker[w].cmd].st = "sent"]
    /\ link' = [link EXCEPT ![<<"reminder", worker[w].cmd>>] = worker[w].card]
    /\ Goto(w, "mark_sent")
    /\ UNCHANGED <<setup, command, telegramVars, case, replyVars, conv, gatewayVars, faults>>

\* mark_followup_delivery_uncertain or mark_followup_retryable
MarkFollowup(w) ==
    /\ worker[w].pc \in {"uncertain", "retryable"}
    /\ followup' = [followup EXCEPT ![worker[w].cmd].st =
                       IF worker[w].pc = "uncertain" THEN "delivery_uncertain" ELSE "reserved"]
    /\ Goto(w, IF worker[w].pc = "uncertain" THEN "mark_uncertain" ELSE "mark_failed")
    /\ UNCHANGED <<setup, command, telegramVars, case, link, replyVars, conv, gatewayVars, faults>>

CommandMark(w) ==
    /\ worker[w].pc \in {"mark_uncertain", "mark_failed"}
    /\ LET row == command[worker[w].cmd]
       IN  Finish(w, IF worker[w].pc = "mark_uncertain" THEN Settled(row, "UNCERTAIN") ELSE Failed(row))
    /\ UNCHANGED <<setup, followup, telegramVars, case, link, replyVars, conv, gatewayVars, faults>>

\* A statement fails.  record_followup_sent stands inside the try of the call to
\* Telegram; everything else reaches mark_processing_failed.
CommandFails(w) ==
    /\ worker[w].pc \notin {"idle", "card", "post"} /\ Fault
    /\ IF worker[w].pc = "record"
       THEN Goto(w, "uncertain") /\ UNCHANGED command
       ELSE Finish(w, Failed(command[worker[w].cmd]))
    /\ UNCHANGED <<setup, followup, telegramVars, case, link, replyVars, conv, gatewayVars>>

CommandCrash(w) ==
    /\ worker[w].pc # "idle" /\ Fault
    /\ worker' = [worker EXCEPT ![w] = NoWork]
    /\ UNCHANGED <<setup, command, followup, telegramVars, case, link, replyVars, conv, gatewayVars>>

\* No lease runs out under a worker that is alive.
LeaseExpires(t) ==
    /\ command[t].locked
    /\ \A w \in Workers : worker[w].pc = "idle" \/ worker[w].cmd # t
    /\ command' = [command EXCEPT ![t].locked = FALSE]
    /\ UNCHANGED <<setup, worker, followup, telegramVars, case, link, replyVars, conv, gatewayVars, faults>>

WorkerStep(w) ==
    \/ \E t \in Threads : CommandLease(w, t)
    \/ CommandCheck(w) \/ PostCard(w) \/ EmitCreated(w) \/ CommandMarkSent(w) \/ CommandMark(w)
    \/ ReserveFollowup(w) \/ CancelFollowup(w) \/ MarkFollowupSending(w) \/ PostFollowup(w)
    \/ RecordFollowupSent(w) \/ MarkFollowup(w)

WorkerFault(w) == PostCardFails(w) \/ PostFollowupFails(w) \/ CommandFails(w) \/ CommandCrash(w)

-----------------------------------------------------------------------------
(* The reply consumer *)

\* Staff reply to anything they can see in the group.
StaffReplies(m, text) ==
    /\ Len(posted) < setup.replies /\ text \in setup.texts
    /\ \/ m[1] = "card" /\ m[2] <= cards
       \/ m[1] = "reminder" /\ reminded[m[2]] > 0
       \/ m[1] = "staff" /\ m[2] <= Len(posted)
    /\ posted' = Append(posted, [to |-> m, text |-> text])
    /\ UNCHANGED <<setup, workVars, telegramVars, case, link, offset, consumer, result, queued, conv, gatewayVars, faults>>

Step(c, pc) == consumer' = [consumer EXCEPT ![c].pc = pc]

\* sync_recent_external_results
SyncCases(c) ==
    /\ consumer[c].pc = "idle"
    /\ case' = [k \in Cards |-> IF k \in created /\ case[k].st = "none"
                                THEN [case[k] EXCEPT !.st = "awaiting_review"] ELSE case[k]]
    /\ link' = [m \in Messages |-> IF m[1] = "card" /\ m[2] \in created THEN m[2] ELSE link[m]]
    /\ Step(c, "fetch")
    /\ UNCHANGED <<setup, workVars, telegramVars, posted, offset, result, queued, conv, gatewayVars, faults>>

\* get_offset, getUpdates
FetchUpdates(c) ==
    /\ consumer[c].pc = "fetch"
    /\ consumer' = [consumer EXCEPT ![c] =
          IF offset = Len(posted) THEN NoUpdate
          ELSE [NoUpdate EXCEPT !.pc = "look", !.update = offset + 1, !.last = Len(posted)]]
    /\ UNCHANGED <<setup, workVars, telegramVars, case, link, posted, offset, result, queued, conv, gatewayVars, faults>>

\* find_by_reply_message and is_human_active: the case as it is now goes into
\* the result row.
LookUpCase(c) ==
    /\ consumer[c].pc = "look"
    /\ LET k == link[posted[consumer[c].update].to]
       IN  consumer' = [consumer EXCEPT ![c] =
             IF k = 0 \/ (k # 0 /\ conv[case[k].thread] = "HUMAN_ACTIVE") THEN [@ EXCEPT !.pc = "save"]
             ELSE [@ EXCEPT !.pc = "insert", !.card = k, !.st = case[k].st, !.thread = case[k].thread]]
    /\ UNCHANGED <<setup, workVars, telegramVars, case, link, posted, offset, result, queued, conv, gatewayVars, faults>>

\* insert_idempotent under build_telegram_staff_reply_dedup_key
InsertResult_NoDedup(c) ==
    /\ consumer[c].pc = "insert"
    /\ result' = [result EXCEPT ![consumer[c].update].st = "PENDING", ![consumer[c].update].thread = consumer[c].thread]
    /\ Step(c, "deliver")
    /\ UNCHANGED <<setup, workVars, telegramVars, case, link, posted, offset, queued, conv, gatewayVars, faults>>
InsertResult(c) ==
    /\ consumer[c].pc = "insert"
    /\ LET u == consumer[c].update
       IN  IF result[u].st = "none"
           THEN /\ result' = [result EXCEPT ![u].st = "PENDING", ![u].thread = consumer[c].thread]
                /\ Step(c, "deliver")
           ELSE Step(c, "save") /\ UNCHANGED result                  \* DUPLICATE
    /\ UNCHANGED <<setup, workVars, telegramVars, case, link, posted, offset, queued, conv, gatewayVars, faults>>

\* classify_money_case_status
Classify(text, st) ==
    CASE st \in Sticky    -> st
      [] text = "ask"     -> "waiting_customer"
      [] text = "wait"    -> "under_review"
      [] text = "done"    -> "completed_by_staff"
      [] text = "reject"  -> "terminal_other"
      [] OTHER            -> "under_review"

\* build_staff_reply_handler and _build_photo_only_handler: a photo without a
\* caption leaves the case as it is.
CaseAfter(text, st, now) == IF text = "photo" THEN now ELSE Classify(text, st)
ConvAfter(text, st) ==
    IF text = "photo" \/ Classify(text, st) \in {"awaiting_review", "under_review", "completion_disputed", "waiting_customer"}
    THEN "WAITING_EXTERNAL" ELSE "AI_ACTIVE"

\* process_result_transactionally
DeliverReply(c) ==
    /\ consumer[c].pc = "deliver"
    /\ LET u == consumer[c].update
           k == consumer[c].card
           t == consumer[c].thread
           text == posted[u].text
           takenOver == conv[t] \in Locked
       IN  /\ result' = [result EXCEPT ![u].st = "PROCESSED"]
           /\ queued' = [queued EXCEPT ![u] = IF takenOver THEN @ ELSE @ + 1]
           /\ case' = [case EXCEPT ![k].st = IF takenOver THEN @ ELSE CaseAfter(text, consumer[c].st, @)]
           /\ conv' = [conv EXCEPT ![t] = IF takenOver THEN @ ELSE ConvAfter(text, consumer[c].st)]
    /\ Step(c, "record")
    /\ UNCHANGED <<setup, workVars, telegramVars, link, posted, offset, gatewayVars, faults>>

\* record_staff_reply_message
RecordStaffReply(c) ==
    /\ consumer[c].pc = "record"
    /\ link' = [link EXCEPT ![<<"staff", consumer[c].update>>] = consumer[c].card]
    /\ Step(c, "save")
    /\ UNCHANGED <<setup, workVars, telegramVars, case, posted, offset, result, queued, conv, gatewayVars, faults>>

NextUpdate(c) ==
    IF consumer[c].update = consumer[c].last THEN NoUpdate
    ELSE [NoUpdate EXCEPT !.pc = "look", !.update = consumer[c].update + 1, !.last = consumer[c].last]

SaveOffset_WholeBatch(c) ==
    /\ consumer[c].pc = "save"
    /\ offset' = Max({offset, consumer[c].last})
    /\ consumer' = [consumer EXCEPT ![c] = NoUpdate]
    /\ UNCHANGED <<setup, workVars, telegramVars, case, link, posted, result, queued, conv, gatewayVars, faults>>
SaveOffset_NextId(c) ==
    /\ consumer[c].pc = "save"
    /\ offset' = Max({offset, consumer[c].update + 1})
    /\ consumer' = [consumer EXCEPT ![c] = NextUpdate(c)]
    /\ UNCHANGED <<setup, workVars, telegramVars, case, link, posted, result, queued, conv, gatewayVars, faults>>
\* save_offset with GREATEST, then the next update of the batch
SaveOffset(c) ==
    /\ consumer[c].pc = "save"
    /\ offset' = Max({offset, consumer[c].update})
    /\ consumer' = [consumer EXCEPT ![c] = NextUpdate(c)]
    /\ UNCHANGED <<setup, workVars, telegramVars, case, link, posted, result, queued, conv, gatewayVars, faults>>

\* A step raises or the process dies: the rest of the batch is left for the next
\* getUpdates.  A failing transaction is rolled back and the result marked
\* FAILED, if that write succeeds.
ConsumerFails_Continues(c) ==
    /\ consumer[c].pc \notin {"idle", "fetch"} /\ Fault
    /\ \/ UNCHANGED result
       \/ consumer[c].pc = "deliver" /\ result' = [result EXCEPT ![consumer[c].update].st = "FAILED"]
    /\ consumer' = [consumer EXCEPT ![c] = NextUpdate(c)]
    /\ UNCHANGED <<setup, workVars, telegramVars, case, link, posted, offset, queued, conv, gatewayVars>>
ConsumerFails(c) ==
    /\ consumer[c].pc \notin {"idle", "fetch"} /\ Fault
    /\ \/ UNCHANGED result
       \/ consumer[c].pc = "deliver" /\ result' = [result EXCEPT ![consumer[c].update].st = "FAILED"]
    /\ consumer' = [consumer EXCEPT ![c] = NoUpdate]
    /\ UNCHANGED <<setup, workVars, telegramVars, case, link, posted, offset, queued, conv, gatewayVars>>

\* external_result_consumer leases every PENDING result, this type included, and
\* has no handler for it: it writes mark_processing_failed whatever the row says
\* by then, or mark_processed in a conversation that was handed over.
ResultLease(u) ==
    /\ result[u].st = "PENDING" /\ ~result[u].leased
    /\ result' = [result EXCEPT ![u].leased = TRUE]
    /\ UNCHANGED <<setup, workVars, telegramVars, case, link, posted, offset, consumer, queued, conv, gatewayVars, faults>>

ResultReject(u) ==
    /\ result[u].leased
    /\ result' = [result EXCEPT ![u] =
          IF conv[@.thread] \in Locked THEN [@ EXCEPT !.leased = FALSE, !.st = "PROCESSED"]
          ELSE [@ EXCEPT !.leased = FALSE, !.retry = result[u].retry + 1,
                         !.st = IF result[u].retry + 2 >= MaxRetries THEN "FAILED" ELSE "PENDING"]]
    /\ UNCHANGED <<setup, workVars, telegramVars, case, link, posted, offset, consumer, queued, conv, gatewayVars, faults>>

ConsumerStep(c) ==
    \/ SyncCases(c) \/ FetchUpdates(c) \/ LookUpCase(c) \/ InsertResult(c)
    \/ DeliverReply(c) \/ RecordStaffReply(c) \/ SaveOffset(c)

-----------------------------------------------------------------------------
(* The customer and the agent *)

\* list_money_case_candidates and the filter of resolve_money_case_followup
Eligible(t, confirms) ==
    {k \in Cards : /\ case[k].thread # t
                   /\ case[k].st \notin {"none", "completed_confirmed_by_customer", "terminal_other"}
                   /\ ~confirms => case[k].st # "waiting_customer"}

\* The transaction values of all cards of one command agree, so only the
\* inherited root message or a single eligible case decides; root 0 is none.
Matches(t, confirms, root) ==
    LET eligible == Eligible(t, confirms)
    IN  IF root \in eligible THEN {root} ELSE IF Cardinality(eligible) = 1 THEN eligible ELSE {}

\* The gateway reads the case, decides, and commits later.  A chat's threads
\* follow one another.
GatewayDecides(t, confirms, root) ==
    /\ turn = NoTurn /\ turns < setup.turns
    /\ t \in 2 .. setup.threads /\ t \in opened .. opened + 1 /\ conv[t] \notin Locked
    /\ opened' = t
    /\ \E k \in Matches(t, confirms, root) :
          turn' = [thread |-> t, confirms |-> confirms, card |-> k, st |-> case[k].st]
    /\ turns' = turns + 1
    /\ UNCHANGED <<setup, workVars, telegramVars, case, link, replyVars, conv, faults>>

\* process_event_transactionally with the state of _resolved_state or
\* _money_case_followup_state.  One reminder per case and thread:
\* build_money_case_followup_dedup_key.
GatewayCommits_DisputeOnly(takenOver) ==
    /\ turn # NoTurn
    /\ LET t == turn.thread
       IN  /\ takenOver = (conv[t] \in Locked)
           /\ case' = IF takenOver THEN case
                      ELSE IF turn.confirms
                           THEN [case EXCEPT ![turn.card].st = "completed_confirmed_by_customer"]
                      ELSE IF turn.st = "completed_by_staff"
                           THEN [case EXCEPT ![turn.card].st = "completion_disputed"]
                      ELSE case
           /\ command' = IF takenOver \/ turn.confirms \/ command[t].st # "none" \/ turn.st = "completed_by_staff" THEN command
                         ELSE [command EXCEPT ![t].st = "PENDING", ![t].card = turn.card]
    /\ turn' = NoTurn
    /\ UNCHANGED <<setup, worker, followup, telegramVars, link, replyVars, conv, opened, turns, faults>>
GatewayCommits(takenOver) ==
    /\ turn # NoTurn
    /\ LET t == turn.thread
       IN  /\ takenOver = (conv[t] \in Locked)
           /\ case' = IF takenOver THEN case
                      ELSE IF turn.confirms
                           THEN [case EXCEPT ![turn.card].st = "completed_confirmed_by_customer"]
                      ELSE IF turn.st = "completed_by_staff"
                           THEN [case EXCEPT ![turn.card].st = "completion_disputed"]
                      ELSE case
           /\ command' = IF takenOver \/ turn.confirms \/ command[t].st # "none" THEN command
                         ELSE [command EXCEPT ![t].st = "PENDING", ![t].card = turn.card]
    /\ turn' = NoTurn
    /\ UNCHANGED <<setup, worker, followup, telegramVars, link, replyVars, conv, opened, turns, faults>>

\* mark_human_active, or an earlier turn's handoff request
AgentTakesOver(t, st) ==
    /\ t <= setup.threads /\ st \in setup.takenOver
    /\ conv[t] \notin {st, "HUMAN_ACTIVE"}
    /\ conv' = [conv EXCEPT ![t] = st]
    /\ UNCHANGED <<setup, workVars, telegramVars, case, link, replyVars, gatewayVars, faults>>

Next ==
    \/ \E w \in Workers : WorkerStep(w) \/ WorkerFault(w)
    \/ \E t \in Threads : LeaseExpires(t)
    \/ \E c \in Consumers : ConsumerStep(c) \/ ConsumerFails(c)
    \/ \E u \in Updates : ResultLease(u) \/ ResultReject(u)
    \/ \E m \in Messages, text \in Texts : StaffReplies(m, text)
    \/ \E t \in Threads, confirms \in BOOLEAN, root \in 0 .. MaxCards : GatewayDecides(t, confirms, root)
    \/ \E takenOver \in BOOLEAN : GatewayCommits(takenOver)
    \/ \E t \in Threads, st \in Locked : AgentTakesOver(t, st)

Spec == Init /\ [][Next]_vars

\* Workers and consumers poll in endless loops; staff, customers and faults owe
\* nothing.
FairSpec ==
    /\ Spec
    /\ \A w \in Workers : WF_vars(WorkerStep(w))
    /\ \A c \in Consumers : WF_vars(ConsumerStep(c))
    /\ \A t \in Threads : WF_vars(LeaseExpires(t))
    /\ \A takenOver \in BOOLEAN : WF_vars(GatewayCommits(takenOver))

-----------------------------------------------------------------------------
(* Properties *)

\* A staff reply is queued for the customer at most once, however often Telegram
\* returns the update and however many consumers read it: the unique result row
\* is written before the transaction that queues the answer.
QueuedOnce == \A u \in Updates : queued[u] <= 1

\* Answers are queued in the order staff wrote them: a batch stops at the first
\* update that fails, so nothing overtakes it.
RepliesInOrder ==
    [][\A u, v \in Updates : u < v /\ queued[v] > 0 => queued'[u] = queued[u]]_vars

\* While no living worker loses its lease, the group sees one reminder per
\* thread: a reminder that may have gone out is never sent again, neither after
\* a crash nor after a lost answer.
RemindedOnce == \A t \in Threads : reminded[t] <= 1

\* Reminder numbers start at 2 and no two threads get the same one:
\* _next_followup_number_on_connection runs under the row lock of the case.
NumbersDistinct ==
    \A s, t \in Threads : followup[s].st # "none" /\ followup[t].st # "none" =>
        /\ followup[t].number > 1
        /\ s # t => followup[s].number # followup[t].number

\* A disputed case always has a reminder command of the disputing thread or of an
\* earlier one: the dispute and its reminder are written in one transaction.
DisputeHasReminder ==
    \A k \in Cards : case[k].st = "completion_disputed" =>
        \E t \in Threads : t > 1 /\ command[t].st # "none"

\* The rows of a case agree with what the customer and the group have seen: a staff
\* reply is queued once, a reminder is posted once under a number of its own, and a
\* dispute has its reminder.
CaseSound == TypeOK /\ QueuedOnce /\ RemindedOnce /\ NumbersDistinct /\ DisputeHasReminder

\* Without faults, a staff reply that is still to be read when its message is
\* recorded is queued for the customer, unless a human has a conversation.
RepliesAnswered ==
    \A u \in Updates :
        (/\ u <= Len(posted) /\ u > offset /\ link[posted[u].to] # 0
         /\ \A c \in Consumers : consumer[c].update # u)
            ~> (queued[u] > 0 \/ faults > 0 \/ \E t \in Threads : conv[t] \in Locked)

\* Every reminder command comes to an end: posted, cancelled, given up or
\* skipped, through retries, lost answers and crashes.
RemindersSettle ==
    \A t \in Threads \ {1} : command[t].st = "PENDING" ~> command[t].st \in {"SENT", "FAILED", "UNCERTAIN", "SKIPPED"}

\* A case comes to rest: recorded staff replies are answered to the customer, and the
\* commands of its reminders end.
CaseSettles == RepliesAnswered /\ RemindersSettle
=============================================================================
