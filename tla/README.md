# Verification of the AI customer-service workers

A customer writes in a LiveChat chat; a bot answers, looks things up in a
backend, and hands the chat over to a human agent when it must.  The program is
a set of Python workers (`src/app/workers`) that share MySQL tables and talk to
LiveChat, Telegram, a backend and an LLM.  Nearly everything that can go wrong
and that a unit test does not reach lies between the workers: each of them reads
a row, waits for an external service, and writes afterwards.  This directory
models that.

Paths below are relative to the repository root (`src/app/...`).

## 1. The system and its parts

| Part | State it keeps | Operations | Talks to |
|---|---|---|---|
| Receivers (`channels/livechat`, `api`) | `inbound_events` | insert under a unique `dedup_key`; an agent's public reply also marks the conversation `HUMAN_ACTIVE` and cancels queued rows | LiveChat webhook, polling |
| Gateway consumer (`workers/gateway_consumer.py`, `services/gateway.py`) | leases on `inbound_events`; `conversation_states`, `conversation_messages` | lease the head event of each chat, load the conversation, run the graph, commit one transaction | LLM, knowledge base |
| Sender (`workers/sender_worker.py`) | `outbound_messages` | lease the queued rows of a conversation, check who owns it, send, mark | LiveChat |
| External command worker (`workers/external_command_worker.py`) | `external_commands` | lease, check, execute (handoff, backend query, Telegram, pending-reply lookup), mark | LiveChat, backend, Telegram |
| External result consumer (`workers/external_result_consumer.py`) | `external_command_results` | lease, load the conversation, build the answer, commit one transaction | LLM |
| Idle timer (`workers/livechat_idle_timer.py`) | its keys in `slot_memory`; status `CLOSED` | ask a silent customer, say goodbye, close the chat; ask for a human when the LLM is down | LiveChat, LLM |
| Telegram reply consumer and cases | update offset, cases, messages | forward staff replies, follow up open cases | Telegram |
| Service runner (`workers/service_runner.py`) | tasks, `stop_event`, lease-recovery times | tick every worker for ever, recover leases, shut down | signals |
| Conversation graph and workflows (`graph`, `workflows`) | none of its own | decide the route, the reply, the next state and the commands | LLM |
| Menus (`services/livechat_menus.py`) | `slot_memory.livechat_menu` | take a click, a digit or a word for a button, show the next menu | LiveChat |
| Backend query (`services/backend_query_service.py`, `backends`) | a session token | find the player, read turnover records, conclude | backend |
| Daily report (`reporting/daily_chat_report`) | one audit row per report | collect the day's threads, classify, post a PDF | MySQL, LiveChat archives, Telegram |
| Knowledge base, knowledge administration, smoke tests, bootstrap, `app_v2` | own tables or none | retrieval, batch and command-line tools | |

Who owns a conversation is one column, `conversation_states.status`:
`AI_ACTIVE`, `WAITING_EXTERNAL` (bot), `HANDOFF_REQUESTED`, `HUMAN_ACTIVE`,
`CLOSED`.  Queued rows are `PENDING` or `RETRYABLE`, leased and cancelled alike
(`Takeover` writes `PENDING` for both); a lease is `locked_by` and
`lease_expires_at`, and marks and releases address a row by id only, never by
owner.

What is hard: leases that run out under a worker that is still waiting; state
read before an await and written after it; an agent who joins at any moment;
external effects that cannot be undone followed by local writes that may fail;
four autocommitted statements that belong together.  PROJECT.json lists these
hazards line by line.

What makes each part correct: events of a chat are answered once and in order;
a bot that has lost a conversation keeps quiet; a customer is told before being
transferred, and is transferred once; a handoff and a query come to an end; a
silent customer is warned, after the last message the timer has seen, before being
disconnected; a message of LiveChat
becomes one row, an agent's message never one to answer; the blocks of an answer
arrive in order; a money case becomes one card, and what staff reply to it
reaches the customer once and in order; a customer who disputes a conclusion
twice reaches a human; a button does what its label says; a report is posted
once.

## 2. Modules

A module `M_proofs` holds the theorems about `M` and their proofs (section 5);
`Standalone_proofs` those about the four components of `MCStandalone` and about
`ReportContent`, which details what one of them posts; `InboundQueue_proofs` also
those about `LivechatIngress`, which fills the queue.  `MCLivechatIngress` and
`MCReportContent`, which run and proof share, instantiate these two modules, assume
`Configured` of their constants and state what must be true of them.

An operator `X_Suffix` right before `X` (often `X_Variant`) is a deliberately
wrong version of `X`, used only to show that a property can fail.

Several modules have a variable `setup` (`topic` in Conversation) that is chosen
in `Init` from a constant set and never changes: which parties and messages there
are, how many faults, which settings hold.  One run then covers all setups, each
of them small.

### InboundQueue, refining ChatInbox

The table `inbound_events` by id (`key`, `processed`, `locked_by`,
`lease_expired`), the batches of gateway workers (`waiting` behind the
semaphore, `running` inside `process_event`) and, per chat, the log `applied` of
committed transactions, each with the log position its conversation was loaded
at.  Actions: `Insert`, `InsertDuplicate`, `LeaseUnprocessed`,
`LoadConversation`, `CommitEvent`, `FailEvent`, `Crash`, `LeaseExpires`,
`RecoverExpiredLeases`.  `LeaseOutlivesWork` chooses between the configured
intent (300 s leases outlast a graph run) and the worst case.  `ChatInbox` is
the promise: per chat a FIFO consumed once.

### Takeover, refining HumanControl

One conversation and the five parties that change it: gateway, sender, command
worker, result consumer, agent webhook.  Rows are named by the event they answer
and the transaction that wrote them.  The commit of gateway and consumer is one
step because it runs under the row lock of `get_or_create_on_connection`; the
webhook's INSERT and four UPDATEs are five steps because the connection
autocommits.  `HumanControl` is the promise: ownership moves from bot to human
and never back, and only an owner takes on work.  Rows of a leased group are
taken in any order, one row stands for the rows of an answer, and commands whose
acknowledgement is sent by the idle timer itself (`direct_notice`) are left to
IdleTimer.

### HumanHandoff

One `human_handoff.requested` command, statement by statement, for several
workers: check, stage record, transfer, the four stage records and the writes
between them, every `except` clause, the retry counter as MySQL computes it,
lost answers, crashes, leases that expire, and an agent's reply.

### IdleTimer

One thread, its customer, gateway, sender, workers and agent, and every
statement of a tick of the timer.  A tick works on the status and `slot_memory`
it fetched first.  Time is a counter that advances with messages; whether a
duration has passed is a choice.  Customer messages carry the time they were
written and become visible later.  The tick's last look at the messages and its call
of `deactivate_chat` are steps of their own, and a message may be stored between
them.  History variables: `silentSince`, the message a customer's silence is counted
from, which decides whether a warning they have received still counts; `sentAt`, when
each idle text was last sent; `seen`, the messages that were stored at the last look.
`WarnedBeforeClosing` speaks of the call that disconnects.

### OutboundSender

The `outbound_messages` of one conversation.  A setup lists the blocks of its
answers, one answer after another; a row is a block, and its id the block's
position.  `StoreAnswer` queues the blocks of a
turn, `SenderStep(w)` is the next statement of a sender (recover, lease a group,
check the owner, send, mark, release), `SenderMarkRaises` a failed write,
`SenderCrash` a dead worker, `AgentTakesOver` and `AgentCancels` the webhook.
Rows are ordered by `COALESCE(block_index, max)` and id; failures are classified,
counted and backed off as in `sender_worker.py`; images and menus fall back to
text.  A staff picture is first fetched from Telegram, and an answer 429 or 5xx, or
none, makes the row `RETRYABLE` whatever its count (`SenderPutOff`).  `shown` counts how
often the customer got each row, `putOff` how often Telegram put its picture off.

### TelegramCase

A case across threads of a chat: the card and the reminders (`WorkerStep`, with a
call that may fail before or after the group has seen the message), the reply
consumer with its update offset, result row and transaction (`ConsumerStep`,
`ConsumerFails`), the result consumer that leases and rejects the same rows,
staff who reply to any message, and the customer who disputes or confirms while
a turn is under way (`GatewayDecides`, `GatewayCommits`).  Texts are the classes
`telegram_case_status` tells apart.

### BackendDispute, SopWorkflow, TurnRouting, Conversation

The decision part of the assistant, bottom up, as pure operators on the state of
a turn: `BackendDispute` (conclusions remembered and disputed), `SopWorkflow`
(slots, policy, procedures, messages while an answer is awaited), `TurnRouting`
(fast paths of the gateway, the cases of other threads, router, guards, nodes,
handoff).  A text is the set
of patterns it matches; the LLM router and the slot planner may answer anything
their schema admits, and the guardrails are modelled.  `Conversation` puts them
to work: `Send`, `Receive` (read the row, inherit from the thread before),
`CommitTurn` or `SkipTurn`, `Execute*` (cards, queries, lookups, handoffs),
`ReadResult` and `CommitResult`, `StaffReply`.  Gateway and consumer read a row
and write it in a later step, as the program does; only the handoff lock is
compared in between.

A turn also gets the open money cases of the chat's other threads (`cases`, read
before the graph is called; which of them the database still yields for the text is
`eligible`).  A text that asks after a case (`AsksAfterCase`) is routed to the one it
can be about, before the LLM is asked (`_cross_thread_money_case_route`): the row takes
over its intent and waits, and a command `remind` goes out, one per case and thread.
`ExecuteReminder` moves the case to the thread (`current`), where its staff reply
arrives from then on.

### LivechatMenus

The menu tables, the detection of buttons by the gateway and by the graph, the
remembered menu, and the menus in flight: the context moves when a menu is
queued, the customer answers the menu on the screen.

### LivechatIngress

LiveChat (external), the webhook handlers and the polling cycle, call by call:
`WebhookStep` normalises, looks up groups and authors, inserts, notes the
takeover and answers 202; `PollStep` lists chats, reads each, inserts intro and
events.  Failures make LiveChat deliver again or end the cycle.  `list_chats` yields
one page of the newest chats, of whatever group (`chats_summary`); that they come in
the order they were started is what `sort_order: desc` asks of LiveChat.

### ReportDelivery and ReportContent

`ReportDelivery`: the scheduler container, runs by hand, the audit row
`start_once` claims, rendering, `send_document`, the marks, kills and restarts.
`ReportContent`: one chat over two days; messages are written, stored, recorded
and handed over while `RunStep` makes the queries of a run one by one and then
attaches, aggregates and classifies.  Three of the four sources are modelled.

### BackendQuery

One turnover query: `Execute` looks at the command and resolves the settings, `Login`, `Relogin`,
`Answered`, `Fails` and `RefusedTwice` are the calls, `SessionEnds` the backend.
`Conversation` treats the whole as `ExecuteQuery`.

### ServiceRunner

The tasks of the workers (`LoopHead`, `TickEnds`, `TickFails`, `TickHangs`,
`CallHangs`, `WorkerCancelled`) and `run_all_workers` (`Start`, `Signal`,
`SignalHandled`, `Cancel`, `MainWakes`, `GraceTimeout`, `Gathered`).  It is what the
fairness of all other modules rests on.  A tick may hang in an await, which leaves the
event loop to the others, or in a synchronous call (`urlopen` of Telegram and the
backend, the translation model), which keeps the loop: while `LoopFree` is false no
task, timer or signal handler runs.  A synchronous call that returns needs no state of
its own, because nothing else runs until it does.

### Composition

Each module has one shared table at its centre and includes the parties that
touch it.  Takeover takes from InboundQueue that a conversation's events are
processed one at a time and in order, which is what InboundQueue proves while
leases outlive work.  HumanHandoff details what Takeover treats as
`CommandTransfer` .. `CommandMarkSent`.  IdleTimer reduces the other workers to
what they do to status, slot memory, messages and queues.  LivechatIngress ends
where InboundQueue begins, with a row of `inbound_events`.  Conversation details
what Takeover calls a graph run and a result handler; OutboundSender details its
sender; TelegramCase details the card and the staff reply of Conversation, which
keeps only whether they happened; BackendQuery details its query.

### MCStandalone

ServiceRunner, BackendQuery, ReportDelivery and LivechatMenus share no variable
with each other or with the rest.  `MCStandalone` instantiates the four and lets
one of them run per behaviour (`part`), so one run checks them all; its
properties are conjunctions of those of the four modules.

## 3. Runs

| Run | Result | Shows |
|---|---|---|
| InboundQueue | pass | exclusive chats, current snapshots, order, no loss, refinement of ChatInbox, every event processed |
| Takeover | pass | `BotStaysOut`, at most one late message, acknowledgement before transfer |
| TakeoverLive | pass | refinement of HumanControl; queues drain; handoffs and queries resolve |
| HumanHandoff | pass | final statuses are true; calls bounded; a recorded transfer is not repeated; the command settles |
| IdleTimer | pass | both idle texts sent after the messages the timer has seen before it disconnects, no repeated texts, handoffs not taken back |
| IdleTimerTakeover | violation | the finding of section 4 |
| OutboundSender | pass | blocks in order; repeats only after a fault; retries within the limit but for pictures Telegram puts off; every row settles if the delays end |
| TelegramCase | pass | a staff reply is queued once, in order and in the end; one reminder per command, numbers distinct; a dispute has its reminder; every reminder command ends |
| Conversation | pass | one handoff per thread; a row that says it queries has a query under way; the second dispute of an unchanged conclusion reaches a human; no card beside a recorded case; only a thread's own handoff silences it; text does not drop a money case, whatever the LLM answers, or moves it only to a case it asks after; every query ends for the customer |
| LivechatIngress | pass | one row per message, agents are not customers, only a public reply takes over, intro first, every message stored unless its chat has left the page that polling lists, every agent takes over |
| ReportContent | pass | no customer message listed twice, none of the day lost, a handover reported as one |
| Standalone | pass | pool closed last, true exit code, shutdown ends and workers are independent unless a synchronous call hangs; conclusions follow from the pages read and every query ends; report posted at most once, `SENT` means posted, the scheduler goes on and without faults every report arrives; a pick means the item shown |

Bounds.  InboundQueue: two workers, two chats, three customer events (two in one
chat) and one ignored event, one crash, one failure, leases that outlive work;
order and exclusion need two events of a chat and two workers, batches need a
second chat.  That order and completeness hold without the assumption on leases
is proved (section 5).  Takeover: two customer events (a handoff and a message
after it), one agent's reply, one fault; with liveness one event and two faults.
HumanHandoff: two workers, `max_retries` 3 (the default); five faults while leases
outlive work, more than any path to a final status needs, or two faults and
leases that run out under a living worker, where a transfer may be repeated by
the second holder: `AttemptsBounded` and `RecordedTransferNotRepeated` speak of
the first setup only.  With `MaxRetries >= 4` `RecordedTransferNotRepeated` would
fail: after a mark that cleared the lease, the failing re-read makes the outer
`except` mark the row again while another worker already holds it.  IdleTimer:
two customer messages, one fault of the timer.

OutboundSender, five setups: blocks with a plain answer behind them, a text with a
menu, rows that cannot be sent, a staff picture under leases that run out, and one
that Telegram puts off three times; limit 2, so that a row is retried, exhausted,
and put off beyond the limit. TelegramCase, four setups: two replies with two
faults; two replies that decide and an agent who takes over; reminders of two later
threads by two workers; one reminder with a fault. Conversation, nine topics with
three or four customer messages from the classes the topic is about
(`MCConversation` lists them); a dispute needs a question, a conclusion and two
objections, and the LLM may take one of them for an independent question; a customer
who complains twice about a wait is handed over; a case is asked after in the next
thread twice, or once and closed by staff. LivechatIngress, seven setups: one
webhook handler with two events, two handlers that may die, a webhook whose
`get_chat` fails, two polled chats, polling of listed threads, polling with refused
details, and polling of two chats with a page of one; at most two events per chat
and two faults, none where a cycle lists both chats. ReportContent, four setups: two
or three messages in two threads over two days, each with one of the three sources
modelled. Standalone: three workers with up to two iterations or no limit; all five
windows, one record of each kind and a session that ends twice (once more than a
call is repeated); two and a half days, two topics, one run by hand, one fault;
three inputs, the depth of the menus.

Several properties are conjunctions of named parts about one table:
`SendsAccounted`, `CommandSound`, `CaseSound`, `CaseSettles`, `HandoffsSound`,
`MoneyCaseKept`, `RowsSound`, `DeliveriesTakeEffect`, `ReportSound`,
`RequestsResolve`, `RunnerSound`, `DeliverySound` and `Progress`; each begins with
the module's type invariant where it is an invariant.  Each other part has been broken
by its own wrong operator: PROJECT.json names one for each property, the modules
keep the others beside the definitions they get wrong.

Properties that need a condition say so in the formula.  `OneRowPerMessage` is
claimed while one of the receivers is deployed, `AgentIsNotCustomer` and
`EveryMessageStored` while `get_chat` answers a webhook, and of polling for chats that
are on the page `list_chats` returns (`OffThePage`), `AgentTakesOver` while
moreover no handler dies between insert and mark, `IntroFirst` while LiveChat does
not refuse the details of a chat and `list_chats` returns threads always or never
(an intro from a summary would follow messages read while there was none),
`SecondDisputeReachesHuman` for messages that are taken for a dispute and nothing
else (`DisputesAlone`, finding 18), except while the recheck pending in the row has
failed or was ordered for an earlier conclusion (finding 6),
`QueryingHasQuery` for rows that are not handed over (the handoff of a wait leaves
the stage as it was),
`TextKeepsMoneyCase`, part of `MoneyCaseKept`, but for texts that ask after the money
case of another thread, which lead to such a case only (`AskedAfter`),
`ShutdownEnds` and `WorkersIndependent` while no synchronous call hangs (`LoopFree`),
`PickMeansShownItem` without menus in FAQ answers, `HandoffReported` for the
sources that do not move rows between threads and `DayComplete` for the one that
reads the tables.  Section 4 lists what happens outside these conditions.

Deadlock is not checked where the system may really stop: bounded customers,
agents and faults leave nothing to do.

Fairness.  `run_periodic_worker` calls `tick` for ever and swallows exceptions,
and a tick that is not killed runs to its end: weak fairness of each worker's
steps.  Time passes: weak fairness of lease expiry.  Customers, agents,
deliveries, failures and crashes owe nothing.  `QueuesDrain`, `HandoffResolves`,
`QueryResolves`, `CommandSettles` and `EveryEventProcessed` use no other
assumption; the bound on faults is part of each.  The same holds for
OutboundSender and TelegramCase; how often Telegram puts a picture off is bounded like
the faults, the code does not bound it.  Conversation assumes, in
the topic that is about it, only that queries are executed and results read and
committed, nothing of the customer.
LivechatIngress: the polling loop goes on, and LiveChat repeats a webhook until
it is answered with 202.  ReportDelivery: the clock advances and a run that is not
killed goes on; a scheduled run is over before the next one is due.
BackendQuery: every call has a timeout.  ServiceRunner: while no synchronous call
hangs the event loop runs tasks that are ready, timers fire and signal handlers are
called; a tick that began may hang for ever, so workers are promised nothing beyond
their own loop.  Every synchronous call has a timeout (15 to 30 s by default), but that
of `urlopen` counts for each operation of the socket, so a peer that keeps sending a
little can hold the loop for as long as it likes: nothing is assumed of it.  Threads left behind by a cancelled
tick are not in the model.

## 4. Findings

**A takeover can be overwritten by the idle timer**
(`src/app/workers/livechat_idle_timer.py:210`, run IdleTimerTakeover).
`mark_closed` does not look at the status.  If an agent joins after the tick has
fetched its candidates, `HUMAN_ACTIVE` becomes `CLOSED`, and the next customer
message reopens the conversation for the bot.  README.md:122 says otherwise, and
PROJECT.json quotes it.

The models also reach the following deviations from what the repository's
documents, tests or comments say, or from what its operator would expect.  TLC has shown each of them on these modules
(with a setup that lifts the condition named in section 3, or a property stated
for the purpose); no run is kept for them.

1. **A transfer LiveChat has confirmed can be repeated**
   (`src/app/workers/external_command_worker.py:268`) when two local writes in a
   row fail: the mark `FAILED_AFTER_EXTERNAL_SUCCESS` raises into the outer
   `except`, which makes the command retryable.  README.md:121 says otherwise.
2. **The retry cap is one short** (`src/app/db/repositories.py:1311`): MySQL
   evaluates `SET` from left to right, so the `CASE` adds one to a counter that
   has been incremented.  The `--max-retries` help and the tests' fake count
   attempts.  The same statement is used for results.
3. **A staff reply can undo a dispute** (`src/app/workers/telegram_reply_consumer.py:118`):
   the new status is computed from the case as read and written unconditionally.
4. **The update offset passes a reply that failed**
   (`src/app/workers/telegram_reply_consumer.py:138`): its result row makes the
   next attempt a duplicate.
5. **An older thread can take the case's route back**
   (`src/app/db/telegram_repositories.py:241`) when reminders are processed out of
   order.
6. **`backend_recheck_pending` is never removed** (`src/app/db/repositories.py:2521`):
   the merge of slot memory keeps it, and after a changed conclusion later
   disputes are only queued.
7. **A menu button opens a second case** (`src/app/services/gateway.py:621`) until the
   first card is recorded.
8. **A deposit's picture completes a withdrawal case**
   (`src/app/workflows/llm_sop_dialogue_planner.py:265`).
9. **A turn puts back the workflow state a result has changed**
   (`src/app/db/repositories.py:2820`).
10. **Numbers of a menu in a FAQ answer are looked up in another menu**
    (`src/app/services/faq_outbound_plan.py:127`).
11. **Webhook and polling together store every message twice**
    (`src/app/channels/livechat/normalizer.py:26`).
12. **An agent's reply is stored as a customer's** when `get_chat` fails
    (`src/app/channels/livechat/webhook_normalizer.py:582`).
13. **A takeover is lost** if the handler dies between insert and mark
    (`src/app/db/repositories.py:70`).
14. **A handover in a later thread is not reported**
    (`src/app/reporting/daily_chat_report/repository.py:465`).
15. **A staff reply is listed as the bot's**
    (`src/app/reporting/daily_chat_report/repository.py:121`).
16. **Threads with only a menu are missing from the report**
    (`src/app/reporting/daily_chat_report/repository.py:675`).
17. **A backend call refused twice counts as an empty answer**
    (`src/app/backends/tac_client.py:342`).
18. **Some disputes order no recheck** (`src/app/graph/nodes.py:641`): while a money
    case awaits its answer, together with a change of the wallet but no name, or as
    the text of a menu button, a dispute at most marks the row as disputed.  With two
    of them nobody looks at the conclusion again.
19. **A staff picture is retried without limit** (`src/app/workers/sender_worker.py:49`)
    while Telegram puts off its download: a retryable `TelegramApiError` is
    repeated whatever `LIVECHAT_SEND_MAX_RETRIES` says.
20. **A customer who has just answered is disconnected**
    (`src/app/workers/livechat_idle_timer.py:570`): a message stored between the last
    look and `deactivate_chat` does not stop the call.
21. **A text that asks after a payment moves a customer in the middle of one money case
    to another thread's case** (`src/app/graph/nodes.py:938`); the case they were in
    stays open with staff, but nothing in the row tells of it.
22. **Polling never reads the chats beyond one page** (`src/app/channels/livechat/polling_receiver.py:302`):
    `list_chats` returns the 20 newest chats of all groups, and messages that arrive in
    an older one are not stored while as many newer chats are listed.
23. **A synchronous call stops the whole service** while it lasts
    (`src/app/workers/external_command_worker.py:548`, 668, 687, 757, and
    `src/app/workers/telegram_reply_consumer.py:472`): no worker ticks, a signal is not
    handled and `--shutdown-timeout-seconds` does not run.

## 5. Proofs

Every theorem is about the whole `Spec` and holds for every value of the
constants.  Nothing is assumed but the named `ASSUME` of the module proved about
(types of the constants, and in Conversation one or two threads of a chat) and
the hypotheses named below; the bounds of the models (messages, faults, retries)
are arbitrary numbers.  Each module states an inductive invariant, proves that
every action keeps it (one lemma per action or group of actions, one step per
conjunct that the action can disturb), and derives the properties.

| Module | Theorems | Run property |
|---|---|---|
| InboundQueue_proofs | `TypeCorrect`, `FifoPerChat`, `NothingDropped`, `ChatsExclusive`, `SnapshotsCurrent`, `QueueImplementsChatInbox`, `RowsTellTheChat` | `TypeOK`, `ProcessedInOrder`, `NoEventDropped`, `ExclusiveChat`, `SnapshotIsCurrent`, `ImplementsChatInbox`, `RowsSound` |
| Takeover_proofs | `TypeCorrect`, `LateMessages`, `AckFirst`, `BotKeepsOut`, `ConversationImplementsHumanControl` | `TypeOK`, `OneLateMessageAtMost`, `AckPrecedesTransfer`, `BotStaysOut`, `ImplementsHumanControl` |
| HumanHandoff_proofs | `CommandIsSound`, `TransferOnce` | `CommandSound`, `RecordedTransferNotRepeated` |
| Standalone_proofs | `SupervisorEndsInOrder`, `RepliesFollow`, `ReportPostedOnce`, `PicksAreUnderstood`, `ReportIsTrue` | `RunnerSound`, `ConclusionsFollow`, `DeliverySound`, `PickMeansShownItem`, `ReportSound` |
| OutboundSender_proofs | `ShowingsAndRetriesAccounted`, `BlocksInOrder` | `SendsAccounted`, `InOrder` |
| IdleTimer_proofs | `TypeCorrect`, `RepetitionsPaid`, `ClosedOnlyWarned`, `HandoffsKept` | `TypeOK`, `NoRepeatedText`, `WarnedBeforeClosing`, `HandoffNotTakenBack` |
| TelegramCase_proofs | `CaseIsSound`, `AnswersFollowStaff` | `CaseSound`, `RepliesInOrder` |
| Conversation_proofs | `RowsInvariant`, `HandoffsStay`, `QueriesOutstanding`, `MoneyCasesKept`, `DisputesReachHuman` | `HandoffsSound`, `QueryingHasQuery`, `MoneyCaseKept`, `SecondDisputeReachesHuman` |

**InboundQueue.**  `TypeCorrect`, `FifoPerChat` and `NothingDropped` need no
assumption on leases.  `ProcessedInOrder` alone is not inductive: a commit marks a
row whatever has happened since it was leased.  `QueueInv` adds that every row a
worker holds, even under a lost lease, has only processed predecessors
(`HeldIdsAreHeads`); a row once processed stays so, and new rows come last.
`ChatsExclusive` and `SnapshotsCurrent` hold while leases outlive work, which is
part of the properties: `LeaseInv` adds that then a held row is unprocessed and
leased to its holder (`HeldUnderLease`), is held once, and that logs hold processed
rows only.  Two held rows of a chat would both be heads, so they are one row; a
snapshot stays current because nobody else can commit in the chat.  For the
refinement, `CommitEvent` consumes the oldest unconsumed event because the held
row is a head and the log is exactly the processed events.

**Takeover.**  `OneLateMessageAtMost` is not inductive: it needs that a sender
which is about to send has not yet been late, and that a late message has a
takeover before it (`LateCount`).  `TakenIsHuman` ties the history variable to the
status column, `GroupUnsent` and `HeldIsWritten` say what the workers' local
copies still agree on with the tables.  `BotStaysOut` and the refinement of
HumanControl are proved step by step from them.

**HumanHandoff.**  `CommandSound` bounds the calls by the retry counter.  `Budget`
is its inductive form: calls made, calls the workers may still make in the pass
they are in, and passes that are left never exceed the limit plus the faults that
are not counted.  `Truthful` says that no worker and no recorded stage is ahead of
what LiveChat did.  `TransferOnce` needs that only one worker is in a pass
(`OnePass`) and knows whether a transfer was recorded (`StageKnown`).  That is
false for `MaxRetries >= 4`, and the theorem assumes `MaxRetries <= 3`, the
default being 3.

**ServiceRunner, BackendQuery, ReportDelivery** (`Standalone_proofs`), each with an
invariant of its own: a stop has a reason that shows in the exit status, and a
worker ends early only because of a stop (`StopHasReason`, `StatusTells`,
`DoneIsExhausted`), hanging calls or not; the pages read so far show no requirement that is open, and
there are as many as windows passed less refusals (`ReadingWindows`); no two runs
hold the same report, and how often it is in the group follows from how far the
run that claimed it has come (`RunsApart`, `PostedByClaim`).

**LivechatMenus and ReportContent** (also `Standalone_proofs`).  A pick means the
item shown because the memory from which the gateway will read the customer's next
pick is of the menu on the screen once every queued menu is delivered
(`MemoryKnowsScreen`), and what a customer who waited wrote is the next input, made on
the menu that the memory is of (`PatientIsNext`).  That fails when a knowledge answer brings a menu, which reaches
the screen only, so `PicksAreUnderstood` assumes that there are none
(`FaqMenus = {}`, as in the run).  For the report, tables only grow while a run reads
them (`TablesGrow`), so what each query found stays true of the tables
(`ReadingSound`): rows read from the tables are of the day and one for each message
(`ReadFromTables`, `OneRowEach`), the second query finds what the first could not
have seen (`NothingMissed`), and the commands tell of every handover (`HandoffsRead`).

**LivechatIngress** (last part of `InboundQueue_proofs`).
What is in a webhook, a request under way, a polling cycle or a row agrees with the
threads of LiveChat, which only grow (`HookTrue`, `HandlerTrue`, `PollTrue`,
`RowTrue`).  One row per message needs more than the unique `dedup_key`, which has
the action in it: the first event of a chat is told by the webhook of the chat or by
one of its own, never by both (`FirstToldOnce`).  Which chats a cycle lists does not
matter for the rows, only for what is stored in the end.  `IntroFirst` needs that a cycle
that is about to store messages has the intro among them or stored, or that none will
ever come (`IntroKept`).

**OutboundSender.**  While leases outlive work one sender at a time works on the
conversation (`OneWorking`), its group contains whatever goes before its rows
(`GroupIsFirst`), and leases do not overlap (`LeasesApart`); `InOrder` follows.
`ShownByFaults` strengthens the bound on showings: while a row can still be called
it has been shown at most `faults` times, and only the call that settles it adds
one.  `RetriesKnown` does the same for the retry counter, which a worker computes
from the value it leased: it stays below the limit but for faults and for the times
Telegram has put the row's picture off (`putOff`), which the code counts without
looking at the limit.

**IdleTimer.**  `NoRepeatedText` counts; the invariant behind it is an account
(`RepeatsPaid`): repetitions made, and one for every text that a slot memory in
the table or in a worker's hands has forgotten, are paid for by faults and by
messages of the customer.  `ClosedOnlyWarned` is about the step that calls
`deactivate_chat`.  Whatever fails, `Sendings` holds: a text that a slot memory in the
table, in the gateway or in the tick knows was sent after the message the cycle counts
from, and at the call no message seen at the last look is newer than that.  Without
faults `Warnings` adds that each such text was received in the silence that is
counted, or a stored message has voided the cycle, and `StillWarned` carries this from
the look to the call; a message stored between the two is in neither.

**TelegramCase.**  A reminder is out only when its row says it may be
(`RemindersInOrder`), numbers are distinct and bounded so that a fresh one exists,
one consumer delivers a result row once (`AnswersInOrder`), and a disputed status,
in the table or carried by a consumer, has its reminder (`DisputesInOrder`).
`RepliesInOrder` is proved for one consumer, which the theorem assumes and the
service starts; with two, one that stalls before its delivery is overtaken.

**Conversation.**  What a turn may do to a row is proved once, for any message, any
answer of the LLM router and any plan (`TurnSound`: a handoff is asked for exactly
when the row is locked, a row that queries has ordered its query, a card comes only
where no case is recorded; `TurnKeepsCase`: a text in a money case does not end it,
unless it asks after the case of another thread).  A turn that continues another
thread's case is the turn of a row that was in that case already, so each lemma about
turns is proved for every such row (`Origins`).  What a result handler may do is
proved likewise (`Applied`).  The invariant adds what the interleaving needs: a turn that was not overtaken holds the row as it is
(`AgedKnown`), commands, results and cards belong to threads that have been written
and inherit no more (`OnlyOfWritten`), and a recorded case is in its row
(`CaseRecorded`).

`DisputesReachHuman` needs more of a turn: for any message and any answer of the LLM
it leaves what the row remembers of disputes as it is, forgets all of it, or leaves a
recheck pending (`Undisputed`, `Rechecked`), and a message taken for a dispute alone
does the last and asks for a query unless one is awaited (`TurnDecided`).
`SecondDisputeReachesHuman` is not inductive.  `DisputeInv` adds, for each row that
was not written from an older read, that once one event has disputed a conclusion a
recheck is pending, that after a second one the row says so (`queued`), so that the
answer hands the conversation over, that a row with a conclusion or a query knows the
player whom a recheck must name, and that a row which awaits the blocked-withdrawal
answer has a query or answer under way (`DisputesSettled`); that cards and results of
cases carry the intent of a money SOP, so that they never claim to await a query
(`CasesOfMoney`); and that a result not overtaken holds the row as it is
(`ReadsKnown`).

**Only model-checked.**

* Liveness: `EveryEventProcessed`, `QueuesDrain`, `RequestsResolve`,
  `CommandSettles`, `EveryRowSettles`, `CaseSettles`, `QueryEnds`,
  `DeliveriesTakeEffect`, `Progress`.  Proofs under fairness need ENABLED, which the
  prover does not support.
* `GatewayStaysOut` is refuted (section 4).

Attempting the proofs corrected models and properties: the warnings of IdleTimer
count from `silentSince`; `QueryingHasQuery` and `QueryEnds` except rows that were
handed over while a query was awaited; `SecondDisputeReachesHuman` excepts a recheck
that is still pending when it failed, whatever the stage, or was ordered for an
earlier conclusion, and counts the messages that are taken for a dispute alone;
`IntroFirst` excepts a
`list_chats` that returns the thread at some times only.

## 6. Not modelled, and simplifications

* Ids are taken in the order rows become visible; an AUTO_INCREMENT id assigned
  earlier but committed later is not modelled.
* Texts are the patterns they match; reply wording, templates, languages and
  prompts are left out, and the LLM may answer anything its schema admits.
  Amounts, references and dates in slots are not kept.
* Knowledge retrieval and ranking (text similarity, no concurrent state);
  `telegram.append_to_case`; postbacks and lifecycle webhooks that only store a
  row; authentication of the webhook; uploads.
* Streamed replies (`_maybe_stream_official_livechat_text`) that reach the customer
  before the gateway's transaction.
* Graph checkpoints and run records: rows nobody reads back.
* The report source `lingxi_archive`, whose tables another program fills;
  translation and layout of the PDF.
* `query_deposit` and `query_player_contribution`, which only a probe tool calls,
  and the alternative field names of backend answers.
* A second cancellation of `run_all_workers` while it handles the first.
* Schema bootstrap, seeds, smoke tests and administration commands run once by
  hand; `app_v2` is a skeleton nothing calls.
* Clock skew between LiveChat and the workers.

Some states the models reach are accepted by the code, and no document of the
repository promises otherwise: an event that always fails blocks its chat (inbound
events have no retry cap); a late message can keep the idle timer from ever
closing a thread, and `idle_closed_at` outlives a reopened conversation; a card
whose picture fails is posted again and replies to the first one match no case; a
card Telegram refuses for good leaves the conversation waiting; a report run that
is killed after `start_once` is never taken over; a customer message written before
an idle text was stamped but delivered after it does not count as activity once the
cycle restarts, so the customer may be closed on warnings they had before that message
arrived.

## 7. Plan

1. Streaming in Takeover; `telegram.append_to_case` in TelegramCase.
2. Stale leases in TelegramCase, and both receivers at once in LivechatIngress, if
   the code learns to handle them.
3. A per-conversation ordered outbox as the abstract specification of
   OutboundSender.
