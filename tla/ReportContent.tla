---------------------------- MODULE ReportContent ----------------------------
(***************************************************************************)
(* What a daily chat report says of one chat: the rows that the receivers, *)
(* the gateway and the sender leave in the tables, the queries that a run  *)
(* of app.reporting.daily_chat_report makes while they go on writing, and  *)
(* the threads and categories of the report.  Delivery of the report is    *)
(* module ReportDelivery.                                                  *)
(*                                                                         *)
(* The position of a message in msgs is its time; days are those of the    *)
(* report's time zone.  The text of a message is its kind.                 *)
(*                                                                         *)
(* Operators named X_Variant are plausible bugs of X; nothing uses them.   *)
(***************************************************************************)
EXTENDS Naturals, Sequences, FiniteSets

CONSTANTS
    Threads,       \* threads of the chat
    MaxDay,        \* bound: days; the report is for day 1
    Setups         \* by name: source of the report, kinds of messages and bounds

\* Customer: "text", "asks" (for a human).  Posted by the sender with the bot's
\* account: "bot", "transfer" (announces a transfer), "menu" (a rich message), "staff"
\* (a reply of the staff in Telegram).  Written by a person in LiveChat: "agent".
CustomerKinds == {"text", "asks"}
SelfKinds == {"bot", "transfer", "menu", "staff"}
AllKinds == CustomerKinds \cup SelfKinds \cup {"agent"}
Sources == {"lingxi", "lingxi_db", "ai_customer_service"}
Date == 1

\* What the constants may be.
Configured ==
    /\ MaxDay \in Nat \ {0}
    /\ \A s \in DOMAIN Setups :
          /\ Setups[s].source \in Sources /\ Setups[s].kinds \subseteq AllKinds
          /\ Setups[s].lookupMayFail \in BOOLEAN
          /\ Setups[s].msgs \in Nat /\ Setups[s].handoffs \in Nat

VARIABLES
    setup,    \* the name of one of Setups, for ever
    day,      \* today
    msgs,     \* the messages of the chat, as LiveChat keeps them
    cm,       \* messages with a row in conversation_messages
    ie,       \* messages with a row in inbound_events
    bare,     \* those of ie whose row has no group
    cmds,     \* threads and days of handoff commands in external_commands
    handed,   \* threads whose conversation_states row says HANDOFF_REQUESTED or
              \* HUMAN_ACTIVE, with the day of its updated_at
    run       \* the run of the report

vars == <<setup, day, msgs, cm, ie, bare, cmds, handed, run>>

Source == Setups[setup].source    \* --source: "lingxi" (LiveChat archives), "lingxi_db" or
                                  \* "ai_customer_service"
Kinds == Setups[setup].kinds      \* kinds of messages that are written
LookupMayFail == Setups[setup].lookupMayFail  \* the webhook may store an event without its group
MaxMsgs == Setups[setup].msgs     \* bound: messages
MaxHandoffs == Setups[setup].handoffs  \* bound: handoff commands

Ids == 1 .. Len(msgs)
On(d) == {i \in Ids : msgs[i].day = d}
Kind(i) == msgs[i].kind
Self(i) == Kind(i) \in SelfKinds
Customer(i) == Kind(i) \in CustomerKinds
Row(i, from, role) == [msg |-> i, from |-> from, role |-> role, thread |-> msgs[i].thread]
Unread == [read |-> FALSE, threads |-> {}]
Read(threads) == [read |-> TRUE, threads |-> threads]

\* A run before its first query; stored is history: the messages and commands in
\* the tables when the queries began.
NoRun == [pc |-> "none", cand |-> {}, rows |-> {}, meta |-> Unread, commands |-> Unread,
          states |-> Unread, stored |-> {}, ordered |-> {}, report |-> {}]

Roles == {"customer", "assistant", "agent"}
Categories == {"BOT_COMPLETED", "ROBOT_HANDOFF", "CUSTOMER_MANUAL_HANDOFF"}
TypeOK ==
    /\ day \in 1 .. MaxDay
    /\ msgs \in Seq([kind : Kinds, thread : Threads, day : 1 .. MaxDay]) /\ Len(msgs) <= MaxMsgs
    /\ cm \subseteq Ids /\ bare \subseteq ie /\ ie \subseteq Ids
    /\ cmds \subseteq Threads \X (1 .. MaxDay) /\ handed \subseteq Threads \X (1 .. MaxDay)
    /\ run.pc \in {"none", "candidates", "conversation", "inbound", "staff", "archives", "fetched", "done"}
    /\ run.cand \subseteq Threads
    /\ \A row \in run.rows : row.msg \in Ids /\ row.role \in Roles /\ row.thread \in Threads
    /\ \A t \in run.report : t.thread \in Threads /\ t.category \in Categories
----------------------------------------------------------------------------
(* The tables, as the rest of the program fills them *)

Init ==
    /\ setup \in DOMAIN Setups
    /\ day = 1 /\ msgs = <<>> /\ cm = {} /\ ie = {} /\ bare = {}
    /\ cmds = {} /\ handed = {} /\ run = NoRun

Midnight == day < MaxDay /\ day' = day + 1 /\ UNCHANGED <<setup, msgs, cm, ie, bare, cmds, handed, run>>

Post(k, t) == msgs' = Append(msgs, [kind |-> k, thread |-> t, day |-> day])

\* The sender posts a message and mark_sent_with_message writes its row, with the
\* role assistant whatever the message is.
SenderPosts(k, t) ==
    /\ k \in SelfKinds /\ Len(msgs) < MaxMsgs
    /\ Post(k, t)
    /\ cm' = cm \cup {Len(msgs) + 1}
    /\ UNCHANGED <<setup, day, ie, bare, cmds, handed, run>>

\* A customer or a person in LiveChat writes; the webhook has not been called yet.
PersonWrites(k, t) ==
    /\ k \notin SelfKinds /\ Len(msgs) < MaxMsgs
    /\ Post(k, t)
    /\ UNCHANGED <<setup, day, cm, ie, bare, cmds, handed, run>>

\* The webhook stores an event, the echo of the program's own messages too; when the
\* lookup of the chat fails the row has no group.
WebhookStores(i) ==
    /\ i \in Ids \ ie
    /\ ie' = ie \cup {i}
    /\ \/ UNCHANGED bare
       \/ LookupMayFail /\ bare' = bare \cup {i}
    /\ UNCHANGED <<setup, day, msgs, cm, cmds, handed, run>>

\* The gateway records the message of a customer; rows without a group are ignored.
GatewayRecords(i) ==
    /\ i \in ie \ (bare \cup cm) /\ Customer(i)
    /\ cm' = cm \cup {i}
    /\ UNCHANGED <<setup, day, msgs, ie, bare, cmds, handed, run>>

\* The graph hands a thread over: the command and the state are one transaction.
HandOff(t) ==
    /\ \E i \in cm : msgs[i].thread = t
    /\ <<t, day>> \notin cmds /\ Cardinality(cmds) < MaxHandoffs
    /\ cmds' = cmds \cup {<<t, day>>}
    /\ handed' = {h \in handed : h[1] # t} \cup {<<t, day>>}
    /\ UNCHANGED <<setup, day, msgs, cm, ie, bare, run>>

\* Another turn rewrites the state row of a thread that a human has.
Rewrite(t) ==
    /\ \E h \in handed : h[1] = t /\ h[2] # day
    /\ handed' = {h \in handed : h[1] # t} \cup {<<t, day>>}
    /\ UNCHANGED <<setup, day, msgs, cm, ie, bare, cmds, run>>

\* The handoff is over: the conversation is closed or given back to the bot.
Resume(t) ==
    /\ \E h \in handed : h[1] = t
    /\ handed' = {h \in handed : h[1] # t}
    /\ UNCHANGED <<setup, day, msgs, cm, ie, bare, cmds, run>>
----------------------------------------------------------------------------
(* The queries of a run, each of them a step *)

\* Threads in which the bot wrote on the day, by either table.
BotThreads == {msgs[i].thread : i \in {j \in On(Date) : Self(j) /\ (j \in cm \/ j \in ie)}}

\* _fetch_candidate_threads
StartRun ==
    /\ run.pc = "none"
    /\ run' = [run EXCEPT !.pc = IF Source = "lingxi" THEN "archives" ELSE "conversation",
                          !.cand = IF Source = "ai_customer_service" THEN Threads ELSE BotThreads,
                          !.stored = (cm \cup ie) \cap On(Date),
                          !.ordered = {c[1] : c \in {x \in cmds : x[2] = Date}}]
    /\ UNCHANGED <<setup, day, msgs, cm, ie, bare, cmds, handed>>

\* _fetch_conversation_messages: the rows of the day, if the bot wrote in the chat.
CmRows ==
    {Row(i, "cm", IF Customer(i) THEN "customer" ELSE "assistant") : i \in cm \cap On(Date)}

FetchConversation ==
    /\ run.pc = "conversation"
    /\ run' = [run EXCEPT !.pc = IF run.cand = {} \/ Source = "ai_customer_service"
                                 THEN "fetched" ELSE "inbound",
                          !.rows = IF run.cand = {} THEN {} ELSE CmRows]
    /\ UNCHANGED <<setup, day, msgs, cm, ie, bare, cmds, handed>>

\* Only the threads in which the bot wrote, not all those of the chat.
InboundRows_Variant ==
    {Row(i, "ie", IF Self(i) THEN "assistant" ELSE IF Customer(i) THEN "customer" ELSE "agent")
        : i \in {j \in ie \cap On(Date) : (Self(j) \/ j \notin bare) /\ msgs[j].thread \in run.cand}}

\* _fetch_inbound_event_messages and _sender_role_from_inbound_event: own messages
\* whatever their ignore_reason, and those of persons that were not ignored for their group.
InboundRows ==
    {Row(i, "ie", IF Self(i) THEN "assistant" ELSE IF Customer(i) THEN "customer" ELSE "agent")
        : i \in {j \in ie \cap On(Date) : Self(j) \/ j \notin bare}}

\* The inbound rows without the test for what the conversation holds already.
NewInbound_Variant == InboundRows

\* Rows of inbound_events that no row of conversation_messages points to: only the
\* messages of customers carry an inbound_event_id.
NewInbound ==
    {row \in InboundRows : ~ \E seen \in run.rows : seen.msg = row.msg /\ Customer(row.msg)}

FetchInbound ==
    /\ run.pc = "inbound"
    /\ run' = [run EXCEPT !.pc = "staff", !.rows = @ \cup NewInbound]
    /\ UNCHANGED <<setup, day, msgs, cm, ie, bare, cmds, handed>>

\* _fetch_outbound_staff_reply_messages: until a day after the end of the window,
\* without those that the conversation rows hold already.
StaffRows ==
    {Row(i, "out", "agent") : i \in {j \in On(Date) \cup On(Date + 1) :
        Kind(j) = "staff" /\ ~ \E seen \in run.rows : seen.msg = j /\ seen.from = "cm"}}

\* The rows lose their thread instead of getting the first one.
_attach_followup_messages_to_lingxi_threads_Variant(rows) ==
    {[row EXCEPT !.thread = IF Self(row.msg) THEN @ ELSE "none"] : row \in rows}

\* _attach_followup_messages_to_lingxi_threads: from the first message of the bot on,
\* all rows of the chat go to its thread.
_attach_followup_messages_to_lingxi_threads(rows) ==
    LET bot == {row \in rows : row.role = "assistant"}
        first == CHOOSE row \in bot : \A other \in bot : row.msg <= other.msg
    IN  IF bot = {} THEN rows
        ELSE {[row EXCEPT !.thread = IF row.msg < first.msg THEN @ ELSE first.thread] : row \in rows}

FetchStaff ==
    /\ run.pc = "staff"
    /\ run' = [run EXCEPT !.pc = "fetched",
                          !.rows = _attach_followup_messages_to_lingxi_threads(@ \cup StaffRows)]
    /\ UNCHANGED <<setup, day, msgs, cm, ie, bare, cmds, handed>>

\* list_archives for a candidate thread, _message_rows_from_livechat_chat and
\* _sender_role_from_livechat_event: its messages and files, no rich messages, until a
\* day after the end of the window.
ArchiveRows(t) ==
    {Row(i, "api", IF Self(i) THEN "assistant" ELSE IF Customer(i) THEN "customer" ELSE "agent")
        : i \in {j \in On(Date) \cup On(Date + 1) : msgs[j].thread = t /\ Kind(j) # "menu"}}

FetchArchive ==
    /\ run.pc = "archives"
    /\ IF run.cand = {}
       THEN run' = [run EXCEPT !.pc = "fetched"]
       ELSE \E t \in run.cand :
               run' = [run EXCEPT !.cand = @ \ {t}, !.rows = @ \cup ArchiveRows(t)]
    /\ UNCHANGED <<setup, day, msgs, cm, ie, bare, cmds, handed>>

Fetching == run.pc \in {"conversation", "inbound", "staff", "archives", "fetched"}

\* fetch_metadata and _metadata_by_thread: the group of a thread is that of its last
\* inbound row of the day; the archives name the group of the chat.
LastInbound(t) ==
    LET rows == {i \in ie \cap On(Date) : msgs[i].thread = t}
    IN  {i \in rows : \A j \in rows : j <= i}

FetchMetadata ==
    /\ Fetching /\ ~run.meta.read
    /\ run' = [run EXCEPT !.meta = Read(
          CASE Source = "lingxi" -> {t \in Threads : BotThreads # {}}
            [] Source = "lingxi_db" ->
                  {t \in Threads : BotThreads # {} /\ LastInbound(t) # {} /\ LastInbound(t) \cap bare = {}}
            [] OTHER -> {t \in Threads : LastInbound(t) # {} /\ LastInbound(t) \cap bare = {}})]
    /\ UNCHANGED <<setup, day, msgs, cm, ie, bare, cmds, handed>>

\* fetch_handoff_commands: commands of the day, in threads where the bot wrote.
FetchCommands ==
    /\ Fetching /\ ~run.commands.read
    /\ run' = [run EXCEPT !.commands = Read(
          {t \in Threads : <<t, Date>> \in cmds /\ (Source = "ai_customer_service" \/ t \in BotThreads)})]
    /\ UNCHANGED <<setup, day, msgs, cm, ie, bare, cmds, handed>>

\* fetch_states: the states as they are now, in threads where the bot wrote; the plain
\* source takes those that were last updated on the day.
FetchStates ==
    /\ Fetching /\ ~run.states.read
    /\ run' = [run EXCEPT !.states = Read(
          {h[1] : h \in {x \in handed : IF Source = "ai_customer_service" THEN x[2] = Date
                                                                        ELSE x[1] \in BotThreads}})]
    /\ UNCHANGED <<setup, day, msgs, cm, ie, bare, cmds, handed>>
----------------------------------------------------------------------------
(* The report *)

_has_robot_handoff_signal(t) == t \in run.commands.threads \cup run.states.threads
_has_robot_handoff_message(rows) ==
    \E row \in rows : row.role # "customer" /\ Kind(row.msg) = "transfer"
_has_customer_manual_handoff_signal(rows) ==
    \E row \in rows : row.role = "customer" /\ Kind(row.msg) = "asks"
_has_human_agent_message(rows) == \E row \in rows : row.role = "agent"

\* The wish of the customer is looked at before the handoff of the bot.
classify_thread_Variant(t, rows) ==
    IF \/ _has_customer_manual_handoff_signal(rows) \/ _has_human_agent_message(rows)
    THEN "CUSTOMER_MANUAL_HANDOFF"
    ELSE IF \/ _has_robot_handoff_signal(t) \/ _has_robot_handoff_message(rows)
         THEN "ROBOT_HANDOFF" ELSE "BOT_COMPLETED"

\* classify_thread: the handoff of the bot comes first, then what the customer asked
\* for, then an answer of a person.
classify_thread(t, rows) ==
    IF _has_robot_handoff_signal(t) \/ _has_robot_handoff_message(rows) THEN "ROBOT_HANDOFF"
    ELSE IF _has_customer_manual_handoff_signal(rows) THEN "CUSTOMER_MANUAL_HANDOFF"
    ELSE IF _has_human_agent_message(rows) THEN "CUSTOMER_MANUAL_HANDOFF"
    ELSE "BOT_COMPLETED"

\* aggregate_threads: a thread without a known group is left out, and with the
\* archives one in which the bot did not write either.
aggregate_threads ==
    LET rows(t) == {row \in run.rows : row.thread = t}
        listed == {t \in Threads :
                      /\ rows(t) # {} /\ t \in run.meta.threads
                      /\ Source = "lingxi" => \E row \in rows(t) : row.role = "assistant"}
    IN  {[thread |-> t, category |-> classify_thread(t, rows(t)), rows |-> rows(t)] : t \in listed}

\* asyncio.gather has all four answers.
Aggregate ==
    /\ run.pc = "fetched" /\ run.meta.read /\ run.commands.read /\ run.states.read
    /\ run' = [run EXCEPT !.pc = "done", !.report = aggregate_threads]
    /\ UNCHANGED <<setup, day, msgs, cm, ie, bare, cmds, handed>>

RunStep ==
    \/ StartRun \/ FetchConversation \/ FetchInbound \/ FetchStaff \/ FetchArchive
    \/ FetchMetadata \/ FetchCommands \/ FetchStates \/ Aggregate

Next ==
    \/ Midnight
    \/ \E k \in Kinds, t \in Threads : SenderPosts(k, t) \/ PersonWrites(k, t)
    \/ \E i \in Ids : WebhookStores(i) \/ GatewayRecords(i)
    \/ \E t \in Threads : HandOff(t) \/ Rewrite(t) \/ Resume(t)
    \/ RunStep

Spec == Init /\ [][Next]_vars
----------------------------------------------------------------------------
Listed == UNION {t.rows : t \in run.report}
Done == run.pc = "done"

\* A customer's message is in the report once at most, although both tables hold it
\* and the gateway may add its row between the two queries.
CustomerListedOnce ==
    Done => \A q, r \in Listed : q.msg = r.msg /\ Customer(q.msg) => q = r

\* What the tables held when the run began is in the report: a message of a day on
\* which the bot wrote in the chat is left out only with a thread whose group is unknown
\* (source lingxi_db; the others leave out more).
DayComplete ==
    Done /\ Source = "lingxi_db" /\ run.cand # {} =>
        \A i \in run.stored : (Self(i) \/ i \notin bare) =>
            \E row \in run.rows : row.msg = i /\ (row \in Listed \/ row.thread \notin run.meta.threads)

\* A thread that the bot handed over that day is filed under ROBOT_HANDOFF if it is
\* in the report, wherever its rows are listed (lingxi_db moves rows to other threads,
\* not the handoffs).
HandoffReported ==
    Done /\ Source # "lingxi_db" => \A t \in run.report :
        (\E row \in t.rows : msgs[row.msg].thread \in run.ordered) => t.category = "ROBOT_HANDOFF"
=============================================================================
