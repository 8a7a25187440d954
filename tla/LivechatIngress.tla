-------------------------- MODULE LivechatIngress --------------------------
(***************************************************************************)
(* How LiveChat events become rows of inbound_events: the webhook server   *)
(* (deliveries that are repeated until they are answered with 202, handled *)
(* concurrently) and the polling receiver (list_chats, get_chat, repeated  *)
(* cycles), and the takeover that the webhook notes when an agent writes.  *)
(*                                                                         *)
(* A chat has one thread.  LiveChat is external: its threads, its webhooks *)
(* and the answers of its API.  Names, texts and timestamps are data; what *)
(* happens to a row after it is stored is module InboundQueue.             *)
(*                                                                         *)
(* Operators named X_Variant are plausible bugs of X; nothing uses them.   *)
(***************************************************************************)
EXTENDS Naturals, Sequences

CONSTANTS
    Chats,
    Handlers,        \* concurrent requests of the webhook server
    MaxEvents,       \* bound: events of a chat
    Setups           \* by name: deployments, what LiveChat may answer, and bounds

\* What the constants may be; a chat may open with an event.
Configured ==
    /\ MaxEvents \in Nat
    /\ \A s \in DOMAIN Setups :
          /\ Setups[s].chats \subseteq Chats /\ Setups[s].handlers \subseteq Handlers
          /\ Setups[s].receivers \subseteq {"webhook", "polling"}
          /\ Setups[s].bare \subseteq BOOLEAN /\ Setups[s].summaryThreads \subseteq BOOLEAN
          /\ Setups[s].page \in Nat \ {0}
          /\ Setups[s].events \in 1 .. MaxEvents /\ Setups[s].faults \in Nat

VARIABLES
    setup,    \* the name of one of Setups, for ever
    thread,   \* LiveChat: the events of a chat, in order
    started,  \* LiveChat: the chats in the order in which they started
    group,    \* LiveChat: "allowed" or "other"
    hooks,    \* LiveChat: webhooks not answered with 202
    rows,     \* inbound_events in the order of their ids
    human,    \* chats marked HUMAN_ACTIVE by the receivers
    handler,  \* requests of the webhook server under way
    poll,     \* the polling cycle
    faults

vars == <<setup, thread, started, group, hooks, rows, human, handler, poll, faults>>
liveChat == <<thread, started, group>>

open == {started[i] : i \in DOMAIN started}

Receivers == Setups[setup].receivers   \* subset of {"webhook", "polling"}: what is deployed
Bare == Setups[setup].bare             \* do payloads lack groups and author types
SummaryThreads == Setups[setup].summaryThreads   \* does list_chats return the thread too
LookupMayFail == Setups[setup].lookupMayFail     \* get_chat may fail in a webhook
DetailForbidden == Setups[setup].detailForbidden \* get_chat may answer 403 while polling
DieBeforeMark == Setups[setup].dieBeforeMark     \* between the insert and the takeover
Page == Setups[setup].page             \* the limit of list_chats: poll_limit, 20

Authors == {"customer", "agent", "whisper", "bot"}
Types == {"message", "file", "rich"}
Actions == {"incoming_chat", "incoming_event", "chat_transferred", "polling.event"}
Intro == 0

IdleHandler == [pc |-> "idle", hook |-> 0, todo |-> <<>>]
\* queue: the listed chats with the events each had then; at: the one in work;
\* todo: its events to store, the earliest first if sorted.
IdlePoll == [pc |-> "idle", queue |-> {}, at |-> 0, todo |-> {}, sorted |-> FALSE]

Init ==
    /\ setup \in DOMAIN Setups
    /\ thread = [c \in Chats |-> <<>>] /\ started = <<>>
    /\ group = [c \in Chats |-> "allowed"]
    /\ hooks = {} /\ rows = <<>> /\ human = {}
    /\ handler = [h \in Handlers |-> IdleHandler]
    /\ poll = IdlePoll
    /\ faults = 0

\* dedup_key: the action, the chat and thread and the event's id; a postback or
\* transfer without an event has the hash of its body.
_dedup_key(row) == <<row.action, row.chat, row.event>>

\* InboundEventRepository.insert: ON DUPLICATE KEY UPDATE id = id
IsDuplicate_Variant(row) ==
    rows # <<>> /\ _dedup_key(rows[Len(rows)]) = _dedup_key(row)
IsDuplicate(row) == \E i \in DOMAIN rows : _dedup_key(rows[i]) = _dedup_key(row)
InsertRow(row) == rows' = IF IsDuplicate(row) THEN rows ELSE Append(rows, row)

Fault == faults < Setups[setup].faults /\ faults' = faults + 1

Spoken(e) == e.type \in {"message", "file"}

-----------------------------------------------------------------------------
(* LiveChat. *)

Hook(action, c, events, bare) ==
    [action |-> action, chat |-> c, events |-> events, bare |-> bare, group |-> group[c]]
Notify(hook) == hooks' = IF "webhook" \in Receivers THEN hooks \cup {hook} ELSE hooks

\* A chat opens empty, with the first message, or with a greeting.
ChatStarts(c) ==
    /\ c \in Setups[setup].chats \ open
    /\ started' = Append(started, c)
    /\ \E first \in {<<>>} \cup {<<[by |-> a, type |-> "message"]>> : a \in {"customer", "agent", "bot"}} :
          /\ thread' = [thread EXCEPT ![c] = first]
          /\ Notify(Hook("incoming_chat", c, [i \in DOMAIN first |-> i], FALSE))
    /\ UNCHANGED <<setup, group, rows, human, handler, poll, faults>>

EventPosted(c) ==
    /\ c \in open /\ Len(thread[c]) < Setups[setup].events
    /\ \E by \in Authors, type \in Types, bare \in Bare :
          /\ type = "rich" <=> by = "bot"
          /\ type = "file" => by = "customer"
          /\ thread' = [thread EXCEPT ![c] = Append(@, [by |-> by, type |-> type])]
          /\ Notify(Hook("incoming_event", c, <<Len(thread[c]) + 1>>, bare))
    /\ UNCHANGED <<setup, started, group, rows, human, handler, poll, faults>>

ChatTransferred(c) ==
    /\ c \in open /\ group[c] = "allowed"
    /\ group' = [group EXCEPT ![c] = "other"]
    /\ Notify([Hook("chat_transferred", c, <<Intro>>, FALSE) EXCEPT !.group = "other"])
    /\ UNCHANGED <<setup, thread, started, rows, human, handler, poll, faults>>

-----------------------------------------------------------------------------
(* The webhook server: receive_livechat_webhook. *)

\* fetch_recent_livechat_group_ids: what the payloads of stored rows tell
RecentGroups(c) ==
    UNION {rows[i].groups : i \in {j \in DOMAIN rows : rows[j].chat = c
                                                   /\ rows[j].action # "polling.event"}}

\* normalize_webhook_payload_async: the groups and users known of a chat, from
\* the payload, else from recent rows or get_chat; a detailed chat replaces the
\* recent groups.
Detailed(c) == [groups |-> {group[c]}, users |-> TRUE, failed |-> 0]
ChatLookups(hook) ==
    IF ~ hook.bare THEN {[groups |-> {hook.group}, users |-> TRUE, failed |-> 0]}
    ELSE IF RecentGroups(hook.chat) # {}
         THEN {[groups |-> RecentGroups(hook.chat), users |-> FALSE, failed |-> 0]}
         ELSE {Detailed(hook.chat), [groups |-> {}, users |-> FALSE, failed |-> 1]}
AuthorLookups_Variant(hook, known) ==
    IF known.users \/ known.groups # {} THEN {known}
    ELSE {[Detailed(hook.chat) EXCEPT !.failed = known.failed],
          [known EXCEPT !.failed = @ + 1]}
AuthorLookups(hook, known) ==
    IF known.users THEN {known}
    ELSE {[Detailed(hook.chat) EXCEPT !.failed = known.failed],
          [known EXCEPT !.failed = @ + 1]}
Lookups(hook) == UNION {AuthorLookups(hook, known) : known \in ChatLookups(hook)}

\* _author_type; the bot is known by its id.
AuthorType(by, known) ==
    IF by = "bot" THEN "self"
    ELSE IF ~ known.users THEN "unknown"
    ELSE IF by = "customer" THEN "customer" ELSE "agent"

\* human_agent_public_reply: an agent, visible to the customer
IsPublicReply_Variant(e, known) == AuthorType(e.by, known) = "agent"
IsPublicReply(e, known) == AuthorType(e.by, known) = "agent" /\ e.by # "whisper"

\* _build_event: ignored events are stored too.
EventRow(hook, n, known) ==
    LET e == IF n = Intro THEN [by |-> "system", type |-> "message"] ELSE thread[hook.chat][n]
        author == IF n = Intro THEN "none" ELSE AuthorType(e.by, known)
    IN [action |-> hook.action, chat |-> hook.chat, event |-> n,
        groups |-> known.groups,
        public |-> n # Intro /\ IsPublicReply(e, known),
        ignored |-> \/ ~ Spoken(e)
                    \/ author \in {"self", "agent"}
                    \/ "allowed" \notin known.groups]

\* _should_emit_chat_started_intro: only the bot has spoken.
EmitsIntro(hook) ==
    \A i \in DOMAIN hook.events : thread[hook.chat][hook.events[i]].by = "bot"

\* _normalize: the rows of a delivery, the intro first
NormalizedRows(hook, known) ==
    LET intro == IF hook.action = "incoming_chat" /\ EmitsIntro(hook) THEN <<Intro>> ELSE <<>>
        ns == intro \o hook.events
    IN [i \in DOMAIN ns |-> EventRow(hook, ns[i], known)]

WebhookReceive(h) ==
    /\ h \in Setups[setup].handlers /\ handler[h].pc = "idle"
    /\ \E hook \in hooks : \E known \in Lookups(hook) :
          /\ faults' = faults + known.failed
          /\ known.failed > 0 => LookupMayFail /\ faults' <= Setups[setup].faults
          /\ handler' = [handler EXCEPT ![h] =
                [pc |-> "insert", hook |-> hook, todo |-> NormalizedRows(hook, known)]]
    /\ UNCHANGED <<setup, liveChat, hooks, rows, human, poll>>

WebhookInsert_Variant(h) ==
    /\ handler[h].pc = "insert" /\ handler[h].todo # <<>>
    /\ LET row == Head(handler[h].todo) IN
       /\ InsertRow(row)
       /\ handler' = IF row.public /\ ~ row.ignored /\ ~ IsDuplicate(row)
                     THEN [handler EXCEPT ![h].pc = "mark"]
                     ELSE [handler EXCEPT ![h].todo = Tail(@)]
    /\ UNCHANGED <<setup, liveChat, hooks, human, poll, faults>>

\* One INSERT, committed at once; the first copy of an agent's reply goes on to
\* the takeover.
WebhookInsert(h) ==
    /\ handler[h].pc = "insert" /\ handler[h].todo # <<>>
    /\ LET row == Head(handler[h].todo) IN
       /\ InsertRow(row)
       /\ handler' = IF row.public /\ ~ IsDuplicate(row)
                     THEN [handler EXCEPT ![h].pc = "mark"]
                     ELSE [handler EXCEPT ![h].todo = Tail(@)]
    /\ UNCHANGED <<setup, liveChat, hooks, human, poll, faults>>

WebhookMark_Variant(h) ==
    /\ handler[h].pc = "mark"
    /\ human' = human \cup {handler[h].hook}
    /\ handler' = [handler EXCEPT ![h].pc = "insert", ![h].todo = Tail(@)]
    /\ UNCHANGED <<setup, liveChat, hooks, rows, poll, faults>>

\* mark_human_active_on_connection
WebhookMark(h) ==
    /\ handler[h].pc = "mark"
    /\ human' = human \cup {handler[h].hook.chat}
    /\ handler' = [handler EXCEPT ![h].pc = "insert", ![h].todo = Tail(@)]
    /\ UNCHANGED <<setup, liveChat, hooks, rows, poll, faults>>

\* 202: LiveChat drops the webhook.
WebhookAnswer(h) ==
    /\ handler[h].pc = "insert" /\ handler[h].todo = <<>>
    /\ hooks' = hooks \ {handler[h].hook}
    /\ handler' = [handler EXCEPT ![h] = IdleHandler]
    /\ UNCHANGED <<setup, liveChat, rows, human, poll, faults>>

\* An exception (500) or a crash: LiveChat delivers the webhook again.
WebhookFails_Variant(h) ==
    /\ handler[h].pc = "insert" \/ (handler[h].pc = "mark" /\ DieBeforeMark)
    /\ Fault
    /\ hooks' = hooks \ {handler[h].hook}
    /\ handler' = [handler EXCEPT ![h] = IdleHandler]
    /\ UNCHANGED <<setup, liveChat, rows, human, poll>>
WebhookFails(h) ==
    /\ handler[h].pc = "insert" \/ (handler[h].pc = "mark" /\ DieBeforeMark)
    /\ Fault
    /\ handler' = [handler EXCEPT ![h] = IdleHandler]
    /\ UNCHANGED <<setup, liveChat, hooks, rows, human, poll>>

WebhookStep(h) == WebhookReceive(h) \/ WebhookInsert(h) \/ WebhookMark(h) \/ WebhookAnswer(h)

-----------------------------------------------------------------------------
(* The polling receiver: receive_once.  Every cycle starts with a fresh state. *)

\* normalize_polling_event: events of agents and of the bot make no row.
PollRow(c, n) ==
    [action |-> "polling.event", chat |-> c, event |-> n,
     groups |-> {"allowed"}, public |-> FALSE, ignored |-> FALSE]

Customers(c, ns) == {n \in ns : thread[c][n].by = "customer" /\ Spoken(thread[c][n])}

\* extract_polling_events_from_chat_detail: no intro once an agent has spoken or a
\* rich message is there.
DetailIntro(c) ==
    IF \E i \in DOMAIN thread[c] : \/ thread[c][i].by \in {"agent", "whisper"}
                                   \/ thread[c][i].type = "rich"
    THEN {} ELSE {Intro}

\* The detail without the test for the author.
DetailEvents_Variant(c) == DetailIntro(c) \cup {n \in DOMAIN thread[c] : Spoken(thread[c][n])}
DetailEvents(c) == DetailIntro(c) \cup Customers(c, DOMAIN thread[c])

\* extract_polling_events_from_chat_summary: the last event of each type, as it
\* was when the chats were listed
LastOfTypes(c, n) ==
    {i \in 1 .. n : Spoken(thread[c][i])
                    /\ \A j \in (i + 1) .. n : thread[c][j].type # thread[c][i].type}

\* list_chats: one page, the newest chats of whatever group
chats_summary == {started[i] : i \in {j \in DOMAIN started : Len(started) - j < Page}}

\* list_chats and chat_matches_allowed_groups
PollList ==
    /\ "polling" \in Receivers /\ poll.pc = "idle"
    /\ poll' = [IdlePoll EXCEPT !.pc = "chats",
                   !.queue = {[chat |-> c, n |-> Len(thread[c])] :
                                 c \in {d \in chats_summary : group[d] = "allowed"}}]
    /\ UNCHANGED <<setup, liveChat, hooks, rows, human, handler, faults>>

\* The next chat, in the order of the list: a new intro from the summary ends the
\* work on it.  The thread of a summary comes without events.
SkipsAfterIntro(c) == ~ IsDuplicate(PollRow(c, Intro))

PollSummary ==
    /\ poll.pc = "chats"
    /\ \E s \in poll.queue, hasThread \in SummaryThreads :
          /\ IF hasThread THEN InsertRow(PollRow(s.chat, Intro)) ELSE UNCHANGED rows
          /\ poll' = IF hasThread /\ SkipsAfterIntro(s.chat)
                     THEN [poll EXCEPT !.queue = @ \ {s}]
                     ELSE [poll EXCEPT !.queue = @ \ {s}, !.pc = "detail", !.at = s]
    /\ UNCHANGED <<setup, liveChat, hooks, human, handler, faults>>

\* get_chat: the detail, or after a 403 what the summary tells, by type of event
PollDetail ==
    /\ poll.pc = "detail"
    /\ LET c == poll.at.chat
           Work(todo, sorted) == poll' = [poll EXCEPT !.pc = "insert", !.todo = todo, !.sorted = sorted]
       IN \/ /\ Work(IF group[c] = "allowed" THEN DetailEvents(c) ELSE {}, TRUE)
             /\ UNCHANGED faults
          \/ /\ DetailForbidden /\ Fault
             /\ Work(Customers(c, LastOfTypes(c, poll.at.n)), FALSE)
    /\ UNCHANGED <<setup, liveChat, hooks, rows, human, handler>>

PollInsert ==
    /\ poll.pc = "insert"
    /\ \E n \in poll.todo :
          /\ poll.sorted => \A m \in poll.todo : n <= m
          /\ InsertRow(PollRow(poll.at.chat, n))
          /\ poll' = [poll EXCEPT !.todo = @ \ {n}]
    /\ UNCHANGED <<setup, liveChat, hooks, human, handler, faults>>

PollNext ==
    /\ poll.pc = "insert" /\ poll.todo = {}
    /\ poll' = [IdlePoll EXCEPT !.pc = "chats", !.queue = poll.queue]
    /\ UNCHANGED <<setup, liveChat, hooks, rows, human, handler, faults>>

PollDone ==
    /\ poll.pc = "chats" /\ poll.queue = {}
    /\ poll' = IdlePoll
    /\ UNCHANGED <<setup, liveChat, hooks, rows, human, handler, faults>>

\* Another error of get_chat, a failed insert or a crash ends the whole cycle.
PollFails ==
    /\ poll.pc # "idle" /\ Fault
    /\ poll' = IdlePoll
    /\ UNCHANGED <<setup, liveChat, hooks, rows, human, handler>>

PollStep == PollList \/ PollSummary \/ PollDetail \/ PollInsert \/ PollNext \/ PollDone

-----------------------------------------------------------------------------
Next ==
    \/ \E c \in Chats : ChatStarts(c) \/ EventPosted(c) \/ ChatTransferred(c)
    \/ \E h \in Handlers : WebhookStep(h) \/ WebhookFails(h)
    \/ PollStep \/ PollFails

Spec == Init /\ [][Next]_vars

\* The webhook server and LiveChat's redelivery go on, and so do the polling cycles.
FairSpec == /\ Spec /\ WF_vars(PollStep)
            /\ \A h \in Handlers : WF_vars(WebhookStep(h))

-----------------------------------------------------------------------------
Rows == [action : Actions, chat : Chats, event : 0 .. MaxEvents,
         groups : SUBSET {"allowed", "other"}, public : BOOLEAN, ignored : BOOLEAN]

TypeOK ==
    /\ \A c \in Chats : \A i \in DOMAIN thread[c] : thread[c][i] \in [by : Authors, type : Types]
    /\ started \in Seq(Chats) /\ human \subseteq Chats
    /\ group \in [Chats -> {"allowed", "other"}]
    /\ rows \in Seq(Rows)
    /\ \A h \in Handlers : /\ handler[h].pc \in {"idle", "insert", "mark"}
                           /\ handler[h].todo \in Seq(Rows)
    /\ poll.pc \in {"idle", "chats", "detail", "insert"}
    /\ faults \in 0 .. Setups[setup].faults

\* What the gateway is going to answer: rows that are not ignored.
Answerable(c, n) ==
    {i \in DOMAIN rows : rows[i].chat = c /\ rows[i].event = n /\ ~ rows[i].ignored
                         /\ rows[i].action # "chat_transferred"}

\* A customer's message becomes at most one row to answer, although webhooks are
\* repeated and handled concurrently and every polling cycle reads the thread
\* from its start (dedup_key), if one of the receivers is deployed.
OneRowPerMessage ==
    Receivers # {"webhook", "polling"} =>
        \A c \in Chats : \A n \in DOMAIN thread[c] : \A i, j \in Answerable(c, n) : i = j

\* No message of an agent or of the bot is stored as one to answer, by whichever
\* way the receiver learns who wrote it, while get_chat works (_author_type).
AgentIsNotCustomer ==
    ~ LookupMayFail => \A c \in Chats : \A n \in DOMAIN thread[c] :
        thread[c][n].by # "customer" => Answerable(c, n) = {}

\* The AI falls silent only for an agent who wrote to the customer, not for a
\* whisper among agents or for its own messages (human_agent_public_reply).
TakeoverNeedsPublicReply ==
    \A c \in human : \E n \in DOMAIN thread[c] : thread[c][n].by = "agent"

\* While get_chat works, polling stores the intro of a thread before the messages
\* of the thread, however often a cycle is cut short: the greeting comes first.
\* (An intro from a summary would follow what a detail without intro had, if
\* list_chats returned the thread at some times only.)
IntroFirst ==
    ~ DetailForbidden /\ SummaryThreads # BOOLEAN => \A i, j \in DOMAIN rows :
        (/\ rows[i].action = "polling.event" /\ rows[j].action = "polling.event"
         /\ rows[i].chat = rows[j].chat /\ rows[j].event = Intro) => j <= i

\* Polling no longer looks at the chat: a page of chats has started after it.
OffThePage(c) == "webhook" \notin Receivers /\ c \notin chats_summary

\* Every message of a customer ends up as a row to answer, through failed inserts,
\* crashes, 403 answers and aborted cycles, unless the chat leaves the groups or
\* the page that is polled, or the webhook could not learn the groups.
EveryMessageStored ==
    \A c \in Chats : \A n \in 1 .. MaxEvents :
        (~ LookupMayFail /\ n \in DOMAIN thread[c] /\ thread[c][n].by = "customer")
            ~> (Answerable(c, n) # {} \/ group[c] = "other" \/ OffThePage(c))

\* Once an agent has written to the customer, the AI is stopped: the webhook
\* server is deployed, get_chat works and no handler dies after the insert.
AgentTakesOver ==
    \A c \in Chats :
        ("webhook" \in Receivers /\ ~ LookupMayFail /\ ~ DieBeforeMark
         /\ \E n \in DOMAIN thread[c] : thread[c][n].by = "agent") ~> c \in human
=============================================================================
