------------------------- MODULE MCLivechatIngress -------------------------
(* The receivers with what they take for granted and what must be true of them, *)
(* and their deployments: the webhook server, and polling.                      *)
EXTENDS Naturals, Sequences

CONSTANTS LiveChats, Handlers, MaxEvents, Setups
VARIABLES setup, thread, started, group, hooks, rows, human, handler, poll, faults

Ingress == INSTANCE LivechatIngress WITH Chats <- LiveChats

ASSUME IngressAssumption == Ingress!Configured

IngressSpec == Ingress!FairSpec

\* The rows the receivers store tell what happened in LiveChat: each message once
\* (dedup_key), an agent never as a customer (_author_type), a takeover only for a
\* public reply (human_agent_public_reply), the intro before the messages.
RowsSound ==
    /\ Ingress!TypeOK
    /\ Ingress!OneRowPerMessage /\ Ingress!AgentIsNotCustomer
    /\ Ingress!TakeoverNeedsPublicReply /\ Ingress!IntroFirst

\* What LiveChat has delivered takes effect, through repeated deliveries, failed
\* inserts, crashes and aborted cycles: messages are stored, as long as the chat is on
\* the page that is polled, and agents take over.
DeliveriesTakeEffect == Ingress!EveryMessageStored /\ Ingress!AgentTakesOver

CONSTANTS c1, c2, h1, h2

Webhook == [chats |-> {c1}, handlers |-> {h1}, receivers |-> {"webhook"}, bare |-> {TRUE},
            summaryThreads |-> {FALSE}, lookupMayFail |-> FALSE, detailForbidden |-> FALSE,
            dieBeforeMark |-> FALSE, page |-> 2, events |-> 2, faults |-> 1]

\* Two requests at a time, and a handler that may die before the takeover.
Concurrent == [Webhook EXCEPT !.handlers = {h1, h2}, !.bare = {TRUE, FALSE},
                              !.dieBeforeMark = TRUE, !.events = 1]

\* get_chat fails while a webhook is handled.
NoLookup == [Webhook EXCEPT !.lookupMayFail = TRUE, !.faults = 2, !.events = 1]

\* Two chats in a polling cycle.
Polling == [Webhook EXCEPT !.chats = {c1, c2}, !.receivers = {"polling"}, !.events = 1,
                           !.faults = 0]

\* A page of one chat: the second one takes the first off it, and a call may fail.
Paged == [Polling EXCEPT !.page = 1, !.faults = 1]

\* list_chats returns the thread of every chat.
Threaded == [Webhook EXCEPT !.receivers = {"polling"}, !.summaryThreads = {TRUE}, !.faults = 2]

\* Polling when get_chat may answer 403 and list_chats may return the thread.
Forbidden == [Webhook EXCEPT !.receivers = {"polling"}, !.summaryThreads = {TRUE, FALSE},
                             !.detailForbidden = TRUE]

MCSetups == [webhook |-> Webhook, concurrent |-> Concurrent, noLookup |-> NoLookup,
             polling |-> Polling, paged |-> Paged, threaded |-> Threaded,
             forbidden |-> Forbidden]
=============================================================================
