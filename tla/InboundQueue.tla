---------------------------- MODULE InboundQueue ----------------------------
(***************************************************************************)
(* The table inbound_events and the gateway consumers that lease from it.  *)
(*                                                                         *)
(* Webhook and polling deliveries insert rows under a unique dedup_key.    *)
(* Gateway workers lease the head row of each chat, load the conversation, *)
(* run the graph (an await of arbitrary length) and commit one             *)
(* transaction that applies the result and marks the row processed.        *)
(* Leases expire by wall-clock time, rows are marked and released by id    *)
(* only (never by owner), and workers crash.                               *)
(*                                                                         *)
(* What a transaction writes is abstracted to one entry in a per-chat log: *)
(* the event it answers and the log position its snapshot was loaded at.   *)
(*                                                                         *)
(* An operator X_Suffix before X is a plausible bug of X; nothing uses it. *)
(***************************************************************************)
EXTENDS Naturals, Sequences, FiniteSets

CONSTANTS
    Keys,               \* dedup keys of the deliveries LiveChat may make
    Chats,
    ChatOf,             \* the chat of a delivery
    Ignored,            \* deliveries stored with ignored = 1 (self, agent)
    Workers,            \* gateway consumer processes
    NoWorker,           \* locked_by IS NULL
    BatchLimit,         \* --gateway-limit
    Concurrency,        \* --gateway-concurrency
    LeaseOutlivesWork,  \* no lease runs out under a worker that is alive
    MaxCrashes,         \* bound on worker crashes
    MaxFailures         \* bound on attempts that end in an exception

ASSUME ConstantsAssumption ==
    /\ ChatOf \in [Keys -> Chats]
    /\ Ignored \subseteq Keys
    /\ NoWorker \notin Workers
    /\ BatchLimit \in Nat \ {0}
    /\ Concurrency \in Nat \ {0}
    /\ LeaseOutlivesWork \in BOOLEAN
    /\ MaxCrashes \in Nat
    /\ MaxFailures \in Nat

VARIABLES
    lastId,     \* the AUTO_INCREMENT counter
    inbound,    \* inbound_events, by id
    waiting,    \* per worker: leased ids queued behind its semaphore
    running,    \* per worker: attempts whose conversation is loaded
    applied,    \* per chat: the gateway transactions in commit order
    crashes, failures

vars == <<lastId, inbound, waiting, running, applied, crashes, failures>>

Ids == 1 .. lastId
Row == [key : Keys, processed : BOOLEAN, locked_by : Workers \cup {NoWorker},
        lease_expired : BOOLEAN]
Attempt == [id : Nat, base : Nat]

\* inbound_events.chat_id and .ignored of a row
Chat(i) == ChatOf[inbound[i].key]
IsIgnored(i) == inbound[i].key \in Ignored

\* The ids worker w still has to finish in its current batch.
Holding(w) == waiting[w] \cup {a.id : a \in running[w]}

TypeOK ==
    /\ lastId \in Nat
    /\ inbound \in [Ids -> Row]
    /\ waiting \in [Workers -> SUBSET Ids]
    /\ running \in [Workers -> SUBSET [id : Ids, base : Nat]]
    /\ applied \in [Chats -> Seq(Attempt)]
    /\ crashes \in Nat
    /\ failures \in Nat

Init ==
    /\ lastId = 0
    /\ inbound = [i \in 1 .. 0 |-> 0]
    /\ waiting = [w \in Workers |-> {}]
    /\ running = [w \in Workers |-> {}]
    /\ applied = [c \in Chats |-> <<>>]
    /\ crashes = 0
    /\ failures = 0

-----------------------------------------------------------------------------
NewRow(k) == [key |-> k, processed |-> FALSE, locked_by |-> NoWorker,
              lease_expired |-> FALSE]

IsKnown(k) == \E i \in Ids : inbound[i].key = k

\* InboundEventRepository.insert: ON DUPLICATE KEY UPDATE id = id.  A delivery
\* may be repeated at any time by LiveChat or seen by both receivers.
Insert(k) ==
    /\ ~IsKnown(k)
    /\ lastId' = lastId + 1
    /\ inbound' = [i \in 1 .. lastId + 1 |->
                      IF i = lastId + 1 THEN NewRow(k) ELSE inbound[i]]
    /\ UNCHANGED <<waiting, running, applied, crashes, failures>>

InsertDuplicate(k) == IsKnown(k) /\ UNCHANGED vars

\* Rows the SELECT of lease_unprocessed accepts: pending, not under a live
\* lease, and no earlier pending row of the same chat.
IsPending_AnyRow(i) == ~IsIgnored(i)
IsPending(i) == ~inbound[i].processed /\ ~IsIgnored(i)
IsFree_NoExpiry(i) == inbound[i].locked_by = NoWorker
IsFree(i) == inbound[i].locked_by = NoWorker \/ inbound[i].lease_expired
IsChatHead_Any(i) == TRUE
IsChatHead_Newest(i) ==
    \A j \in Ids \ {i} : IsPending(j) /\ Chat(j) = Chat(i) => j < i /\ IsFree(j)
IsChatHead(i) == \A j \in Ids : j < i /\ IsPending(j) => Chat(j) # Chat(i)
Leasable == {i \in Ids : IsPending(i) /\ IsFree(i) /\ IsChatHead(i)}

\* ORDER BY id LIMIT n
FirstOf(S, n) == {i \in S : Cardinality({j \in S : j < i}) < n}

\* One tick of a worker: lease the next batch.  The tick ends when every row of
\* the batch has been dealt with, so a worker leases only when it holds nothing.
LeaseUnprocessed(w) ==
    /\ Holding(w) = {}
    /\ LET batch == FirstOf(Leasable, BatchLimit)
       IN  /\ batch # {}
           /\ inbound' = [i \in Ids |->
                 IF i \in batch
                 THEN [inbound[i] EXCEPT !.locked_by = w, !.lease_expired = FALSE]
                 ELSE inbound[i]]
           /\ waiting' = [waiting EXCEPT ![w] = batch]
    /\ UNCHANGED <<lastId, running, applied, crashes, failures>>

\* The log position of the conversation state that get_or_create reads.
LoadedBase_Cached(i) == 0
LoadedBase(i) == Len(applied[Chat(i)])

\* _process_one_row enters GatewayService.process_event, which loads the
\* conversation the graph will run on.
LoadConversation(w, i) ==
    /\ i \in waiting[w]
    /\ Cardinality(running[w]) < Concurrency
    /\ waiting' = [waiting EXCEPT ![w] = @ \ {i}]
    /\ running' = [running EXCEPT ![w] =
                      @ \cup {[id |-> i, base |-> LoadedBase(i)]}]
    /\ UNCHANGED <<lastId, inbound, applied, crashes, failures>>

Released_EmptyOwner(row) == [row EXCEPT !.locked_by = "", !.lease_expired = FALSE]
Released_Processed(row) == [row EXCEPT !.locked_by = NoWorker, !.processed = TRUE]
Released(row) == [row EXCEPT !.locked_by = NoWorker, !.lease_expired = FALSE]

\* process_event_transactionally commits: the effects and processed = 1 become
\* visible together.  The transaction checks neither processed nor locked_by.
CommitEvent(w, a) ==
    /\ a \in running[w]
    /\ running' = [running EXCEPT ![w] = @ \ {a}]
    /\ applied' = [applied EXCEPT ![Chat(a.id)] = Append(@, a)]
    /\ inbound' = [inbound EXCEPT ![a.id] =
                      [Released(inbound[a.id]) EXCEPT !.processed = TRUE]]
    /\ UNCHANGED <<lastId, waiting, crashes, failures>>

\* process_event raised: the transaction, if begun, is rolled back and the
\* lease of the row is released, whoever owns it by now.
FailEvent(w, a) ==
    /\ a \in running[w]
    /\ failures < MaxFailures
    /\ failures' = failures + 1
    /\ running' = [running EXCEPT ![w] = @ \ {a}]
    /\ inbound' = [inbound EXCEPT ![a.id] = Released(inbound[a.id])]
    /\ UNCHANGED <<lastId, waiting, applied, crashes>>

\* The process dies or its tick is cancelled; its leases stay in the table.
Crash(w) ==
    /\ Holding(w) # {}
    /\ crashes < MaxCrashes
    /\ crashes' = crashes + 1
    /\ waiting' = [waiting EXCEPT ![w] = {}]
    /\ running' = [running EXCEPT ![w] = {}]
    /\ UNCHANGED <<lastId, inbound, applied, failures>>

\* lease_expires_at < NOW(6) becomes true.
LeaseExpires(i) ==
    /\ inbound[i].locked_by # NoWorker
    /\ ~inbound[i].lease_expired
    /\ LeaseOutlivesWork => \A w \in Workers : i \notin Holding(w)
    /\ inbound' = [inbound EXCEPT ![i].lease_expired = TRUE]
    /\ UNCHANGED <<lastId, waiting, running, applied, crashes, failures>>

\* recover_expired_leases, run by maybe_recover_worker_leases.
IsRecoverable(i) ==
    IsPending(i) /\ inbound[i].locked_by # NoWorker /\ inbound[i].lease_expired

RecoverExpiredLeases ==
    /\ \E i \in Ids : IsRecoverable(i)
    /\ inbound' = [i \in Ids |-> IF IsRecoverable(i) THEN Released(inbound[i])
                                                     ELSE inbound[i]]
    /\ UNCHANGED <<lastId, waiting, running, applied, crashes, failures>>

Next ==
    \/ \E k \in Keys : Insert(k) \/ InsertDuplicate(k)
    \/ \E w \in Workers : LeaseUnprocessed(w)
    \/ \E w \in Workers : \E i \in waiting[w] : LoadConversation(w, i)
    \/ \E w \in Workers : \E a \in running[w] : CommitEvent(w, a)
    \/ \E w \in Workers : \E a \in running[w] : FailEvent(w, a)
    \/ \E w \in Workers : Crash(w)
    \/ \E i \in Ids : LeaseExpires(i)
    \/ RecoverExpiredLeases

Spec == Init /\ [][Next]_vars

\* service_runner keeps ticking every worker, a tick runs to its end, and time
\* passes.  Deliveries, failures and crashes are not fair.
Progress(w) ==
    \/ LeaseUnprocessed(w)
    \/ \E i \in waiting[w] : LoadConversation(w, i)
    \/ \E a \in running[w] : CommitEvent(w, a) \/ FailEvent(w, a)

Fairness ==
    /\ \A w \in Workers : WF_vars(Progress(w))
    /\ WF_vars(\E i \in Ids : LeaseExpires(i))

FairSpec == Spec /\ Fairness

-----------------------------------------------------------------------------
(* Properties *)

\* A row is marked processed only after every earlier row of its chat that is
\* not ignored: the NOT EXISTS of lease_unprocessed keeps each chat first in,
\* first out although leases are lost, repeated and overlap.
ProcessedInOrder ==
    \A i, j \in Ids :
        /\ i < j
        /\ Chat(i) = Chat(j)
        /\ ~IsIgnored(i)
        /\ inbound[j].processed
        => inbound[i].processed

\* No delivery is dropped: a row marked processed has had its transaction
\* applied, because mark_processed_on_connection runs inside that transaction.
NoEventDropped ==
    \A i \in Ids : inbound[i].processed =>
        \E n \in 1 .. Len(applied[Chat(i)]) : applied[Chat(i)][n].id = i

\* While leases outlive the work done under them, no chat is ever processed by
\* two workers, nor two of its events by one, at the same time.
ExclusiveChat ==
    LeaseOutlivesWork =>
        \A v, w \in Workers : \A i \in Holding(v), j \in Holding(w) :
            Chat(i) = Chat(j) => v = w /\ i = j

\* Under the same condition the conversation a graph run was loaded from is
\* still the latest gateway result when its transaction commits: the state read
\* before the graph's awaits is not stale with respect to other gateway runs.
SnapshotIsCurrent ==
    LeaseOutlivesWork =>
        \A w \in Workers : \A a \in running[w] :
            a.base = Len(applied[Chat(a.id)])

\* Under the same condition the queue implements ChatInbox: the gateway
\* transactions of a chat answer its events in order of id, none skipped and
\* none twice, despite crashes, failures, retries and duplicate deliveries.
ArrivedIds == [c \in Chats |-> {i \in Ids : Chat(i) = c /\ ~IsIgnored(i)}]
AppliedIds == [c \in Chats |-> [n \in 1 .. Len(applied[c]) |-> applied[c][n].id]]
Inbox == INSTANCE ChatInbox WITH arrived <- ArrivedIds, consumed <- AppliedIds
ImplementsChatInbox == Inbox!Spec

\* Every customer delivery in the table is eventually processed.
EveryEventProcessed ==
    \A k \in Keys \ Ignored :
        IsKnown(k) ~> (\E i \in Ids : inbound[i].key = k /\ inbound[i].processed)
=============================================================================
