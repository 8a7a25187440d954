--------------------------- MODULE OutboundSender ---------------------------
(***************************************************************************)
(* The outbound_messages of one conversation and the sender workers that   *)
(* deliver them: leasing of groups, block order, fallbacks, classification *)
(* of failures, retry limit and back-off, lost answers, failed marks,      *)
(* crashes, and an agent who cancels the queue.  Conversations share       *)
(* nothing in these tables, so one is enough.                              *)
(*                                                                         *)
(* Texts, images and menus are data.  Captions go out with their image:    *)
(* nothing depends on whether they arrive.                                 *)
(*                                                                         *)
(* An operator X_Suffix before X is a plausible bug of X; nothing uses it. *)
(***************************************************************************)
EXTENDS Naturals, Sequences, FiniteSets, Functions

CONSTANTS
    Workers,
    MaxRetries,     \* LIVECHAT_SEND_MAX_RETRIES; 0 stands for no limit
    Setups,         \* the answers that are queued, the settings and the bound on faults
    MaxRows         \* bound: rows of a setup

Kinds == {"text", "image", "telegram_image", "buttons", "unknown_menu", "unsupported"}

\* The rank of a row without a block_index: COALESCE(block_index, 2147483647).
NoBlock == 99

ASSUME ConstantsAssumption ==
    /\ MaxRetries \in Nat /\ MaxRows \in Nat
    /\ \A s \in Setups :
          /\ s.blocks \in Seq([turn : Nat, kind : Kinds, rank : Nat])
          /\ Len(s.blocks) <= MaxRows
          /\ \A q, r \in DOMAIN s.blocks : q <= r => s.blocks[q].turn <= s.blocks[r].turn
          /\ s.maxGroup \in Nat \ {0} /\ s.maxFaults \in Nat /\ s.maxPutOff \in Nat
          /\ s.imageFallback \in BOOLEAN /\ s.leaseOutlivesWork \in BOOLEAN

VARIABLES
    setup,      \* one of Setups, for ever
    stored,     \* turns whose rows are in the table
    row,        \* outbound_messages by id
    worker,     \* local state of process_message_group
    human,      \* the agent's webhook: "no", "marked" HUMAN_ACTIVE, "cancelled"
    shown,      \* history: how often the customer has been shown a row
    faults,
    putOff      \* history: how often Telegram has put off the download of a row's picture

vars == <<setup, stored, row, worker, human, shown, faults, putOff>>

Blocks == setup.blocks                \* the blocks of the answers, one answer after another
MaxGroup == setup.maxGroup            \* max_per_conversation
ImageFallback == setup.imageFallback  \* LIVECHAT_IMAGE_TEXT_FALLBACK
LeaseOutlivesWork == setup.leaseOutlivesWork \* no lease runs out under a living worker
MaxFaults == setup.maxFaults          \* bound: lost answers, failed writes and crashes
MaxPutOff == setup.maxPutOff          \* bound: downloads of a picture that Telegram puts off

\* Rows get their ids in the order they are written.
Ids == DOMAIN Blocks

\* build_text_outbox, build_command_outbox, faq_plan_to_outbound_rows
ActionType(kind) ==
    CASE kind = "text" -> "send_event"
      [] kind \in {"image", "telegram_image"} -> "livechat.send_image"
      [] OTHER -> "livechat.send_buttons"

\* _outbound_dedup_key and _with_command_metadata: the block_index is part of
\* the key where there is one.
DedupKey(r) == <<Blocks[r].turn, ActionType(Blocks[r].kind), Blocks[r].rank>>

Statuses == {"ABSENT", "PENDING", "SENT", "FAILED", "SKIPPED"}

\* PENDING stands for RETRYABLE too; only the initial delay tells them apart.
Queued == {r \in Ids : row[r].st = "PENDING"}

NoWork == [pc |-> "idle", group |-> <<>>, verdict |-> "none"]

TypeOK ==
    /\ setup \in Setups
    /\ stored \in Nat
    /\ row \in [Ids -> [st : Statuses, retry : Nat, locked : BOOLEAN]]
    /\ worker \in [Workers -> [pc : {"idle", "check", "send", "fallback", "mark", "release"},
                               group : Seq([id : Ids, retry : Nat]),
                               verdict : {"none"} \cup Statuses]]
    /\ human \in {"no", "marked", "cancelled"}
    /\ shown \in [Ids -> Nat]
    /\ faults \in 0 .. MaxFaults
    /\ putOff \in [Ids -> Nat]

Init ==
    /\ setup \in Setups
    /\ stored = 0
    /\ row = [r \in Ids |-> [st |-> "ABSENT", retry |-> 0, locked |-> FALSE]]
    /\ worker = [w \in Workers |-> NoWork]
    /\ human = "no"
    /\ shown = [r \in Ids |-> 0]
    /\ faults = 0
    /\ putOff = [r \in Ids |-> 0]

Fault == faults < MaxFaults /\ faults' = faults + 1

-----------------------------------------------------------------------------
(* The gateway's transaction and the agent's webhook *)

\* insert_idempotent_on_connection for every row of an answer: a second row
\* under the key of an earlier one is not stored.
StoreAnswer ==
    /\ \E r \in Ids : Blocks[r].turn > stored
    /\ human = "no"
    /\ stored' = stored + 1
    /\ row' = [r \in Ids |->
                  IF /\ Blocks[r].turn = stored + 1
                     /\ \A q \in 1 .. r - 1 : DedupKey(q) # DedupKey(r)
                  THEN [row[r] EXCEPT !.st = "PENDING"] ELSE row[r]]
    /\ UNCHANGED <<setup, worker, human, shown, faults, putOff>>

AgentTakesOver ==
    /\ human = "no"
    /\ human' = "marked"
    /\ UNCHANGED <<setup, stored, row, worker, shown, faults, putOff>>

AgentCancels ==
    /\ human = "marked"
    /\ human' = "cancelled"
    /\ row' = [r \in Ids |-> IF r \in Queued THEN [row[r] EXCEPT !.st = "SKIPPED", !.locked = FALSE] ELSE row[r]]
    /\ UNCHANGED <<setup, stored, worker, shown, faults, putOff>>

-----------------------------------------------------------------------------
(* Leases *)

\* ORDER BY COALESCE(block_index, 2147483647), id
SendsBefore(q, r) ==
    \/ Blocks[q].rank < Blocks[r].rank
    \/ Blocks[q].rank = Blocks[r].rank /\ q < r

\* A conversation with a live lease, a back-off included, is left alone.
Leasable_HeadOnly == Queued # {} /\ ~row[CHOOSE r \in Queued : \A q \in Queued : r <= q].locked
Leasable == Queued # {} /\ \A r \in Queued : ~row[r].locked

\* The first max_per_conversation rows of a set, in the order of SendsBefore.
FirstRows(old) ==
    LET n == IF Cardinality(old) > MaxGroup THEN MaxGroup ELSE Cardinality(old)
    IN  {ids \in [1 .. n -> old] :
            /\ \A i, j \in 1 .. n : i < j => SendsBefore(ids[i], ids[j])
            /\ \A q \in old \ Range(ids) : SendsBefore(ids[n], q)}

\* lease_pending_groups: the rows older than the initial delay, that is all
\* rows up to some id.
LeasePendingGroup(w) ==
    /\ worker[w].pc = "idle"
    /\ Leasable
    /\ \E newest \in Queued :
       \E ids \in FirstRows({r \in Queued : r <= newest /\ ~row[r].locked}) :
          /\ row' = [r \in Ids |-> [row[r] EXCEPT !.locked = @ \/ r \in Range(ids)]]
          /\ worker' = [worker EXCEPT ![w] =
                [NoWork EXCEPT !.pc = "check",
                               !.group = [i \in DOMAIN ids |->
                                   [id |-> ids[i], retry |-> row[ids[i]].retry]]]]
    /\ UNCHANGED <<setup, stored, human, shown, faults, putOff>>

Held(w) == {worker[w].group[i].id : i \in DOMAIN worker[w].group}

\* A lease or a back-off runs out; recover_expired_leases then only clears what
\* every query already treats as expired.
LeaseExpires(r) ==
    /\ r \in Ids /\ row[r].locked
    /\ LeaseOutlivesWork => \A w \in Workers : r \notin Held(w)
    /\ row' = [row EXCEPT ![r].locked = FALSE]
    /\ UNCHANGED <<setup, stored, worker, human, shown, faults, putOff>>

-----------------------------------------------------------------------------
(* process_pending_message for the first row of the group *)

Cur(w) == worker[w].group[1]
KindOf(w) == Blocks[Cur(w).id].kind
Goto(w, pc, verdict) == worker' = [worker EXCEPT ![w].pc = pc, ![w].verdict = verdict]

\* The early returns: a human owns the conversation, a message_type the sender
\* does not know, a menu that does not exist.
SenderCheck_Unmarked(w) ==
    /\ worker[w].pc = "check"
    /\ \/ human # "no" /\ Goto(w, "mark", "SKIPPED")
       \/ human = "no" /\ KindOf(w) \in {"unsupported", "unknown_menu"} /\ Goto(w, "release", "none")
       \/ human = "no" /\ KindOf(w) \notin {"unsupported", "unknown_menu"} /\ Goto(w, "send", "none")
    /\ UNCHANGED <<setup, stored, row, human, shown, faults, putOff>>
SenderCheck(w) ==
    /\ worker[w].pc = "check"
    /\ \/ human # "no" /\ Goto(w, "mark", "SKIPPED")
       \/ human = "no" /\ KindOf(w) = "unsupported" /\ Goto(w, "mark", "SKIPPED")
       \/ human = "no" /\ KindOf(w) = "unknown_menu" /\ Goto(w, "mark", "FAILED")
       \/ human = "no" /\ KindOf(w) \notin {"unsupported", "unknown_menu"} /\ Goto(w, "send", "none")
    /\ UNCHANGED <<setup, stored, row, human, shown, faults, putOff>>

\* What a call of LiveChat can come to: an event id; an answer without one; 429
\* or 5xx; another error code, or a staff picture that Telegram refuses to hand
\* out; no answer.
Outcomes == {"accepted", "unconfirmed", "busy", "refused", "lost"}
Raised == {"busy", "refused", "lost"}
MayBeShown(o) ==
    IF o = "accepted" THEN {TRUE} ELSE IF o \in {"unconfirmed", "lost"} THEN BOOLEAN ELSE {FALSE}

\* _retry_limit_reached, on the retry_count that came with the lease
RetryLimitReached_Late(retry) == MaxRetries > 0 /\ retry >= MaxRetries
RetryLimitReached(retry) == MaxRetries > 0 /\ retry + 1 >= MaxRetries

\* classify_send_result and classify_send_error for a call of LiveChat.  Only
\* its 429 and 5xx count against the limit: a missing answer is retried without
\* end.
Classify_NewStatus(o, retry) == IF o = "accepted" THEN "SENT" ELSE "DELIVERY_UNKNOWN"
Classify_RetriesUnconfirmed(o, retry) ==
    IF o = "accepted" THEN "SENT" ELSE IF o = "refused" \/ RetryLimitReached(retry) THEN "FAILED" ELSE "PENDING"
Classify(o, retry) ==
    CASE o = "accepted" -> "SENT"
      [] o \in {"unconfirmed", "refused"} -> "FAILED"
      [] o = "busy" -> IF RetryLimitReached(retry) THEN "FAILED" ELSE "PENDING"
      [] o = "lost" -> "PENDING"

\* A lost answer is a fault; the customer may have been shown the row.
Call(w, o, visible) ==
    /\ visible \in MayBeShown(o)
    /\ IF o = "lost" THEN Fault ELSE UNCHANGED faults
    /\ shown' = IF visible THEN [shown EXCEPT ![Cur(w).id] = @ + 1] ELSE shown

HasFallback(kind) == kind = "buttons" \/ (kind = "image" /\ ImageFallback)

\* The send.  An exception leads to the text fallback of buttons and images;
\* the verdict kept is the one of the first exception.
SenderSend(w, o, visible) ==
    /\ worker[w].pc = "send"
    /\ Call(w, o, visible)
    /\ Goto(w, IF o \in Raised /\ HasFallback(KindOf(w)) THEN "fallback" ELSE "mark",
            Classify(o, Cur(w).retry))
    /\ UNCHANGED <<setup, stored, row, human, putOff>>

\* download_file of a staff picture comes before anything is sent.  When Telegram
\* answers 429 or 5xx, or not at all, classify_send_error makes the row
\* RETRYABLE whatever its retry count, and there is no fallback.
SenderPutOff(w) ==
    /\ worker[w].pc = "send" /\ KindOf(w) = "telegram_image"
    /\ putOff[Cur(w).id] < MaxPutOff
    /\ putOff' = [putOff EXCEPT ![Cur(w).id] = @ + 1]
    /\ Goto(w, "mark", "PENDING")
    /\ UNCHANGED <<setup, stored, row, human, shown, faults>>

\* _send_buttons_fallback, _send_image_text_fallback
SenderFallback(w, o, visible) ==
    /\ worker[w].pc = "fallback"
    /\ Call(w, o, visible)
    /\ Goto(w, "mark", IF o \in Raised THEN worker[w].verdict ELSE Classify(o, Cur(w).retry))
    /\ UNCHANGED <<setup, stored, row, human, putOff>>

-----------------------------------------------------------------------------
(* Marks, release of the rest of the group, failures *)

\* process_message_group goes on with the next row after SENT only.
NextRow(w) ==
    LET rest == Tail(worker[w].group)
    IN  worker' = [worker EXCEPT ![w] =
            IF rest = <<>> THEN NoWork ELSE [NoWork EXCEPT !.pc = "check", !.group = rest]]

\* mark_sent_with_message, mark_failed: by id, whatever the row has become.  A
\* retryable row stays locked for its back-off.
MarkedRow(w) ==
    LET v == worker[w].verdict
    IN  [st |-> v, retry |-> row[Cur(w).id].retry + (IF v = "PENDING" THEN 1 ELSE 0),
         locked |-> v = "PENDING"]

SenderMark(w) ==
    /\ worker[w].pc = "mark"
    /\ row' = [row EXCEPT ![Cur(w).id] = MarkedRow(w)]
    /\ IF worker[w].verdict = "SENT" THEN NextRow(w) ELSE Goto(w, "release", "none")
    /\ UNCHANGED <<setup, stored, human, shown, faults, putOff>>

\* The mark raises: process_message_group releases the row, which stays queued.
SenderMarkRaises(w) ==
    /\ worker[w].pc = "mark"
    /\ Fault
    /\ row' = [row EXCEPT ![Cur(w).id].locked = FALSE]
    /\ Goto(w, "release", "none")
    /\ UNCHANGED <<setup, stored, human, shown, putOff>>

\* release_lease for the remaining rows, by id only
SenderRelease(w) ==
    /\ worker[w].pc = "release"
    /\ LET rest == {worker[w].group[i].id : i \in 2 .. Len(worker[w].group)}
       IN  row' = [r \in Ids |-> [row[r] EXCEPT !.locked = @ /\ r \notin rest]]
    /\ worker' = [worker EXCEPT ![w] = NoWork]
    /\ UNCHANGED <<setup, stored, human, shown, faults, putOff>>

SenderCrash(w) ==
    /\ worker[w].pc # "idle"
    /\ Fault
    /\ worker' = [worker EXCEPT ![w] = NoWork]
    /\ UNCHANGED <<setup, stored, row, human, shown, putOff>>

-----------------------------------------------------------------------------
SenderStep(w) ==
    \/ LeasePendingGroup(w)
    \/ SenderCheck(w)
    \/ \E o \in Outcomes, visible \in BOOLEAN :
          SenderSend(w, o, visible) \/ SenderFallback(w, o, visible)
    \/ SenderPutOff(w)
    \/ SenderMark(w)
    \/ SenderRelease(w)

Next ==
    \/ StoreAnswer
    \/ AgentTakesOver
    \/ AgentCancels
    \/ \E w \in Workers : SenderStep(w) \/ SenderMarkRaises(w) \/ SenderCrash(w)
    \/ \E r \in 1 .. MaxRows : LeaseExpires(r)

Spec == Init /\ [][Next]_vars

\* The service runner ticks the senders for ever and leases run out with time.
\* A call of LiveChat may fail every time.
FairSpec ==
    /\ Spec
    /\ \A w \in Workers : WF_vars(SenderStep(w))
    /\ \A r \in 1 .. MaxRows : WF_vars(LeaseExpires(r))

-----------------------------------------------------------------------------
(* Properties *)

\* A row is shown to the customer only when every row that goes before it, by
\* block_index and age, is settled: a block waiting for its retry holds back
\* the rest of the answer, whoever leases it, and a later plain answer never
\* overtakes an earlier one, as long as leases outlive the work.
InOrder ==
    [][LeaseOutlivesWork => \A r \in Ids : shown'[r] > shown[r] =>
          \A q \in 1 .. r - 1 :
             Blocks[q].rank <= Blocks[r].rank => q \notin Queued]_vars

\* The customer sees a row twice only when an answer was lost, a mark failed or
\* a worker died: retries after error codes, fallbacks, releases and leases of
\* other workers add nothing, as long as leases outlive the work.
RepeatsNeedFaults == LeaseOutlivesWork => \A r \in Ids : shown[r] <= 1 + faults

\* A row is retried at most as often as the limit and lost answers allow; a staff
\* picture once more for every download of it that Telegram put off.
RetriesBounded ==
    MaxRetries > 0 /\ LeaseOutlivesWork =>
        \A r \in Ids : row[r].retry < MaxRetries + faults + putOff[r]

\* The sender accounts for what it does: a row the customer sees again is explained by
\* a fault, and a row that LiveChat keeps refusing is given up within the retry limit,
\* which lost answers and put-off downloads alone may stretch.
SendsAccounted == TypeOK /\ RepeatsNeedFaults /\ RetriesBounded

\* Every queued row is settled in the end: sent, failed or skipped, behind
\* however many retries of the rows before it.  Lost answers and put-off
\* downloads, which the code retries without limit, come to an end (MaxFaults,
\* MaxPutOff); LiveChat's error codes need not.
EveryRowSettles ==
    \A r \in 1 .. MaxRows : (r \in Queued) ~> (r \notin Queued)
=============================================================================
