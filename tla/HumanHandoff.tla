---------------------------- MODULE HumanHandoff ----------------------------
(***************************************************************************)
(* One human_handoff.requested command, statement by statement: the        *)
(* workers that lease it, the transfer of the chat in LiveChat, which      *)
(* cannot be undone and may succeed without an answer, and the local       *)
(* writes that record it, each of which may fail on its own.               *)
(*                                                                         *)
(* The command's acknowledgement to the customer has been sent (Takeover   *)
(* treats it), and the worker runs with --execute-human-handoff and        *)
(* --emit-result and a valid configuration.                                *)
(*                                                                         *)
(* An operator X_Suffix before X is a plausible bug of X; nothing uses it. *)
(***************************************************************************)
EXTENDS Naturals, FiniteSets

CONSTANTS
    Workers,            \* external command workers
    NoWorker,           \* locked_by IS NULL
    MaxRetries,         \* --max-retries
    Setups              \* whether no lease runs out under a living worker, and the
                        \* bound of failed statements, failed calls and crashes

ASSUME ConstantsAssumption ==
    /\ NoWorker \notin Workers
    /\ MaxRetries \in Nat \ {0}
    /\ Setups \subseteq [leaseOutlivesWork : BOOLEAN, maxFaults : Nat]

VARIABLES
    setup,      \* one of Setups, for ever
    row,        \* the row of external_commands
    conv,       \* conversation_states.status
    emitted,    \* the result row exists
    transfers,  \* history: transfers LiveChat has carried out
    attempts,   \* history: calls of transfer_chat_to_group
    uncounted,  \* history: passes that ended without a mark on the row
    worker,     \* per worker: where it is
    agent,      \* the webhook handler of an agent's public reply
    faults

vars == <<setup, row, conv, emitted, transfers, attempts, uncounted, worker,
          agent, faults>>

LeaseOutlivesWork == setup.leaseOutlivesWork
MaxFaults == setup.maxFaults

Queued == {"PENDING", "RETRYABLE"}
FailedAfter == "FAILED_AFTER_EXTERNAL_SUCCESS"
Final == {"SENT", "SKIPPED_HUMAN_ACTIVE", "FAILED", "FAILED_CONFIG", "FAILED_BUSINESS",
          "FAILED_UNKNOWN", FailedAfter}
\* human_handoff_stage in payload_json
Stages == {"transfer_attempted", "transfer_succeeded", "conversation_state_updated",
           "result_emitted"}
\* Where a worker is between two awaits.
Points == {"idle", "leased", "ready", "attempting", "transferring", "transferred",
           "recorded", "updated", "emitting", "emitted", "finishing", "marking",
           "rereading", "excepting"}

TypeOK ==
    /\ setup \in Setups
    /\ row \in [status : Queued \cup Final, retry_count : Nat, stage : SUBSET Stages,
                locked_by : Workers \cup {NoWorker}, expired : BOOLEAN]
    /\ conv \in {"HANDOFF_REQUESTED", "HUMAN_ACTIVE"}
    /\ emitted \in BOOLEAN
    /\ transfers \in Nat
    /\ attempts \in Nat
    /\ uncounted \in Nat
    /\ worker \in [Workers -> [pc : Points, stage : SUBSET Stages,
                               mark : Queued \cup Final]]
    /\ agent \in {"none", "marked", "done"}
    /\ faults \in 0 .. MaxFaults

Idle == [pc |-> "idle", stage |-> {}, mark |-> "PENDING"]

\* The gateway's transaction has inserted the command.
Init ==
    /\ setup \in Setups
    /\ row = [status |-> "PENDING", retry_count |-> 0, stage |-> {},
              locked_by |-> NoWorker, expired |-> FALSE]
    /\ conv = "HANDOFF_REQUESTED"
    /\ emitted = FALSE
    /\ transfers = 0 /\ attempts = 0 /\ uncounted = 0
    /\ worker = [w \in Workers |-> Idle]
    /\ agent = "none"
    /\ faults = 0

Fault == faults < MaxFaults /\ faults' = faults + 1

-----------------------------------------------------------------------------
(* Statements on the row.  None of them asks who holds the lease.           *)

WithStatus_EmptyOwner(r, st) == [r EXCEPT !.status = st, !.locked_by = "", !.expired = FALSE]
WithStatus(r, st) == [r EXCEPT !.status = st, !.locked_by = NoWorker, !.expired = FALSE]

\* mark_processing_failed.  MySQL assigns from left to right, so the CASE sees
\* the retry_count that the statement has just incremented.
ProcessingFailed(r) ==
    LET n == r.retry_count + 1
    IN  [WithStatus(r, IF n + 1 >= MaxRetries THEN "FAILED" ELSE "RETRYABLE")
           EXCEPT !.retry_count = n]

\* _mark_command_status
Marked(r, st) == IF st = "RETRYABLE" THEN ProcessingFailed(r) ELSE WithStatus(r, st)

\* merge_payload_json merges the worker's stage into the stored one.
WithStage(r, stage) == [r EXCEPT !.stage = @ \cup stage]

Goto(w, pc) == worker' = [worker EXCEPT ![w].pc = pc]
GotoMark(w, st) == worker' = [worker EXCEPT ![w].pc = "marking", ![w].mark = st]

-----------------------------------------------------------------------------
(* A worker's pass over the command *)

\* locked_by IS NULL OR lease_expires_at < NOW(6)
LeaseFree_NoExpiry == row.locked_by = NoWorker
LeaseFree == row.locked_by = NoWorker \/ row.expired

\* lease_pending: the payload is read with the lease.
Lease(w) ==
    /\ worker[w].pc = "idle"
    /\ row.status \in Queued
    /\ LeaseFree
    /\ row' = [row EXCEPT !.locked_by = w, !.expired = FALSE]
    /\ worker' = [worker EXCEPT ![w] = [Idle EXCEPT !.pc = "leased", !.stage = row.stage]]
    /\ UNCHANGED <<setup, conv, emitted, transfers, attempts, uncounted, agent, faults>>

\* _command_blocked_by_human_active
CheckHumanActive(w) ==
    /\ worker[w].pc = "leased"
    /\ IF conv = "HUMAN_ACTIVE" THEN GotoMark(w, "SKIPPED_HUMAN_ACTIVE") ELSE Goto(w, "ready")
    /\ UNCHANGED <<setup, row, conv, emitted, transfers, attempts, uncounted, agent, faults>>

\* A transfer that an earlier pass recorded is not repeated.
AlreadyTransferred_Never(stage) == FALSE
AlreadyTransferred(stage) == "transfer_succeeded" \in stage

CheckStage(w) ==
    /\ worker[w].pc = "ready"
    /\ IF AlreadyTransferred(worker[w].stage)
       THEN GotoMark(w, FailedAfter)
       ELSE worker' = [worker EXCEPT ![w].pc = "attempting",
                                     ![w].stage = @ \cup {"transfer_attempted"}]
    /\ UNCHANGED <<setup, row, conv, emitted, transfers, attempts, uncounted, agent, faults>>

RecordAttempt(w) ==
    /\ worker[w].pc = "attempting"
    /\ row' = WithStage(row, worker[w].stage)
    /\ Goto(w, "transferring")
    /\ UNCHANGED <<setup, conv, emitted, transfers, attempts, uncounted, agent, faults>>

\* LiveChat carries the transfer out and answers.
Transfer(w) ==
    /\ worker[w].pc = "transferring"
    /\ transfers' = transfers + 1
    /\ attempts' = attempts + 1
    /\ worker' = [worker EXCEPT ![w].pc = "transferred",
                                ![w].stage = @ \cup {"transfer_succeeded"}]
    /\ UNCHANGED <<setup, row, conv, emitted, uncounted, agent, faults>>

\* classify_handoff_error: the call is refused, or its answer is late or lost, in which
\* case it may have been carried out: RETRYABLE for a timeout, FAILED_UNKNOWN for a
\* broken connection.
TransferFails_RepeatsTheCall(w) ==
    /\ worker[w].pc = "transferring"
    /\ Fault
    /\ attempts' = attempts + 1
    /\ UNCHANGED <<setup, worker, transfers, row, conv, emitted, uncounted, agent>>
TransferFails(w) ==
    /\ worker[w].pc = "transferring"
    /\ Fault
    /\ attempts' = attempts + 1
    /\ \/ /\ UNCHANGED transfers
          /\ \E st \in {"RETRYABLE", "FAILED_CONFIG", "FAILED_BUSINESS", "FAILED_UNKNOWN"} :
                GotoMark(w, st)
       \/ /\ transfers' = transfers + 1
          /\ \E st \in {"RETRYABLE", "FAILED_UNKNOWN"} : GotoMark(w, st)
    /\ UNCHANGED <<setup, row, conv, emitted, uncounted, agent>>

\* The local completion: four records and the writes between them.
RecordTransfer(w) ==
    /\ worker[w].pc = "transferred"
    /\ row' = WithStage(row, worker[w].stage)
    /\ Goto(w, "recorded")
    /\ UNCHANGED <<setup, conv, emitted, transfers, attempts, uncounted, agent, faults>>

UpdateConversation(w) ==
    /\ worker[w].pc = "recorded"
    /\ conv' = "HUMAN_ACTIVE"
    /\ worker' = [worker EXCEPT ![w].pc = "updated",
                                ![w].stage = @ \cup {"conversation_state_updated"}]
    /\ UNCHANGED <<setup, row, emitted, transfers, attempts, uncounted, agent, faults>>

RecordUpdate(w) ==
    /\ worker[w].pc = "updated"
    /\ row' = WithStage(row, worker[w].stage)
    /\ Goto(w, "emitting")
    /\ UNCHANGED <<setup, conv, emitted, transfers, attempts, uncounted, agent, faults>>

EmitResult(w) ==
    /\ worker[w].pc = "emitting"
    /\ emitted' = TRUE
    /\ worker' = [worker EXCEPT ![w].pc = "emitted", ![w].stage = @ \cup {"result_emitted"}]
    /\ UNCHANGED <<setup, row, conv, transfers, attempts, uncounted, agent, faults>>

RecordResult(w) ==
    /\ worker[w].pc = "emitted"
    /\ row' = WithStage(row, worker[w].stage)
    /\ Goto(w, "finishing")
    /\ UNCHANGED <<setup, conv, emitted, transfers, attempts, uncounted, agent, faults>>

MarkSent(w) ==
    /\ worker[w].pc = "finishing"
    /\ row' = WithStatus(row, "SENT")
    /\ worker' = [worker EXCEPT ![w] = Idle]
    /\ UNCHANGED <<setup, conv, emitted, transfers, attempts, uncounted, agent, faults>>

\* _mark_command_status; for RETRYABLE the row is read again afterwards.
Mark(w) ==
    /\ worker[w].pc = "marking"
    /\ row' = Marked(row, worker[w].mark)
    /\ worker' = [worker EXCEPT ![w] =
                    IF @.mark = "RETRYABLE" THEN [@ EXCEPT !.pc = "rereading"] ELSE Idle]
    /\ UNCHANGED <<setup, conv, emitted, transfers, attempts, uncounted, agent, faults>>

Reread(w) ==
    /\ worker[w].pc = "rereading"
    /\ worker' = [worker EXCEPT ![w] = Idle]
    /\ UNCHANGED <<setup, row, conv, emitted, transfers, attempts, uncounted, agent, faults>>

\* The outer except of _process_one_pending_command.
Except(w) ==
    /\ worker[w].pc = "excepting"
    /\ row' = ProcessingFailed(row)
    /\ worker' = [worker EXCEPT ![w] = Idle]
    /\ UNCHANGED <<setup, conv, emitted, transfers, attempts, uncounted, agent, faults>>

-----------------------------------------------------------------------------
(* Failures *)

\* Where the except clause of a failed statement leads.
AfterFailure_OneExcept(pc) ==
    CASE pc \in {"leased", "marking", "rereading"} -> {"excepting"}
      [] pc = "excepting" -> {"idle"}
      [] OTHER -> {FailedAfter}
AfterFailure(pc) ==
    CASE pc \in {"transferred", "recorded", "updated", "emitting", "emitted", "finishing"} ->
             {FailedAfter}
      [] pc = "attempting" -> {"RETRYABLE", "FAILED_UNKNOWN"}   \* classify_handoff_error
      [] pc \in {"leased", "marking", "rereading"} -> {"excepting"}
      [] pc = "excepting" -> {"idle"}   \* out of the tick; the lease stays

StatementFails(w) ==
    /\ worker[w].pc \notin {"idle", "ready", "transferring"}
    /\ Fault
    /\ \E to \in AfterFailure(worker[w].pc) :
          IF to \in Points
          THEN worker' = [worker EXCEPT ![w] = IF to = "idle" THEN Idle
                                               ELSE [@ EXCEPT !.pc = to]]
          ELSE GotoMark(w, to)
    /\ uncounted' = IF worker[w].pc = "excepting" THEN uncounted + 1 ELSE uncounted
    /\ UNCHANGED <<setup, row, conv, emitted, transfers, attempts, agent>>

Crash(w) ==
    /\ worker[w].pc # "idle"
    /\ Fault
    /\ worker' = [worker EXCEPT ![w] = Idle]
    /\ uncounted' = uncounted + 1
    /\ UNCHANGED <<setup, row, conv, emitted, transfers, attempts, agent>>

LeaseExpires ==
    /\ row.locked_by # NoWorker /\ ~row.expired
    /\ LeaseOutlivesWork => worker[row.locked_by].pc = "idle"
    /\ row' = [row EXCEPT !.expired = TRUE]
    /\ UNCHANGED <<setup, conv, emitted, transfers, attempts, uncounted, worker, agent, faults>>

\* mark_human_active: an agent replies in public, and the handler then cancels
\* the queued command.
AgentReplies ==
    /\ agent = "none"
    /\ conv' = "HUMAN_ACTIVE"
    /\ agent' = "marked"
    /\ UNCHANGED <<setup, row, emitted, transfers, attempts, uncounted, worker, faults>>

AgentCancels ==
    /\ agent = "marked"
    /\ row' = IF row.status \in Queued THEN WithStatus(row, "SKIPPED_HUMAN_ACTIVE") ELSE row
    /\ agent' = "done"
    /\ UNCHANGED <<setup, conv, emitted, transfers, attempts, uncounted, worker, faults>>

-----------------------------------------------------------------------------
WorkerStep(w) ==
    \/ Lease(w) \/ CheckHumanActive(w) \/ CheckStage(w) \/ RecordAttempt(w)
    \/ Transfer(w) \/ RecordTransfer(w) \/ UpdateConversation(w) \/ RecordUpdate(w)
    \/ EmitResult(w) \/ RecordResult(w) \/ MarkSent(w) \/ Mark(w) \/ Reread(w)
    \/ Except(w)

Next ==
    \/ \E w \in Workers :
          \/ WorkerStep(w)
          \/ TransferFails(w) \/ StatementFails(w) \/ Crash(w)
    \/ LeaseExpires
    \/ AgentReplies \/ AgentCancels

Spec == Init /\ [][Next]_vars

\* The service runner ticks every worker for ever, time passes, and a handler
\* that is not killed goes on.
Fairness ==
    /\ \A w \in Workers : WF_vars(WorkerStep(w))
    /\ WF_vars(LeaseExpires)

FairSpec == Spec /\ Fairness

-----------------------------------------------------------------------------
(* Properties *)

\* A transfer that has been recorded in the payload is never made again,
\* whichever statement fails and whoever leases the command afterwards, as long
\* as no lease runs out under a worker that is still on its way to LiveChat.
RecordedTransferNotRepeated ==
    []["transfer_succeeded" \in row.stage /\ LeaseOutlivesWork => transfers' = transfers]_vars

\* What the row says about LiveChat is true: SENT means that the chat has been
\* transferred, the conversation is HUMAN_ACTIVE and the result is there;
\* FAILED_AFTER_EXTERNAL_SUCCESS means that a person must look because LiveChat
\* has transferred the chat.
StatusTellsTransfer ==
    /\ row.status = "SENT" => transfers > 0 /\ conv = "HUMAN_ACTIVE" /\ emitted
    /\ row.status = FailedAfter => transfers > 0

\* The retry cap holds: calls to LiveChat beyond max_retries are due to passes
\* that died, or could not reach the database, without counting themselves
\* (as long as no lease runs out under a worker that is at it).
AttemptsBounded == LeaseOutlivesWork => attempts <= MaxRetries + uncounted

\* What the command row says is true: its final status tells whether LiveChat has
\* transferred the chat, and its retry counter bounds the calls that were made.
CommandSound == TypeOK /\ StatusTellsTransfer /\ AttemptsBounded

\* The command reaches a final status, whatever fails on the way.
CommandSettles == <>[](row.status \in Final)
=============================================================================
