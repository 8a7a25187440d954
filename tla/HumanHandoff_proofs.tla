------------------------ MODULE HumanHandoff_proofs -------------------------
(***************************************************************************)
(* Proofs about HumanHandoff for every set of workers, every retry limit   *)
(* and every number of faults: the status of the command tells what        *)
(* LiveChat did, and its retry counter bounds the calls.  For a retry      *)
(* limit of at most 3, the default, a recorded transfer is not repeated.   *)
(***************************************************************************)
EXTENDS HumanHandoff, FiniteSetTheorems, TLAPS

-----------------------------------------------------------------------------
(* What the status tells *)

\* Where a worker has LiveChat's consent, has marked the conversation, and has
\* emitted the result.
AfterTransfer == {"transferred", "recorded", "updated", "emitting", "emitted", "finishing"}
AfterUpdate == {"updated", "emitting", "emitted", "finishing"}
AfterResult == {"emitted", "finishing"}

\* A worker is no further than the world outside the row.
WorkerTruthful ==
    \A w \in Workers :
        /\ worker[w].pc \in AfterTransfer => transfers > 0
        /\ worker[w].pc \in AfterUpdate => conv = "HUMAN_ACTIVE"
        /\ worker[w].pc \in AfterResult => emitted
        /\ worker[w].pc = "marking" =>
              /\ worker[w].mark = FailedAfter => transfers > 0
              /\ worker[w].mark \notin {"SENT", "PENDING"}

\* A recorded transfer has been made.
StageTruthful ==
    /\ "transfer_succeeded" \in row.stage => transfers > 0
    /\ \A w \in Workers : "transfer_succeeded" \in worker[w].stage => transfers > 0

Truthful == WorkerTruthful /\ StageTruthful /\ StatusTellsTransfer

-----------------------------------------------------------------------------
(* Who may lease the command *)

\* No lease runs out under a worker that is at work.
LeaseOfIdle ==
    /\ row.expired => row.locked_by # NoWorker
    /\ row.locked_by # NoWorker =>
          /\ row.status \in Queued
          /\ worker[row.locked_by].pc # "rereading"
          /\ row.expired /\ LeaseOutlivesWork => worker[row.locked_by].pc = "idle"

\* The command can be leased, now or once the lease of a dead worker runs out.
Free ==
    /\ row.status \in Queued
    /\ row.locked_by # NoWorker => worker[row.locked_by].pc = "idle"

-----------------------------------------------------------------------------
(* How many calls are left *)

\* Workers that may still call LiveChat in the pass they are in.
BeforeTransfer == {"leased", "ready", "attempting", "transferring"}
Trying == {w \in Workers : worker[w].pc \in BeforeTransfer}

\* Whether another pass may begin, and how often a failure may still allow one more.
Room == IF Free THEN 1 ELSE 0
Left == IF row.retry_count < MaxRetries THEN MaxRetries - 1 - row.retry_count ELSE 0

\* Calls made, calls that may still be made in a pass, and calls of later passes.
Budget ==
    /\ IsFiniteSet(Trying)
    /\ LeaseOutlivesWork =>
          attempts + Cardinality(Trying) + Room + Left <= MaxRetries + uncounted

\* The inductive invariant of CommandSound.
Inv == TypeOK /\ Truthful /\ LeaseOfIdle /\ Budget

-----------------------------------------------------------------------------
(* Whose pass it is, when a command is retried at most once *)

\* Workers that may still read or write the stages of the transfer.
Engaged == {w \in Workers : worker[w].pc \notin {"idle", "rereading", "excepting"}}

\* At most one worker is engaged, the one that holds the lease if any does, and none
\* while the command can be leased.  Before the first failure has been counted
\* no worker reads the row again.
OnePass ==
    /\ \A v, w \in Engaged : v = w
    /\ Free => Engaged = {}
    /\ row.locked_by # NoWorker => Engaged \subseteq {row.locked_by}
    /\ row.status \in Queued => row.retry_count <= 1
    /\ row.retry_count = 0 =>
          /\ \A v, w \in Workers : worker[v].pc # "idle" /\ worker[w].pc # "idle" => v = w
          /\ \A w \in Workers : worker[w].pc # "rereading"
          /\ Free => \A w \in Workers : worker[w].pc = "idle"

\* The engaged worker knows whether a transfer is recorded, and is on its way to
\* LiveChat only if none is.
StageKnown ==
    \A w \in Workers :
        /\ worker[w].pc \in {"leased", "ready"} =>
              ("transfer_succeeded" \in row.stage => "transfer_succeeded" \in worker[w].stage)
        /\ worker[w].pc \in {"attempting", "transferring"} =>
              /\ "transfer_succeeded" \notin row.stage
              /\ "transfer_succeeded" \notin worker[w].stage

\* The inductive invariant of RecordedTransferNotRepeated.
PassInv == LeaseOutlivesWork => OnePass /\ StageKnown
-----------------------------------------------------------------------------
(* The types, named *)

USE DEF vars, Fault, LeaseOutlivesWork, MaxFaults

Rows == [status : Queued \cup Final, retry_count : Nat, stage : SUBSET Stages,
         locked_by : Workers \cup {NoWorker}, expired : BOOLEAN]
WorkerStates == [pc : Points, stage : SUBSET Stages, mark : Queued \cup Final]

\* The statements on the row return rows.
LEMMA RowsTyped ==
    ASSUME NEW r \in Rows, NEW st \in Queued \cup Final, NEW stage \in SUBSET Stages
    PROVE  /\ WithStatus(r, st) \in Rows
           /\ ProcessingFailed(r) \in Rows
           /\ Marked(r, st) \in Rows
           /\ WithStage(r, stage) \in Rows
<1>1. \A s \in Queued \cup Final : WithStatus(r, s) \in Rows
  BY DEF WithStatus, Rows
<1>2. ProcessingFailed(r) \in Rows
  <2>1. "FAILED" \in Queued \cup Final /\ "RETRYABLE" \in Queued \cup Final
    BY DEF Queued, Final
  <2>2. r.retry_count + 1 \in Nat
    BY DEF Rows
  <2>. QED  BY <1>1, <2>1, <2>2 DEF ProcessingFailed, Rows
<1>3. Marked(r, st) \in Rows
  BY <1>1, <1>2 DEF Marked
<1>4. WithStage(r, stage) \in Rows
  BY DEF WithStage, Rows
<1>. QED  BY <1>1, <1>2, <1>3, <1>4

\* The type invariant, with its record types named.
Typed ==
    /\ setup \in Setups
    /\ row \in Rows
    /\ conv \in {"HANDOFF_REQUESTED", "HUMAN_ACTIVE"}
    /\ emitted \in BOOLEAN
    /\ transfers \in Nat /\ attempts \in Nat /\ uncounted \in Nat
    /\ worker \in [Workers -> WorkerStates]
    /\ agent \in {"none", "marked", "done"}
    /\ faults \in 0 .. setup.maxFaults

\* The type invariant is the same with its record types named.
LEMMA TypedIsTypeOK == TypeOK <=> Typed
BY DEF TypeOK, Typed, Rows, WorkerStates

-----------------------------------------------------------------------------
(* What each action does to the worker that takes it *)

\* Worker w, and no other, is where it is said to be.
Moved(w, pc, stage, mark) ==
    /\ worker' \in [Workers -> WorkerStates]
    /\ worker'[w].pc = pc /\ worker'[w].stage = stage /\ worker'[w].mark = mark
    /\ \A v \in Workers : v # w => worker'[v] = worker[v]

\* The ways in which the actions write a worker's state are such moves.
LEMMA Moves ==
    ASSUME Typed, NEW w \in Workers, NEW pc \in Points, NEW st \in Queued \cup Final,
           NEW stage \in SUBSET Stages
    PROVE  /\ Goto(w, pc) => Moved(w, pc, worker[w].stage, worker[w].mark)
           /\ GotoMark(w, st) => Moved(w, "marking", worker[w].stage, st)
           /\ worker' = [worker EXCEPT ![w] = Idle] => Moved(w, "idle", {}, "PENDING")
           /\ worker' = [worker EXCEPT ![w].pc = pc, ![w].stage = @ \cup stage]
                 => Moved(w, pc, worker[w].stage \cup stage, worker[w].mark)
           /\ worker' = [worker EXCEPT ![w] = [Idle EXCEPT !.pc = pc, !.stage = stage]]
                 => Moved(w, pc, stage, "PENDING")
<1>. USE DEF Moved
<1>1. Idle \in WorkerStates /\ Idle.pc = "idle" /\ Idle.stage = {} /\ Idle.mark = "PENDING"
  BY DEF Idle, WorkerStates, Points, Queued
<1>2. Goto(w, pc) => Moved(w, pc, worker[w].stage, worker[w].mark)
  BY DEF Goto, Typed, WorkerStates
<1>3. GotoMark(w, st) => Moved(w, "marking", worker[w].stage, st)
  <2>1. "marking" \in Points
    BY DEF Points
  <2>. QED  BY <2>1 DEF GotoMark, Typed, WorkerStates
<1>4. worker' = [worker EXCEPT ![w].pc = pc, ![w].stage = @ \cup stage]
         => Moved(w, pc, worker[w].stage \cup stage, worker[w].mark)
  <2>. DEFINE f == [worker EXCEPT ![w].pc = pc, ![w].stage = @ \cup stage]
  <2>1. f \in [Workers -> WorkerStates]
    BY DEF Typed, WorkerStates
  <2>2. f[w].pc = pc /\ f[w].mark = worker[w].mark
    BY DEF Typed, WorkerStates
  <2>3. f[w].stage = worker[w].stage \cup stage
    BY DEF Typed, WorkerStates
  <2>4. \A v \in Workers : v # w => f[v] = worker[v]
    BY DEF Typed, WorkerStates
  <2>. QED  BY <2>1, <2>2, <2>3, <2>4
<1>5. worker' = [worker EXCEPT ![w] = [Idle EXCEPT !.pc = pc, !.stage = stage]]
         => Moved(w, pc, stage, "PENDING")
  BY DEF Typed, Idle, WorkerStates, Queued
<1>6. worker' = [worker EXCEPT ![w] = Idle] => Moved(w, "idle", {}, "PENDING")
  BY <1>1 DEF Typed
<1>. QED  BY <1>2, <1>3, <1>4, <1>5, <1>6

\* The names of the places and statuses the actions use.
LEMMA NamesTyped ==
    /\ {"leased", "ready", "attempting", "transferring", "transferred", "recorded",
        "updated", "emitting", "emitted", "finishing", "marking", "rereading",
        "excepting", "idle"} = Points
    /\ {"RETRYABLE", "FAILED_CONFIG", "FAILED_BUSINESS", "FAILED_UNKNOWN", FailedAfter,
        "SKIPPED_HUMAN_ACTIVE", "SENT", "PENDING", "FAILED"} = Queued \cup Final
    /\ {"transfer_attempted", "transfer_succeeded", "conversation_state_updated",
        "result_emitted"} = Stages
BY DEF Points, Queued, Final, Stages
\* The row after a step.
RowIs(status, retries, stage, holder, expired) ==
    /\ row' \in Rows
    /\ row'.status = status /\ row'.retry_count = retries /\ row'.stage = stage
    /\ row'.locked_by = holder /\ row'.expired = expired

\* Only the stages recorded in the row change, or its status with the lease given up.
RowRecords(w) ==
    RowIs(row.status, row.retry_count, row.stage \cup worker[w].stage, row.locked_by,
          row.expired)
RowMarked(st) == RowIs(st, row.retry_count, row.stage, NoWorker, FALSE)
RowRetried ==
    RowIs(IF row.retry_count + 2 >= MaxRetries THEN "FAILED" ELSE "RETRYABLE",
          row.retry_count + 1, row.stage, NoWorker, FALSE)

\* Worker w gets to pc with its stages; MovesOn adds one, MovesToMark sets the mark.
MovesTo(w, pc) == Moved(w, pc, worker[w].stage, worker[w].mark)
MovesOn(w, pc, stage) == Moved(w, pc, worker[w].stage \cup {stage}, worker[w].mark)
MovesToMark(w, st) == Moved(w, "marking", worker[w].stage, st)
MovesToIdle(w) == Moved(w, "idle", {}, "PENDING")

\* The statements on the row as such changes.
LEMMA RowWrites ==
    ASSUME Typed, NEW w \in Workers
    PROVE  /\ row' = WithStage(row, worker[w].stage) => RowRecords(w)
           /\ \A st \in Queued \cup Final : row' = WithStatus(row, st) => RowMarked(st)
           /\ row' = ProcessingFailed(row) => RowRetried
           /\ row' = [row EXCEPT !.locked_by = w, !.expired = FALSE]
                 => RowIs(row.status, row.retry_count, row.stage, w, FALSE)
<1>1. row \in Rows /\ worker[w].stage \in SUBSET Stages
  BY DEF Typed, WorkerStates
<1>2. row' = WithStage(row, worker[w].stage) => RowRecords(w)
  BY <1>1 DEF RowRecords, RowIs, WithStage, Rows
<1>3. \A st \in Queued \cup Final : row' = WithStatus(row, st) => RowMarked(st)
  BY <1>1 DEF RowMarked, RowIs, WithStatus, Rows
<1>4. row' = ProcessingFailed(row) => RowRetried
  <2>1. "FAILED" \in Queued \cup Final /\ {} \in SUBSET Stages
    BY NamesTyped
  <2>2. ProcessingFailed(row) \in Rows
    BY <1>1, <2>1, RowsTyped
  <2>. QED
    BY <1>1, <2>2, ConstantsAssumption
       DEF RowRetried, RowIs, ProcessingFailed, WithStatus, Rows
<1>5. row' = [row EXCEPT !.locked_by = w, !.expired = FALSE]
         => RowIs(row.status, row.retry_count, row.stage, w, FALSE)
  BY <1>1 DEF RowIs, Rows
<1>. QED  BY <1>2, <1>3, <1>4, <1>5

\* What a worker's pass changes, up to the call of LiveChat.
LEMMA EffectBefore ==
    ASSUME Typed, NEW w \in Workers
    PROVE  /\ Lease(w) => /\ Moved(w, "leased", row.stage, "PENDING")
                         /\ RowIs(row.status, row.retry_count, row.stage, w, FALSE)
           /\ CheckHumanActive(w) =>
                 MovesTo(w, "ready") \/ MovesToMark(w, "SKIPPED_HUMAN_ACTIVE")
           /\ CheckStage(w) =>
                 \/ /\ "transfer_succeeded" \in worker[w].stage
                    /\ MovesToMark(w, FailedAfter)
                 \/ /\ "transfer_succeeded" \notin worker[w].stage
                    /\ MovesOn(w, "attempting", "transfer_attempted")
           /\ RecordAttempt(w) => MovesTo(w, "transferring") /\ RowRecords(w)
           /\ Transfer(w) => MovesOn(w, "transferred", "transfer_succeeded")
           /\ TransferFails(w) =>
                 \E st \in {"RETRYABLE", "FAILED_CONFIG", "FAILED_BUSINESS", "FAILED_UNKNOWN"} :
                    MovesToMark(w, st)
<1>. USE DEF MovesTo, MovesOn, MovesToMark
<1>1. row.stage \in SUBSET Stages /\ worker[w].stage \in SUBSET Stages
  BY DEF Typed, Rows, WorkerStates
<1>2. Lease(w) => /\ Moved(w, "leased", row.stage, "PENDING")
                  /\ RowIs(row.status, row.retry_count, row.stage, w, FALSE)
  <2>1. "leased" \in Points /\ "PENDING" \in Queued \cup Final
    BY NamesTyped
  <2>. QED  BY <1>1, <2>1, Moves, RowWrites DEF Lease
<1>3. CheckHumanActive(w) =>
        MovesTo(w, "ready") \/ MovesToMark(w, "SKIPPED_HUMAN_ACTIVE")
  <2>1. "ready" \in Points /\ "SKIPPED_HUMAN_ACTIVE" \in Queued \cup Final
    BY NamesTyped
  <2>. QED  BY <1>1, <2>1, Moves DEF CheckHumanActive
<1>4. CheckStage(w) =>
        \/ "transfer_succeeded" \in worker[w].stage /\ MovesToMark(w, FailedAfter)
        \/ /\ "transfer_succeeded" \notin worker[w].stage
           /\ MovesOn(w, "attempting", "transfer_attempted")
  <2>1. /\ "attempting" \in Points /\ FailedAfter \in Queued \cup Final
        /\ {"transfer_attempted"} \in SUBSET Stages
    BY NamesTyped
  <2>. QED  BY <1>1, <2>1, Moves DEF CheckStage, AlreadyTransferred
<1>5. RecordAttempt(w) => MovesTo(w, "transferring") /\ RowRecords(w)
  <2>1. "transferring" \in Points /\ "PENDING" \in Queued \cup Final
    BY NamesTyped
  <2>. QED  BY <1>1, <2>1, Moves, RowWrites DEF RecordAttempt
<1>6. Transfer(w) => MovesOn(w, "transferred", "transfer_succeeded")
  <2>1. /\ "transferred" \in Points /\ "PENDING" \in Queued \cup Final
        /\ {"transfer_succeeded"} \in SUBSET Stages
    BY NamesTyped
  <2>. QED  BY <1>1, <2>1, Moves DEF Transfer
<1>7. TransferFails(w) =>
        \E st \in {"RETRYABLE", "FAILED_CONFIG", "FAILED_BUSINESS", "FAILED_UNKNOWN"} :
           MovesToMark(w, st)
  <2>1. /\ {"RETRYABLE", "FAILED_CONFIG", "FAILED_BUSINESS", "FAILED_UNKNOWN"}
              \subseteq Queued \cup Final
        /\ "idle" \in Points
    BY NamesTyped
  <2>2. \A st \in Queued \cup Final : GotoMark(w, st) => MovesToMark(w, st)
    BY <1>1, <2>1, Moves
  <2>. QED  BY <2>1, <2>2 DEF TransferFails
<1>. QED  BY <1>2, <1>3, <1>4, <1>5, <1>6, <1>7

\* What a worker's pass changes after the call.
LEMMA EffectAfter ==
    ASSUME Typed, NEW w \in Workers
    PROVE  /\ RecordTransfer(w) => MovesTo(w, "recorded") /\ RowRecords(w)
           /\ UpdateConversation(w) => MovesOn(w, "updated", "conversation_state_updated")
           /\ RecordUpdate(w) => MovesTo(w, "emitting") /\ RowRecords(w)
           /\ EmitResult(w) => MovesOn(w, "emitted", "result_emitted")
           /\ RecordResult(w) => MovesTo(w, "finishing") /\ RowRecords(w)
           /\ MarkSent(w) => MovesToIdle(w) /\ RowMarked("SENT")
           /\ Mark(w) => \/ /\ worker[w].mark = "RETRYABLE"
                           /\ MovesTo(w, "rereading") /\ RowRetried
                        \/ /\ worker[w].mark # "RETRYABLE"
                           /\ MovesToIdle(w) /\ RowMarked(worker[w].mark)
           /\ Reread(w) => MovesToIdle(w)
           /\ Except(w) => MovesToIdle(w) /\ RowRetried
<1>. USE DEF MovesTo, MovesOn, MovesToIdle
<1>1. worker[w].stage \in SUBSET Stages /\ worker[w].mark \in Queued \cup Final
  BY DEF Typed, WorkerStates
<1>2. /\ "conversation_state_updated" \in Stages /\ "result_emitted" \in Stages
      /\ {"recorded", "updated", "emitting", "emitted", "finishing", "rereading"}
            \subseteq Points
      /\ "SENT" \in Queued \cup Final /\ {} \in SUBSET Stages
  BY NamesTyped
<1>3. RecordTransfer(w) => MovesTo(w, "recorded") /\ RowRecords(w)
  BY <1>1, <1>2, Moves, RowWrites DEF RecordTransfer
<1>4. UpdateConversation(w) => MovesOn(w, "updated", "conversation_state_updated")
  <2>1. {"conversation_state_updated"} \in SUBSET Stages
    BY <1>2
  <2>. QED  BY <1>1, <1>2, <2>1, Moves DEF UpdateConversation
<1>5. RecordUpdate(w) => MovesTo(w, "emitting") /\ RowRecords(w)
  BY <1>1, <1>2, Moves, RowWrites DEF RecordUpdate
<1>6. EmitResult(w) => MovesOn(w, "emitted", "result_emitted")
  <2>1. {"result_emitted"} \in SUBSET Stages
    BY <1>2
  <2>. QED  BY <1>1, <1>2, <2>1, Moves DEF EmitResult
<1>7. RecordResult(w) => MovesTo(w, "finishing") /\ RowRecords(w)
  BY <1>1, <1>2, Moves, RowWrites DEF RecordResult
<1>8. MarkSent(w) => MovesToIdle(w) /\ RowMarked("SENT")
  BY <1>1, <1>2, Moves, RowWrites DEF MarkSent
<1>9. Mark(w) => \/ /\ worker[w].mark = "RETRYABLE"
                    /\ MovesTo(w, "rereading") /\ RowRetried
                 \/ /\ worker[w].mark # "RETRYABLE"
                    /\ MovesToIdle(w) /\ RowMarked(worker[w].mark)
  <2>1. CASE worker[w].mark = "RETRYABLE"
    <3>1. [worker EXCEPT ![w] =
              IF @.mark = "RETRYABLE" THEN [@ EXCEPT !.pc = "rereading"] ELSE Idle]
          = [worker EXCEPT ![w].pc = "rereading"]
      BY <2>1 DEF Typed
    <3>2. Mark(w) => Goto(w, "rereading")
      BY <3>1 DEF Mark, Goto
    <3>3. Mark(w) => row' = ProcessingFailed(row)
      BY <2>1 DEF Mark, Marked
    <3>. QED  BY <1>1, <1>2, <2>1, <3>2, <3>3, Moves, RowWrites
  <2>2. CASE worker[w].mark # "RETRYABLE"
    <3>1. Mark(w) => worker' = [worker EXCEPT ![w] = Idle]
      BY <2>2 DEF Mark, Typed
    <3>2. Mark(w) => row' = WithStatus(row, worker[w].mark)
      BY <2>2 DEF Mark, Marked
    <3>. QED  BY <1>1, <1>2, <2>2, <3>1, <3>2, Moves, RowWrites
  <2>. QED  BY <2>1, <2>2
<1>10. Reread(w) => MovesToIdle(w)
  BY <1>1, <1>2, Moves DEF Reread
<1>11. Except(w) => MovesToIdle(w) /\ RowRetried
  BY <1>1, <1>2, Moves, RowWrites DEF Except
<1>. QED  BY <1>3, <1>4, <1>5, <1>6, <1>7, <1>8, <1>9, <1>10, <1>11

\* Where a failed statement or a crash puts the worker.
LEMMA EffectOfFailure ==
    ASSUME Typed, NEW w \in Workers
    PROVE  /\ Crash(w) => MovesToIdle(w)
           /\ StatementFails(w) =>
                 \/ worker[w].pc \in AfterTransfer /\ MovesToMark(w, FailedAfter)
                 \/ /\ worker[w].pc = "attempting"
                    /\ MovesToMark(w, "RETRYABLE") \/ MovesToMark(w, "FAILED_UNKNOWN")
                 \/ /\ worker[w].pc \in {"leased", "marking", "rereading"}
                    /\ MovesTo(w, "excepting")
                 \/ worker[w].pc = "excepting" /\ MovesToIdle(w)
<1>. USE DEF MovesTo, MovesToMark, MovesToIdle
<1>1. worker[w].stage \in SUBSET Stages /\ worker[w].mark \in Queued \cup Final
      /\ worker[w].pc \in Points
  BY DEF Typed, WorkerStates
<1>2. /\ "excepting" \in Points
      /\ {FailedAfter, "RETRYABLE", "FAILED_UNKNOWN"} \subseteq Queued \cup Final
  BY NamesTyped
<1>3. Crash(w) => MovesToIdle(w)
  BY <1>1, <1>2, Moves DEF Crash
<1>4. ASSUME StatementFails(w), worker[w].pc \in AfterTransfer
      PROVE  MovesToMark(w, FailedAfter)
  <2>1. GotoMark(w, FailedAfter)
    BY <1>4 DEF StatementFails, AfterFailure, AfterTransfer, Points, FailedAfter
  <2>. QED  BY <1>1, <1>2, <2>1, Moves
<1>5. ASSUME StatementFails(w), worker[w].pc = "attempting"
      PROVE  MovesToMark(w, "RETRYABLE") \/ MovesToMark(w, "FAILED_UNKNOWN")
  <2>1. GotoMark(w, "RETRYABLE") \/ GotoMark(w, "FAILED_UNKNOWN")
    BY <1>5 DEF StatementFails, AfterFailure, Points
  <2>. QED  BY <1>1, <1>2, <2>1, Moves
<1>6. ASSUME StatementFails(w), worker[w].pc \in {"leased", "marking", "rereading"}
      PROVE  MovesTo(w, "excepting")
  <2>1. worker' = [worker EXCEPT ![w] = [@ EXCEPT !.pc = "excepting"]]
    BY <1>6 DEF StatementFails, AfterFailure, Points
  <2>2. Goto(w, "excepting")
    BY <2>1 DEF Goto
  <2>. QED  BY <1>1, <1>2, <2>2, Moves
<1>7. ASSUME StatementFails(w), worker[w].pc = "excepting" PROVE MovesToIdle(w)
  <2>1. worker' = [worker EXCEPT ![w] = Idle]
    BY <1>7 DEF StatementFails, AfterFailure, Points
  <2>. QED  BY <1>1, <1>2, <2>1, Moves
<1>8. StatementFails(w) =>
        worker[w].pc \in AfterTransfer \cup {"attempting", "leased", "marking", "rereading",
                                            "excepting"}
  BY <1>1 DEF StatementFails, AfterTransfer, Points
<1>. QED  BY <1>3, <1>4, <1>5, <1>6, <1>7, <1>8
-----------------------------------------------------------------------------
(* Type correctness *)

\* Every step keeps the types.
LEMMA TypeStep ==
    ASSUME Typed, [Next]_vars
    PROVE  Typed'
<1>. USE DEF Moved, MovesTo, MovesOn, MovesToMark, MovesToIdle,
             RowIs, RowRecords, RowMarked, RowRetried
<1>1. ASSUME NEW w \in Workers, Lease(w) PROVE Typed'
  BY <1>1, EffectBefore DEF Lease, Typed
<1>2. ASSUME NEW w \in Workers, CheckHumanActive(w) PROVE Typed'
  BY <1>2, EffectBefore DEF CheckHumanActive, Typed
<1>3. ASSUME NEW w \in Workers, CheckStage(w) PROVE Typed'
  BY <1>3, EffectBefore DEF CheckStage, Typed
<1>4. ASSUME NEW w \in Workers, RecordAttempt(w) PROVE Typed'
  BY <1>4, EffectBefore DEF RecordAttempt, Typed
<1>5. ASSUME NEW w \in Workers, Transfer(w) PROVE Typed'
  <2>1. worker' \in [Workers -> WorkerStates]
    BY <1>5, EffectBefore
  <2>. QED  BY <1>5, <2>1 DEF Transfer, Typed
<1>6. ASSUME NEW w \in Workers, TransferFails(w) PROVE Typed'
  <2>1. worker' \in [Workers -> WorkerStates]
    BY <1>6, EffectBefore
  <2>2. faults' \in 0 .. setup.maxFaults
    BY <1>6, ConstantsAssumption DEF TransferFails, Typed
  <2>. QED  BY <1>6, <2>1, <2>2 DEF TransferFails, Typed
<1>7. ASSUME NEW w \in Workers, RecordTransfer(w) PROVE Typed'
  BY <1>7, EffectAfter DEF RecordTransfer, Typed
<1>8. ASSUME NEW w \in Workers, UpdateConversation(w) PROVE Typed'
  BY <1>8, EffectAfter DEF UpdateConversation, Typed
<1>9. ASSUME NEW w \in Workers, RecordUpdate(w) PROVE Typed'
  BY <1>9, EffectAfter DEF RecordUpdate, Typed
<1>10. ASSUME NEW w \in Workers, EmitResult(w) PROVE Typed'
  BY <1>10, EffectAfter DEF EmitResult, Typed
<1>11. ASSUME NEW w \in Workers, RecordResult(w) PROVE Typed'
  BY <1>11, EffectAfter DEF RecordResult, Typed
<1>12. ASSUME NEW w \in Workers, MarkSent(w) PROVE Typed'
  BY <1>12, EffectAfter DEF MarkSent, Typed
<1>13. ASSUME NEW w \in Workers, Mark(w) PROVE Typed'
  BY <1>13, EffectAfter DEF Mark, Typed
<1>14. ASSUME NEW w \in Workers, Reread(w) PROVE Typed'
  BY <1>14, EffectAfter DEF Reread, Typed
<1>15. ASSUME NEW w \in Workers, Except(w) PROVE Typed'
  BY <1>15, EffectAfter DEF Except, Typed
<1>16. ASSUME NEW w \in Workers, StatementFails(w) PROVE Typed'
  <2>1. worker' \in [Workers -> WorkerStates]
    BY <1>16, EffectOfFailure
  <2>2. faults' \in 0 .. setup.maxFaults
    BY <1>16, ConstantsAssumption DEF StatementFails, Typed
  <2>. QED  BY <1>16, <2>1, <2>2 DEF StatementFails, Typed
<1>17. ASSUME NEW w \in Workers, Crash(w) PROVE Typed'
  <2>1. worker' \in [Workers -> WorkerStates]
    BY <1>17, EffectOfFailure
  <2>2. faults' \in 0 .. setup.maxFaults
    BY <1>17, ConstantsAssumption DEF Crash, Typed
  <2>. QED  BY <1>17, <2>1, <2>2 DEF Crash, Typed
<1>18. ASSUME LeaseExpires PROVE Typed'
  BY <1>18 DEF LeaseExpires, Typed, Rows
<1>19. ASSUME AgentReplies PROVE Typed'
  BY <1>19 DEF AgentReplies, Typed
<1>20. ASSUME AgentCancels PROVE Typed'
  <2>1. "SKIPPED_HUMAN_ACTIVE" \in Queued \cup Final /\ {} \in SUBSET Stages
    BY NamesTyped
  <2>. QED  BY <1>20, <2>1, RowsTyped DEF AgentCancels, Typed
<1>21. ASSUME UNCHANGED vars PROVE Typed'
  BY <1>21 DEF Typed
<1>. QED
  BY <1>1, <1>2, <1>3, <1>4, <1>5, <1>6, <1>7, <1>8, <1>9, <1>10, <1>11,
     <1>12, <1>13, <1>14, <1>15, <1>16, <1>17, <1>18, <1>19, <1>20, <1>21
     DEF Next, WorkerStep

-----------------------------------------------------------------------------
(* What the status tells *)

\* Every step keeps the workers, the stages and the status truthful.
LEMMA TruthStep ==
    ASSUME Typed, Truthful, [Next]_vars
    PROVE  Truthful'
<1>. USE DEF Moved, MovesTo, MovesOn, MovesToMark, MovesToIdle,
             RowIs, RowRecords, RowMarked, RowRetried,
             Truthful, WorkerTruthful, StageTruthful, StatusTellsTransfer
<1>. USE DEF AfterTransfer, AfterUpdate, AfterResult
<1>1. ASSUME NEW w \in Workers, Lease(w) PROVE Truthful'
  BY <1>1, EffectBefore DEF Lease, Typed, WorkerStates, FailedAfter
<1>2. ASSUME NEW w \in Workers, CheckHumanActive(w) PROVE Truthful'
  BY <1>2, EffectBefore DEF CheckHumanActive, Typed, WorkerStates, FailedAfter
<1>3. ASSUME NEW w \in Workers, CheckStage(w) PROVE Truthful'
  <2>1. \/ "transfer_succeeded" \in worker[w].stage /\ MovesToMark(w, FailedAfter)
        \/ MovesOn(w, "attempting", "transfer_attempted")
    BY <1>3, EffectBefore
  <2>. QED  BY <1>3, <2>1 DEF CheckStage, FailedAfter
<1>4. ASSUME NEW w \in Workers, RecordAttempt(w) PROVE Truthful'
  BY <1>4, EffectBefore DEF RecordAttempt, Typed, WorkerStates, FailedAfter
<1>5. ASSUME NEW w \in Workers, Transfer(w) PROVE Truthful'
  <2>1. MovesOn(w, "transferred", "transfer_succeeded")
    BY <1>5, EffectBefore
  <2>2. transfers' > 0
    BY <1>5 DEF Transfer, Typed
  <2>. QED  BY <1>5, <2>1, <2>2 DEF Transfer
<1>6. ASSUME NEW w \in Workers, TransferFails(w) PROVE Truthful'
  <2>1. PICK st \in {"RETRYABLE", "FAILED_CONFIG", "FAILED_BUSINESS", "FAILED_UNKNOWN"} :
          MovesToMark(w, st)
    BY <1>6, EffectBefore
  <2>2. transfers > 0 => transfers' > 0
    BY <1>6 DEF TransferFails, Typed
  <2>. QED  BY <1>6, <2>1, <2>2 DEF TransferFails, FailedAfter
<1>7. ASSUME NEW w \in Workers, RecordTransfer(w) PROVE Truthful'
  BY <1>7, EffectAfter DEF RecordTransfer, Typed, WorkerStates, FailedAfter
<1>8. ASSUME NEW w \in Workers, UpdateConversation(w) PROVE Truthful'
  BY <1>8, EffectAfter DEF UpdateConversation, Typed, WorkerStates, FailedAfter
<1>9. ASSUME NEW w \in Workers, RecordUpdate(w) PROVE Truthful'
  BY <1>9, EffectAfter DEF RecordUpdate, Typed, WorkerStates, FailedAfter
<1>10. ASSUME NEW w \in Workers, EmitResult(w) PROVE Truthful'
  BY <1>10, EffectAfter DEF EmitResult, Typed, WorkerStates, FailedAfter
<1>11. ASSUME NEW w \in Workers, RecordResult(w) PROVE Truthful'
  BY <1>11, EffectAfter DEF RecordResult, Typed, WorkerStates, FailedAfter
<1>12. ASSUME NEW w \in Workers, MarkSent(w) PROVE Truthful'
  BY <1>12, EffectAfter DEF MarkSent, Typed, WorkerStates, FailedAfter
<1>13. ASSUME NEW w \in Workers, Mark(w) PROVE Truthful'
  <2>1. CASE worker[w].mark = "RETRYABLE"
    BY <1>13, <2>1, EffectAfter DEF Mark, FailedAfter
  <2>2. CASE worker[w].mark # "RETRYABLE"
    <3>1. MovesToIdle(w) /\ RowMarked(worker[w].mark)
      BY <1>13, <2>2, EffectAfter
    <3>. QED  BY <1>13, <3>1 DEF Mark
  <2>. QED  BY <2>1, <2>2
<1>14. ASSUME NEW w \in Workers, Reread(w) PROVE Truthful'
  BY <1>14, EffectAfter DEF Reread, Typed, WorkerStates, FailedAfter
<1>15. ASSUME NEW w \in Workers, Except(w) PROVE Truthful'
  BY <1>15, EffectAfter DEF Except, Typed, WorkerStates, FailedAfter
<1>16. ASSUME NEW w \in Workers, StatementFails(w) PROVE Truthful'
  BY <1>16, EffectOfFailure DEF StatementFails, Typed, WorkerStates, FailedAfter
<1>17. ASSUME NEW w \in Workers, Crash(w) PROVE Truthful'
  BY <1>17, EffectOfFailure DEF Crash, Typed, WorkerStates, FailedAfter
<1>18. ASSUME LeaseExpires PROVE Truthful'
  BY <1>18 DEF LeaseExpires, Typed, WorkerStates, Rows, WithStatus, FailedAfter
<1>19. ASSUME AgentReplies PROVE Truthful'
  BY <1>19 DEF AgentReplies, Typed, WorkerStates, Rows, WithStatus, FailedAfter
<1>20. ASSUME AgentCancels PROVE Truthful'
  BY <1>20 DEF AgentCancels, Typed, WorkerStates, Rows, WithStatus, FailedAfter
<1>21. ASSUME UNCHANGED vars PROVE Truthful'
  BY <1>21 DEF Typed
<1>. QED
  BY <1>1, <1>2, <1>3, <1>4, <1>5, <1>6, <1>7, <1>8, <1>9, <1>10, <1>11,
     <1>12, <1>13, <1>14, <1>15, <1>16, <1>17, <1>18, <1>19, <1>20, <1>21
     DEF Next, WorkerStep
-----------------------------------------------------------------------------
(* Who may lease the command *)

\* Every step leaves the lease with a worker that is at work, or free to be taken.
LEMMA LeaseStep ==
    ASSUME Typed, LeaseOfIdle, [Next]_vars
    PROVE  LeaseOfIdle'
<1>. USE ConstantsAssumption DEF Moved, MovesTo, MovesOn, MovesToMark, MovesToIdle,
             RowIs, RowRecords, RowMarked, RowRetried, LeaseOfIdle
<1>0. row.locked_by # NoWorker => row.locked_by \in Workers
  BY DEF Typed, Rows
<1>1. ASSUME NEW w \in Workers, Lease(w) PROVE LeaseOfIdle'
  BY <1>1, EffectBefore DEF Lease, Typed, Rows
<1>2. ASSUME NEW w \in Workers, CheckHumanActive(w) PROVE LeaseOfIdle'
  BY <1>2, EffectBefore DEF CheckHumanActive, Typed, Rows
<1>3. ASSUME NEW w \in Workers, CheckStage(w) PROVE LeaseOfIdle'
  BY <1>3, EffectBefore DEF CheckStage, Typed, Rows
<1>4. ASSUME NEW w \in Workers, RecordAttempt(w) PROVE LeaseOfIdle'
  <2>1. MovesTo(w, "transferring") /\ RowRecords(w) /\ worker[w].pc = "attempting"
    BY <1>4, EffectBefore DEF RecordAttempt
  <2>. QED  BY <1>0, <1>4, <2>1 DEF RecordAttempt
<1>5. ASSUME NEW w \in Workers, Transfer(w) PROVE LeaseOfIdle'
  BY <1>5, EffectBefore DEF Transfer, Typed, Rows
<1>6. ASSUME NEW w \in Workers, TransferFails(w) PROVE LeaseOfIdle'
  BY <1>6, EffectBefore DEF TransferFails, Typed, Rows
<1>7. ASSUME NEW w \in Workers, RecordTransfer(w) PROVE LeaseOfIdle'
  <2>1. MovesTo(w, "recorded") /\ RowRecords(w) /\ worker[w].pc = "transferred"
    BY <1>7, EffectAfter DEF RecordTransfer
  <2>. QED  BY <1>0, <1>7, <2>1 DEF RecordTransfer
<1>8. ASSUME NEW w \in Workers, UpdateConversation(w) PROVE LeaseOfIdle'
  BY <1>8, EffectAfter DEF UpdateConversation, Typed, Rows
<1>9. ASSUME NEW w \in Workers, RecordUpdate(w) PROVE LeaseOfIdle'
  <2>1. MovesTo(w, "emitting") /\ RowRecords(w) /\ worker[w].pc = "updated"
    BY <1>9, EffectAfter DEF RecordUpdate
  <2>. QED  BY <1>0, <1>9, <2>1 DEF RecordUpdate
<1>10. ASSUME NEW w \in Workers, EmitResult(w) PROVE LeaseOfIdle'
  BY <1>10, EffectAfter DEF EmitResult, Typed, Rows
<1>11. ASSUME NEW w \in Workers, RecordResult(w) PROVE LeaseOfIdle'
  <2>1. MovesTo(w, "finishing") /\ RowRecords(w) /\ worker[w].pc = "emitted"
    BY <1>11, EffectAfter DEF RecordResult
  <2>. QED  BY <1>0, <1>11, <2>1 DEF RecordResult
<1>12. ASSUME NEW w \in Workers, MarkSent(w) PROVE LeaseOfIdle'
  BY <1>12, EffectAfter DEF MarkSent, Typed, Rows
<1>13. ASSUME NEW w \in Workers, Mark(w) PROVE LeaseOfIdle'
  BY <1>13, EffectAfter DEF Mark, Typed, Rows
<1>14. ASSUME NEW w \in Workers, Reread(w) PROVE LeaseOfIdle'
  BY <1>14, EffectAfter DEF Reread, Typed, Rows
<1>15. ASSUME NEW w \in Workers, Except(w) PROVE LeaseOfIdle'
  BY <1>15, EffectAfter DEF Except, Typed, Rows
<1>16. ASSUME NEW w \in Workers, StatementFails(w) PROVE LeaseOfIdle'
  BY <1>16, EffectOfFailure DEF StatementFails, Typed, Rows
<1>17. ASSUME NEW w \in Workers, Crash(w) PROVE LeaseOfIdle'
  BY <1>17, EffectOfFailure DEF Crash, Typed, Rows
<1>18. ASSUME LeaseExpires PROVE LeaseOfIdle'
  BY <1>18 DEF LeaseExpires, Typed, Rows
<1>19. ASSUME AgentReplies PROVE LeaseOfIdle'
  BY <1>19 DEF AgentReplies, Typed, Rows
<1>20. ASSUME AgentCancels PROVE LeaseOfIdle'
  BY <1>20 DEF AgentCancels, Typed, WithStatus, Rows
<1>21. ASSUME UNCHANGED vars PROVE LeaseOfIdle'
  BY <1>21 DEF Typed
<1>. QED
  BY <1>1, <1>2, <1>3, <1>4, <1>5, <1>6, <1>7, <1>8, <1>9, <1>10, <1>11,
     <1>12, <1>13, <1>14, <1>15, <1>16, <1>17, <1>18, <1>19, <1>20, <1>21
     DEF Next, WorkerStep

-----------------------------------------------------------------------------
(* How many calls are left *)

\* What the move of one worker does to the set of those that may still call.
LEMMA TryMoves ==
    ASSUME Typed, IsFiniteSet(Trying), NEW w \in Workers, NEW pc, NEW stage, NEW mark,
           Moved(w, pc, stage, mark)
    PROVE  /\ IsFiniteSet(Trying') /\ Cardinality(Trying) \in Nat
           /\ Cardinality(Trying') \in Nat
           /\ (w \in Trying <=> pc \in BeforeTransfer) =>
                 Cardinality(Trying') = Cardinality(Trying)
           /\ w \in Trying /\ pc \notin BeforeTransfer =>
                 Cardinality(Trying') = Cardinality(Trying) - 1
           /\ w \notin Trying /\ pc \in BeforeTransfer =>
                 Cardinality(Trying') = Cardinality(Trying) + 1
<1>1. CASE w \in Trying <=> pc \in BeforeTransfer
  <2>1. Trying' = Trying
    BY <1>1 DEF Trying, Moved
  <2>. QED  BY <1>1, <2>1, FS_CardinalityType
<1>2. CASE w \in Trying /\ pc \notin BeforeTransfer
  <2>1. Trying' = Trying \ {w}
    BY <1>2 DEF Trying, Moved
  <2>. QED  BY <1>2, <2>1, FS_CardinalityType, FS_RemoveElement
<1>3. CASE w \notin Trying /\ pc \in BeforeTransfer
  <2>1. Trying' = Trying \cup {w}
    BY <1>3 DEF Trying, Moved
  <2>. QED  BY <1>3, <2>1, FS_CardinalityType, FS_AddElement
<1>. QED  BY <1>1, <1>2, <1>3

\* A move of a worker that holds no lease, or goes on with its pass, leaves the
\* lease as it was.
LEMMA RoomKept ==
    ASSUME Typed, NEW w \in Workers, NEW pc, NEW stage, NEW mark, Moved(w, pc, stage, mark),
           row'.status = row.status, row'.locked_by = row.locked_by,
           \/ row.locked_by # w
           \/ worker[w].pc # "idle" /\ pc # "idle"
    PROVE  Room' = Room
<1>1. row.locked_by # NoWorker => row.locked_by \in Workers
  BY DEF Typed, Rows
<1>2. Free' <=> Free
  BY <1>1 DEF Free, Moved
<1>. QED  BY <1>2 DEF Room

\* The counter of the row says how often the command may go back into the queue.
LEMMA RetriesLeft ==
    ASSUME Typed
    PROVE  /\ Left \in Nat /\ Room \in {0, 1}
           /\ RowRetried => Room' \in {0, 1} /\ Left' \in Nat /\ Left' + Room' <= Left + Room
<1>1. Left \in Nat /\ Room \in {0, 1} /\ Room' \in {0, 1}
  BY ConstantsAssumption DEF Left, Room, Typed, Rows
<1>2. ASSUME RowRetried PROVE Left' \in Nat /\ Left' + Room' <= Left + Room
  <2>1. row.retry_count \in Nat /\ row'.retry_count = row.retry_count + 1
    BY <1>2 DEF Typed, Rows, RowRetried, RowIs
  <2>2. CASE row.retry_count + 2 >= MaxRetries
    <3>1. Room' = 0
      BY <1>2, <2>2 DEF RowRetried, RowIs, Room, Free, Queued
    <3>. QED  BY <1>1, <2>1, <3>1, ConstantsAssumption DEF Left
  <2>3. CASE row.retry_count + 2 < MaxRetries
    BY <1>1, <2>1, <2>3, ConstantsAssumption DEF Left
  <2>. QED  BY <2>1, <2>2, <2>3, ConstantsAssumption
<1>. QED  BY <1>1, <1>2
\* A move that keeps the sum of calls made, of passes and of counted failures within
\* its bound: a worker that ends its attempt pays for one call.
LEMMA BudgetKept ==
    ASSUME Typed, Typed', Budget, NEW w \in Workers, NEW pc, NEW stage, NEW mark,
           Moved(w, pc, stage, mark), setup' = setup,
           pc \in BeforeTransfer => w \in Trying,
           LeaseOutlivesWork =>
              attempts' + Room' + Left' + uncounted
                 <= attempts + Room + Left + uncounted'
                    + (IF w \in Trying /\ pc \notin BeforeTransfer THEN 1 ELSE 0)
    PROVE  Budget'
<1>1. /\ IsFiniteSet(Trying') /\ Cardinality(Trying) \in Nat /\ Cardinality(Trying') \in Nat
      /\ Cardinality(Trying') =
           Cardinality(Trying) - (IF w \in Trying /\ pc \notin BeforeTransfer THEN 1 ELSE 0)
  BY TryMoves DEF Budget
<1>. DEFINE d == IF w \in Trying /\ pc \notin BeforeTransfer THEN 1 ELSE 0
            c1 == Cardinality(Trying)
            a2 == attempts'
            c2 == Cardinality(Trying')
            r2 == Room'
            l2 == Left'
            u2 == uncounted'
<1>2. /\ attempts \in Nat /\ a2 \in Nat /\ uncounted \in Nat /\ u2 \in Nat
      /\ MaxRetries \in Nat
  BY ConstantsAssumption DEF Typed
<1>3. Left \in Nat /\ Room \in Nat /\ l2 \in Nat /\ r2 \in Nat
  BY ConstantsAssumption DEF Left, Room, Typed, Rows
<1>4. d \in Nat /\ c1 \in Nat /\ c2 \in Nat /\ c2 = c1 - d
  BY <1>1
<1>5. LeaseOutlivesWork => a2 + r2 + l2 + uncounted <= attempts + Room + Left + u2 + d
  OBVIOUS
<1>6. LeaseOutlivesWork => attempts + c1 + Room + Left <= MaxRetries + uncounted
  BY DEF Budget
<1>. HIDE DEF d, c1, a2, c2, r2, l2, u2
<1>7. ASSUME LeaseOutlivesWork PROVE a2 + c2 + r2 + l2 <= MaxRetries + u2
  BY <1>2, <1>3, <1>4, <1>5, <1>6, <1>7
<1>. QED  BY <1>1, <1>7 DEF Budget, a2, c2, r2, l2, u2

\* A move within a pass: the lease and the counter of the row stay as they are.
LEMMA BudgetOfPass ==
    ASSUME Typed, Typed', Budget, NEW w \in Workers, NEW pc, NEW stage, NEW mark,
           Moved(w, pc, stage, mark), setup' = setup, uncounted' = uncounted,
           worker[w].pc # "idle", pc # "idle",
           row'.status = row.status, row'.locked_by = row.locked_by,
           row'.retry_count = row.retry_count,
           pc \in BeforeTransfer => w \in Trying,
           attempts' = attempts \/ (/\ attempts' = attempts + 1 /\ w \in Trying
                                    /\ pc \notin BeforeTransfer)
    PROVE  Budget'
<1>1. Room' = Room /\ Left' = Left
  BY RoomKept DEF Left
<1>2. attempts \in Nat /\ uncounted \in Nat /\ Left \in Nat /\ Room \in {0, 1}
  BY RetriesLeft DEF Typed
<1>3. attempts' + Room' + Left' + uncounted
        <= attempts + Room + Left + uncounted'
           + (IF w \in Trying /\ pc \notin BeforeTransfer THEN 1 ELSE 0)
  BY <1>1, <1>2
<1>. QED  BY <1>3, BudgetKept

\* The pass ends with a mark on the row, or dies and is not counted.
LEMMA BudgetOfEnd ==
    ASSUME Typed, Typed', Budget, NEW w \in Workers, NEW pc, NEW stage, NEW mark,
           Moved(w, pc, stage, mark), setup' = setup, attempts' = attempts,
           pc \notin BeforeTransfer,
           \/ RowRetried /\ uncounted' = uncounted
           \/ row'.status \notin Queued /\ row'.retry_count = row.retry_count
              /\ uncounted' = uncounted
           \/ row' = row /\ uncounted' = uncounted + 1
    PROVE  Budget'
<1>. DEFINE d == IF w \in Trying /\ pc \notin BeforeTransfer THEN 1 ELSE 0
            r2 == Room'
            l2 == Left'
<1>1. /\ attempts \in Nat /\ uncounted \in Nat /\ Left \in Nat /\ Room \in Nat
      /\ d \in Nat
  BY RetriesLeft DEF Typed
<1>2. r2 \in Nat /\ r2 <= 1 /\ l2 \in Nat
  BY ConstantsAssumption DEF Left, Room, Typed, Rows
<1>3. CASE RowRetried /\ uncounted' = uncounted
  <2>1. l2 + r2 <= Left + Room
    BY <1>3, RetriesLeft
  <2>. HIDE DEF d, r2, l2
  <2>2. attempts + r2 + l2 + uncounted <= attempts + Room + Left + uncounted + d
    BY <1>1, <1>2, <2>1
  <2>. QED  BY <1>3, <2>2, BudgetKept DEF d, r2, l2
<1>4. CASE row'.status \notin Queued /\ row'.retry_count = row.retry_count
           /\ uncounted' = uncounted
  <2>1. r2 = 0 /\ l2 = Left
    BY <1>4 DEF Room, Free, Left
  <2>. HIDE DEF d, r2, l2
  <2>2. attempts + r2 + l2 + uncounted <= attempts + Room + Left + uncounted + d
    BY <1>1, <1>2, <2>1
  <2>. QED  BY <1>4, <2>2, BudgetKept DEF d, r2, l2
<1>5. CASE row' = row /\ uncounted' = uncounted + 1
  <2>1. l2 = Left
    BY <1>5 DEF Left
  <2>. HIDE DEF d, r2, l2
  <2>2. attempts + r2 + l2 + uncounted <= attempts + Room + Left + (uncounted + 1) + d
    BY <1>1, <1>2, <2>1
  <2>. QED  BY <1>5, <2>2, BudgetKept DEF d, r2, l2
<1>. QED  BY <1>3, <1>4, <1>5

\* Every step keeps the calls within the retries that are left.
LEMMA BudgetStep ==
    ASSUME Typed, Typed', Truthful, LeaseOfIdle, Budget, [Next]_vars
    PROVE  Budget'
<1>. USE DEF Trying, BeforeTransfer, MovesTo, MovesOn, MovesToMark, MovesToIdle
<1>1. ASSUME NEW w \in Workers, Lease(w) PROVE Budget'
  <2>1. Moved(w, "leased", row.stage, "PENDING") /\ row'.retry_count = row.retry_count
        /\ row'.status = row.status /\ row'.locked_by = w
    BY <1>1, EffectBefore DEF RowIs
  <2>2. w \notin Trying
    BY <1>1 DEF Lease
  <2>3. IsFiniteSet(Trying') /\ Cardinality(Trying) \in Nat
        /\ Cardinality(Trying') = Cardinality(Trying) + 1
    BY <2>1, <2>2, TryMoves DEF Budget
  <2>4. Left' = Left
    BY <2>1 DEF Left
  <2>5. LeaseOutlivesWork => Room = 1
    BY <1>1 DEF Lease, LeaseFree, LeaseOfIdle, Room, Free
  <2>6. Room' = 0
    BY <2>1, ConstantsAssumption DEF Room, Free, Moved
  <2>7. attempts \in Nat /\ uncounted \in Nat /\ Left \in Nat
    BY RetriesLeft DEF Typed
  <2>8. UNCHANGED <<setup, attempts, uncounted>>
    BY <1>1 DEF Lease
  <2>. HIDE DEF Trying
  <2>. QED
    BY <2>3, <2>4, <2>5, <2>6, <2>7, <2>8, ConstantsAssumption DEF Budget
<1>2. ASSUME NEW w \in Workers, CheckHumanActive(w) PROVE Budget'
  <2>1. MovesTo(w, "ready") \/ MovesToMark(w, "SKIPPED_HUMAN_ACTIVE")
    BY <1>2, EffectBefore
  <2>2. w \in Trying /\ worker[w].pc # "idle"
    BY <1>2 DEF CheckHumanActive
  <2>. QED  BY <1>2, <2>1, <2>2, BudgetOfPass DEF CheckHumanActive, RowRecords, RowIs
<1>3. ASSUME NEW w \in Workers, CheckStage(w) PROVE Budget'
  <2>1. MovesToMark(w, FailedAfter) \/ MovesOn(w, "attempting", "transfer_attempted")
    BY <1>3, EffectBefore
  <2>2. w \in Trying /\ worker[w].pc # "idle"
    BY <1>3 DEF CheckStage
  <2>. QED  BY <1>3, <2>1, <2>2, BudgetOfPass DEF CheckStage, RowRecords, RowIs
<1>4. ASSUME NEW w \in Workers, RecordAttempt(w) PROVE Budget'
  <2>1. MovesTo(w, "transferring") /\ RowRecords(w)
    BY <1>4, EffectBefore
  <2>2. w \in Trying /\ worker[w].pc # "idle"
    BY <1>4 DEF RecordAttempt
  <2>. QED  BY <1>4, <2>1, <2>2, BudgetOfPass DEF RecordAttempt, RowRecords, RowIs
<1>5. ASSUME NEW w \in Workers, Transfer(w) PROVE Budget'
  <2>1. MovesOn(w, "transferred", "transfer_succeeded")
    BY <1>5, EffectBefore
  <2>2. w \in Trying /\ worker[w].pc # "idle"
    BY <1>5 DEF Transfer
  <2>. QED  BY <1>5, <2>1, <2>2, BudgetOfPass DEF Transfer, RowRecords, RowIs
<1>6. ASSUME NEW w \in Workers, TransferFails(w) PROVE Budget'
  <2>1. \E st \in Queued \cup Final : MovesToMark(w, st)
    BY <1>6, EffectBefore, NamesTyped
  <2>2. w \in Trying /\ worker[w].pc # "idle"
    BY <1>6 DEF TransferFails
  <2>. QED  BY <1>6, <2>1, <2>2, BudgetOfPass DEF TransferFails, RowRecords, RowIs
<1>7. ASSUME NEW w \in Workers, RecordTransfer(w) PROVE Budget'
  BY <1>7, EffectAfter, BudgetOfPass
     DEF RecordTransfer, RowRecords, RowMarked, RowIs, Queued
<1>8. ASSUME NEW w \in Workers, UpdateConversation(w) PROVE Budget'
  BY <1>8, EffectAfter, BudgetOfPass
     DEF UpdateConversation, RowRecords, RowMarked, RowIs, Queued
<1>9. ASSUME NEW w \in Workers, RecordUpdate(w) PROVE Budget'
  BY <1>9, EffectAfter, BudgetOfPass
     DEF RecordUpdate, RowRecords, RowMarked, RowIs, Queued
<1>10. ASSUME NEW w \in Workers, EmitResult(w) PROVE Budget'
  BY <1>10, EffectAfter, BudgetOfPass
     DEF EmitResult, RowRecords, RowMarked, RowIs, Queued
<1>11. ASSUME NEW w \in Workers, RecordResult(w) PROVE Budget'
  BY <1>11, EffectAfter, BudgetOfPass
     DEF RecordResult, RowRecords, RowMarked, RowIs, Queued
<1>12. ASSUME NEW w \in Workers, MarkSent(w) PROVE Budget'
  BY <1>12, EffectAfter, BudgetOfEnd
     DEF MarkSent, RowRecords, RowMarked, RowIs, Queued
<1>13. ASSUME NEW w \in Workers, Mark(w) PROVE Budget'
  <2>1. CASE worker[w].mark = "RETRYABLE"
    BY <1>13, <2>1, EffectAfter, BudgetOfEnd DEF Mark
  <2>2. CASE worker[w].mark # "RETRYABLE"
    <3>1. MovesToIdle(w) /\ RowMarked(worker[w].mark)
      BY <1>13, <2>2, EffectAfter
    <3>2. row'.status \notin Queued /\ row'.retry_count = row.retry_count
      BY <1>13, <2>2, <3>1 DEF Mark, RowMarked, RowIs, Queued, Truthful, WorkerTruthful
    <3>. QED  BY <1>13, <3>1, <3>2, BudgetOfEnd DEF Mark
  <2>. QED  BY <2>1, <2>2
<1>14. ASSUME NEW w \in Workers, Reread(w) PROVE Budget'
  <2>1. MovesToIdle(w) /\ worker[w].pc = "rereading" /\ UNCHANGED <<row, attempts, uncounted, setup>>
    BY <1>14, EffectAfter DEF Reread
  <2>2. row.locked_by # w
    BY <2>1, ConstantsAssumption DEF LeaseOfIdle
  <2>3. Room' = Room /\ Left' = Left
    BY <2>1, <2>2, RoomKept DEF Left
  <2>4. attempts \in Nat /\ uncounted \in Nat /\ Left \in Nat /\ Room \in {0, 1}
    BY RetriesLeft DEF Typed
  <2>. QED  BY <2>1, <2>3, <2>4, BudgetKept
<1>15. ASSUME NEW w \in Workers, Except(w) PROVE Budget'
  BY <1>15, EffectAfter, BudgetOfEnd
     DEF Except, RowRecords, RowMarked, RowIs, Queued
<1>16. ASSUME NEW w \in Workers, StatementFails(w) PROVE Budget'
  <2>1. CASE worker[w].pc = "excepting"
    BY <1>16, <2>1, EffectOfFailure, BudgetOfEnd DEF StatementFails
  <2>2. CASE worker[w].pc # "excepting"
    BY <1>16, <2>2, EffectOfFailure, BudgetOfPass DEF StatementFails
  <2>. QED  BY <2>1, <2>2
<1>17. ASSUME NEW w \in Workers, Crash(w) PROVE Budget'
  BY <1>17, EffectOfFailure, BudgetOfEnd
     DEF Crash, RowRecords, RowMarked, RowIs, Queued
<1>18. ASSUME LeaseExpires PROVE Budget'
  <2>1. UNCHANGED <<setup, attempts, uncounted, worker>> /\ row'.status = row.status
        /\ row'.locked_by = row.locked_by /\ row'.retry_count = row.retry_count
    BY <1>18 DEF LeaseExpires, Typed, Rows
  <2>. QED  BY <2>1 DEF Budget, Room, Free, Left
<1>19. ASSUME AgentReplies PROVE Budget'
  BY <1>19 DEF AgentReplies, Budget, Room, Free, Left
<1>20. ASSUME AgentCancels PROVE Budget'
  <2>1. UNCHANGED <<setup, attempts, uncounted, worker>>
    BY <1>20 DEF AgentCancels
  <2>2. row'.status \notin Queued /\ row'.retry_count = row.retry_count
    BY <1>20 DEF AgentCancels, WithStatus, Typed, Rows, Queued
  <2>3. Trying' = Trying /\ Left' = Left /\ Room' = 0
    BY <2>1, <2>2 DEF Left, Room, Free
  <2>4. attempts \in Nat /\ uncounted \in Nat /\ Left \in Nat /\ Room \in {0, 1}
    BY RetriesLeft DEF Typed
  <2>5. IsFiniteSet(Trying) /\ Cardinality(Trying) \in Nat
    BY FS_CardinalityType DEF Budget
  <2>. HIDE DEF Trying
  <2>. QED  BY <2>1, <2>3, <2>4, <2>5, ConstantsAssumption DEF Budget
<1>21. ASSUME UNCHANGED vars PROVE Budget'
  BY <1>21 DEF Budget, Room, Free, Left
<1>. QED
  BY <1>1, <1>2, <1>3, <1>4, <1>5, <1>6, <1>7, <1>8, <1>9, <1>10, <1>11,
     <1>12, <1>13, <1>14, <1>15, <1>16, <1>17, <1>18, <1>19, <1>20, <1>21
     DEF Next, WorkerStep
-----------------------------------------------------------------------------
(* Whose pass it is *)

\* A worker goes on with its pass, or fails out of it.
LEMMA PassGoesOn ==
    ASSUME Typed, OnePass, NEW w \in Workers, NEW pc, NEW stage, NEW mark,
           Moved(w, pc, stage, mark), worker[w].pc # "idle",
           pc \notin {"idle", "rereading"}, pc # "excepting" => w \in Engaged,
           row'.status = row.status, row'.locked_by = row.locked_by,
           row'.retry_count = row.retry_count
    PROVE  OnePass'
<1>1. Engaged' \subseteq Engaged
  BY DEF Engaged, Moved
<1>2. Free' <=> Free
  BY DEF Free, Moved, Typed, Rows
<1>3. \A v \in Workers : worker'[v].pc # "idle" => worker[v].pc # "idle"
  BY DEF Moved
<1>4. \A v \in Workers : worker'[v].pc = "rereading" => worker[v].pc = "rereading"
  BY DEF Moved
<1>5. \A v \in Workers : worker'[v].pc = "idle" <=> worker[v].pc = "idle"
  BY DEF Moved
<1>. QED  BY <1>1, <1>2, <1>3, <1>4, <1>5 DEF OnePass

\* A worker ends its pass without a mark on the row.
LEMMA PassDies ==
    ASSUME Typed, OnePass, NEW w \in Workers, NEW stage, NEW mark,
           Moved(w, "idle", stage, mark), worker[w].pc # "idle", row' = row
    PROVE  OnePass'
<1>1. Engaged' = Engaged \ {w}
  BY DEF Engaged, Moved
<1>2. \A v \in Workers : worker'[v].pc # "idle" => v # w /\ worker[v].pc # "idle"
  BY DEF Moved
<1>3. \A v \in Workers : worker'[v].pc = "rereading" => worker[v].pc = "rereading"
  BY DEF Moved
<1>4. Free' => Free \/ row.locked_by = w
  BY DEF Free, Moved, Typed, Rows
<1>5. row.locked_by = w => row.locked_by # NoWorker
  BY ConstantsAssumption
<1>. QED  BY <1>1, <1>2, <1>3, <1>4, <1>5 DEF OnePass

\* A worker, or the agent, puts the command into a final status.
LEMMA PassMarked ==
    ASSUME Typed, OnePass,
           \A v \in Workers : worker'[v] = worker[v] \/ worker'[v].pc = "idle",
           row'.status \notin Queued, row'.locked_by = NoWorker,
           row'.retry_count = row.retry_count
    PROVE  OnePass'
<1>1. Engaged' \subseteq Engaged
  BY DEF Engaged
<1>2. ~Free'
  BY DEF Free
<1>3. \A v \in Workers : worker'[v].pc # "idle" => worker[v].pc # "idle"
  OBVIOUS
<1>4. \A v \in Workers : worker'[v].pc = "rereading" => worker[v].pc = "rereading"
  OBVIOUS
<1>. QED  BY <1>1, <1>2, <1>3, <1>4 DEF OnePass

\* A worker counts a failure: the first one leaves nobody engaged, and a second one
\* is the last.
LEMMA PassRetried ==
    ASSUME MaxRetries <= 3, Typed, OnePass, NEW w \in Workers, NEW pc, NEW stage, NEW mark,
           Moved(w, pc, stage, mark), worker[w].pc # "idle", pc \in {"idle", "rereading"},
           RowRetried
    PROVE  OnePass'
<1>1. row.retry_count \in Nat /\ row'.retry_count = row.retry_count + 1
      /\ row'.locked_by = NoWorker
  BY DEF RowRetried, RowIs, Typed, Rows
<1>2. Engaged' = Engaged \ {w}
  BY DEF Engaged, Moved
<1>3. row'.retry_count # 0
  BY <1>1
<1>4. CASE row.retry_count = 0
  <2>1. \A v \in Workers : v # w => worker[v].pc = "idle"
    BY <1>4 DEF OnePass
  <2>2. Engaged' = {}
    BY <1>2, <2>1 DEF Engaged
  <2>3. row'.retry_count <= 1
    BY <1>1, <1>4
  <2>. QED  BY <1>3, <2>2, <2>3 DEF OnePass
<1>5. CASE row.retry_count # 0
  <2>1. row.retry_count + 2 >= MaxRetries
    BY <1>1, <1>5, ConstantsAssumption
  <2>2. row'.status \notin Queued
    BY <2>1 DEF RowRetried, RowIs, Queued
  <2>3. ~Free'
    BY <2>2 DEF Free
  <2>. QED  BY <1>1, <1>2, <1>3, <2>2, <2>3 DEF OnePass
<1>. QED  BY <1>4, <1>5

\* What the others know of the stages stays true: only the engaged worker adds one.
LEMMA StageKept ==
    ASSUME OnePass, StageKnown, NEW w \in Workers, NEW pc, NEW stage, NEW mark,
           Moved(w, pc, stage, mark), row'.stage = row.stage \/ w \in Engaged,
           pc \in {"leased", "ready"} =>
              ("transfer_succeeded" \in row'.stage => "transfer_succeeded" \in stage),
           pc \in {"attempting", "transferring"} =>
              "transfer_succeeded" \notin row'.stage /\ "transfer_succeeded" \notin stage
    PROVE  StageKnown'
<1>. SUFFICES ASSUME NEW v \in Workers
              PROVE  /\ worker'[v].pc \in {"leased", "ready"} =>
                           ("transfer_succeeded" \in row'.stage =>
                               "transfer_succeeded" \in worker'[v].stage)
                     /\ worker'[v].pc \in {"attempting", "transferring"} =>
                           /\ "transfer_succeeded" \notin row'.stage
                           /\ "transfer_succeeded" \notin worker'[v].stage
  BY DEF StageKnown
<1>1. CASE v = w
  BY <1>1 DEF Moved
<1>2. CASE v # w /\ row'.stage = row.stage
  BY <1>2 DEF Moved, StageKnown
<1>3. CASE v # w /\ w \in Engaged
  <2>1. v \notin Engaged /\ worker'[v] = worker[v]
    BY <1>3 DEF OnePass, Moved
  <2>. QED  BY <2>1 DEF Engaged
<1>. QED  BY <1>1, <1>2, <1>3

\* Every step leaves at most one worker engaged in the transfer, which knows whether
\* a transfer is recorded, provided the command is retried at most once.
LEMMA PassStep ==
    ASSUME MaxRetries <= 3, LeaseOutlivesWork,
           Typed, Truthful, LeaseOfIdle, OnePass, StageKnown, [Next]_vars
    PROVE  OnePass' /\ StageKnown'
<1>. DEFINE Goal == OnePass /\ StageKnown
<1>. USE DEF MovesTo, MovesOn, MovesToMark, MovesToIdle
<1>1. ASSUME NEW w \in Workers, Lease(w) PROVE Goal'
  <2>1. Moved(w, "leased", row.stage, "PENDING") /\ row'.stage = row.stage
        /\ row'.status = row.status /\ row'.retry_count = row.retry_count
        /\ row'.locked_by = w
    BY <1>1, EffectBefore DEF RowIs
  <2>2. Free
    BY <1>1 DEF Lease, LeaseFree, LeaseOfIdle, Free
  <2>3. Engaged' = {w}
    BY <2>1, <2>2 DEF OnePass, Engaged, Moved
  <2>4. ~Free'
    BY <2>1, ConstantsAssumption DEF Free, Moved
  <2>5. row.retry_count = 0 => /\ \A v \in Workers : worker'[v].pc # "idle" => v = w
                               /\ \A v \in Workers : worker'[v].pc # "rereading"
    BY <2>1, <2>2 DEF OnePass, Moved
  <2>6. OnePass'
    BY <2>1, <2>3, <2>4, <2>5, <2>2 DEF OnePass
  <2>7. StageKnown'
    BY <2>1, StageKept
  <2>. QED  BY <2>6, <2>7
<1>2. ASSUME NEW w \in Workers, CheckHumanActive(w) PROVE Goal'
  <2>1. MovesTo(w, "ready") \/ MovesToMark(w, "SKIPPED_HUMAN_ACTIVE")
    BY <1>2, EffectBefore
  <2>2. w \in Engaged /\ worker[w].pc = "leased"
    BY <1>2 DEF CheckHumanActive, Engaged
  <2>3. row' = row
    BY <1>2 DEF CheckHumanActive
  <2>4. OnePass'
    BY <2>1, <2>2, <2>3, PassGoesOn
  <2>5. StageKnown'
    BY <2>1, <2>2, <2>3, StageKept DEF StageKnown
  <2>. QED  BY <2>4, <2>5
<1>3. ASSUME NEW w \in Workers, CheckStage(w) PROVE Goal'
  <2>1. \/ MovesToMark(w, FailedAfter)
        \/ /\ "transfer_succeeded" \notin worker[w].stage
           /\ MovesOn(w, "attempting", "transfer_attempted")
    BY <1>3, EffectBefore
  <2>2. w \in Engaged /\ worker[w].pc = "ready"
    BY <1>3 DEF CheckStage, Engaged
  <2>3. row' = row
    BY <1>3 DEF CheckStage
  <2>4. OnePass'
    BY <2>1, <2>2, <2>3, PassGoesOn
  <2>5. StageKnown'
    BY <2>1, <2>2, <2>3, StageKept DEF StageKnown
  <2>. QED  BY <2>4, <2>5
<1>4. ASSUME NEW w \in Workers, RecordAttempt(w) PROVE Goal'
  <2>1. MovesTo(w, "transferring") /\ RowRecords(w)
    BY <1>4, EffectBefore
  <2>2. w \in Engaged /\ worker[w].pc = "attempting"
    BY <1>4 DEF RecordAttempt, Engaged
  <2>3. /\ row'.status = row.status /\ row'.locked_by = row.locked_by
        /\ row'.retry_count = row.retry_count
        /\ row'.stage = row.stage \cup worker[w].stage
    BY <2>1 DEF RowRecords, RowIs
  <2>4. OnePass'
    BY <2>1, <2>2, <2>3, PassGoesOn
  <2>5. StageKnown'
    BY <2>1, <2>2, <2>3, StageKept DEF StageKnown
  <2>. QED  BY <2>4, <2>5
<1>5. ASSUME NEW w \in Workers, Transfer(w) PROVE Goal'
  <2>1. MovesOn(w, "transferred", "transfer_succeeded")
    BY <1>5, EffectBefore
  <2>2. w \in Engaged /\ worker[w].pc = "transferring"
    BY <1>5 DEF Transfer, Engaged
  <2>3. row' = row
    BY <1>5 DEF Transfer
  <2>4. OnePass'
    BY <2>1, <2>2, <2>3, PassGoesOn
  <2>5. StageKnown'
    BY <2>1, <2>2, <2>3, StageKept
  <2>. QED  BY <2>4, <2>5
<1>6. ASSUME NEW w \in Workers, TransferFails(w) PROVE Goal'
  <2>1. \E st \in Queued \cup Final : MovesToMark(w, st)
    BY <1>6, EffectBefore, NamesTyped
  <2>2. w \in Engaged /\ worker[w].pc = "transferring"
    BY <1>6 DEF TransferFails, Engaged
  <2>3. row' = row
    BY <1>6 DEF TransferFails
  <2>4. OnePass'
    BY <2>1, <2>2, <2>3, PassGoesOn
  <2>5. StageKnown'
    BY <2>1, <2>2, <2>3, StageKept
  <2>. QED  BY <2>4, <2>5
<1>7. ASSUME NEW w \in Workers, RecordTransfer(w) PROVE Goal'
  <2>1. MovesTo(w, "recorded") /\ RowRecords(w)
    BY <1>7, EffectAfter
  <2>2. w \in Engaged /\ worker[w].pc = "transferred"
    BY <1>7 DEF RecordTransfer, Engaged
  <2>3. /\ row'.status = row.status /\ row'.locked_by = row.locked_by
        /\ row'.retry_count = row.retry_count
        /\ row'.stage = row.stage \cup worker[w].stage
    BY <2>1 DEF RowRecords, RowIs
  <2>4. OnePass'
    BY <2>1, <2>2, <2>3, PassGoesOn
  <2>5. StageKnown'
    BY <2>1, <2>2, <2>3, StageKept
  <2>. QED  BY <2>4, <2>5
<1>8. ASSUME NEW w \in Workers, UpdateConversation(w) PROVE Goal'
  <2>1. MovesOn(w, "updated", "conversation_state_updated")
    BY <1>8, EffectAfter
  <2>2. w \in Engaged /\ worker[w].pc = "recorded"
    BY <1>8 DEF UpdateConversation, Engaged
  <2>3. row' = row
    BY <1>8 DEF UpdateConversation
  <2>4. OnePass'
    BY <2>1, <2>2, <2>3, PassGoesOn
  <2>5. StageKnown'
    BY <2>1, <2>2, <2>3, StageKept
  <2>. QED  BY <2>4, <2>5
<1>9. ASSUME NEW w \in Workers, RecordUpdate(w) PROVE Goal'
  <2>1. MovesTo(w, "emitting") /\ RowRecords(w)
    BY <1>9, EffectAfter
  <2>2. w \in Engaged /\ worker[w].pc = "updated"
    BY <1>9 DEF RecordUpdate, Engaged
  <2>3. /\ row'.status = row.status /\ row'.locked_by = row.locked_by
        /\ row'.retry_count = row.retry_count
        /\ row'.stage = row.stage \cup worker[w].stage
    BY <2>1 DEF RowRecords, RowIs
  <2>4. OnePass'
    BY <2>1, <2>2, <2>3, PassGoesOn
  <2>5. StageKnown'
    BY <2>1, <2>2, <2>3, StageKept
  <2>. QED  BY <2>4, <2>5
<1>10. ASSUME NEW w \in Workers, EmitResult(w) PROVE Goal'
  <2>1. MovesOn(w, "emitted", "result_emitted")
    BY <1>10, EffectAfter
  <2>2. w \in Engaged /\ worker[w].pc = "emitting"
    BY <1>10 DEF EmitResult, Engaged
  <2>3. row' = row
    BY <1>10 DEF EmitResult
  <2>4. OnePass'
    BY <2>1, <2>2, <2>3, PassGoesOn
  <2>5. StageKnown'
    BY <2>1, <2>2, <2>3, StageKept
  <2>. QED  BY <2>4, <2>5
<1>11. ASSUME NEW w \in Workers, RecordResult(w) PROVE Goal'
  <2>1. MovesTo(w, "finishing") /\ RowRecords(w)
    BY <1>11, EffectAfter
  <2>2. w \in Engaged /\ worker[w].pc = "emitted"
    BY <1>11 DEF RecordResult, Engaged
  <2>3. /\ row'.status = row.status /\ row'.locked_by = row.locked_by
        /\ row'.retry_count = row.retry_count
        /\ row'.stage = row.stage \cup worker[w].stage
    BY <2>1 DEF RowRecords, RowIs
  <2>4. OnePass'
    BY <2>1, <2>2, <2>3, PassGoesOn
  <2>5. StageKnown'
    BY <2>1, <2>2, <2>3, StageKept
  <2>. QED  BY <2>4, <2>5
<1>12. ASSUME NEW w \in Workers, MarkSent(w) PROVE Goal'
  <2>1. MovesToIdle(w) /\ RowMarked("SENT")
    BY <1>12, EffectAfter
  <2>2. OnePass'
    BY <2>1, PassMarked DEF RowMarked, RowIs, Queued, Moved
  <2>3. StageKnown'
    BY <2>1, StageKept DEF RowMarked, RowIs
  <2>. QED  BY <2>2, <2>3
<1>13. ASSUME NEW w \in Workers, Mark(w) PROVE Goal'
  <2>1. CASE worker[w].mark = "RETRYABLE"
    <3>1. MovesTo(w, "rereading") /\ RowRetried /\ worker[w].pc # "idle"
      BY <1>13, <2>1, EffectAfter DEF Mark
    <3>2. OnePass'
      BY <3>1, PassRetried
    <3>3. StageKnown'
      BY <3>1, StageKept DEF RowRetried, RowIs
    <3>. QED  BY <3>2, <3>3
  <2>2. CASE worker[w].mark # "RETRYABLE"
    <3>1. MovesToIdle(w) /\ RowMarked(worker[w].mark)
      BY <1>13, <2>2, EffectAfter
    <3>2. worker[w].mark \notin Queued
      BY <1>13, <2>2 DEF Mark, Queued, Truthful, WorkerTruthful
    <3>3. OnePass'
      BY <3>1, <3>2, PassMarked DEF RowMarked, RowIs, Moved
    <3>4. StageKnown'
      BY <3>1, StageKept DEF RowMarked, RowIs
    <3>. QED  BY <3>3, <3>4
  <2>. QED  BY <2>1, <2>2
<1>14. ASSUME NEW w \in Workers, Reread(w) PROVE Goal'
  <2>1. MovesToIdle(w) /\ row' = row /\ worker[w].pc # "idle"
    BY <1>14, EffectAfter DEF Reread
  <2>. QED  BY <2>1, PassDies, StageKept
<1>15. ASSUME NEW w \in Workers, Except(w) PROVE Goal'
  <2>1. MovesToIdle(w) /\ RowRetried /\ worker[w].pc # "idle"
    BY <1>15, EffectAfter DEF Except
  <2>2. OnePass'
    BY <2>1, PassRetried
  <2>3. StageKnown'
    BY <2>1, StageKept DEF RowRetried, RowIs
  <2>. QED  BY <2>2, <2>3
<1>16. ASSUME NEW w \in Workers, StatementFails(w) PROVE Goal'
  <2>1. row' = row /\ worker[w].pc # "idle"
    BY <1>16 DEF StatementFails
  <2>2. CASE worker[w].pc = "excepting"
    <3>1. MovesToIdle(w)
      BY <1>16, <2>2, EffectOfFailure DEF AfterTransfer
    <3>. QED  BY <2>1, <3>1, PassDies, StageKept
  <2>3. CASE worker[w].pc # "excepting"
    <3>1. \/ \E st \in Queued \cup Final : MovesToMark(w, st) /\ w \in Engaged
          \/ MovesTo(w, "excepting")
      BY <1>16, <2>3, EffectOfFailure, NamesTyped DEF AfterTransfer, Engaged
    <3>. QED  BY <2>1, <3>1, PassGoesOn, StageKept
  <2>. QED  BY <2>2, <2>3
<1>17. ASSUME NEW w \in Workers, Crash(w) PROVE Goal'
  <2>1. MovesToIdle(w) /\ row' = row /\ worker[w].pc # "idle"
    BY <1>17, EffectOfFailure DEF Crash
  <2>. QED  BY <2>1, PassDies, StageKept
<1>18. ASSUME LeaseExpires PROVE Goal'
  <2>1. worker' = worker /\ row'.status = row.status /\ row'.locked_by = row.locked_by
        /\ row'.retry_count = row.retry_count /\ row'.stage = row.stage
    BY <1>18 DEF LeaseExpires, Typed, Rows
  <2>. QED  BY <2>1 DEF OnePass, StageKnown, Engaged, Free
<1>19. ASSUME AgentReplies PROVE Goal'
  BY <1>19 DEF AgentReplies, OnePass, StageKnown, Engaged, Free
<1>20. ASSUME AgentCancels PROVE Goal'
  <2>1. CASE row' = row
    BY <1>20, <2>1 DEF AgentCancels, OnePass, StageKnown, Engaged, Free
  <2>2. CASE row' = WithStatus(row, "SKIPPED_HUMAN_ACTIVE")
    <3>0. row \in Rows
      BY DEF Typed
    <3>1. worker' = worker
      BY <1>20 DEF AgentCancels
    <3>2. "SKIPPED_HUMAN_ACTIVE" \notin Queued
      BY DEF Queued
    <3>3. row'.status = "SKIPPED_HUMAN_ACTIVE" /\ row'.locked_by = NoWorker
          /\ row'.retry_count = row.retry_count /\ row'.stage = row.stage
      BY <2>2, <3>0 DEF WithStatus, Rows
    <3>4. row'.status \notin Queued
      BY <3>2, <3>3
    <3>5. OnePass'
      BY <3>1, <3>3, <3>4, PassMarked
    <3>. QED  BY <3>1, <3>3, <3>5 DEF StageKnown
  <2>. QED  BY <1>20, <2>1, <2>2 DEF AgentCancels
<1>21. ASSUME UNCHANGED vars PROVE Goal'
  BY <1>21 DEF OnePass, StageKnown, Engaged, Free
<1>. QED
  BY <1>1, <1>2, <1>3, <1>4, <1>5, <1>6, <1>7, <1>8, <1>9, <1>10, <1>11,
     <1>12, <1>13, <1>14, <1>15, <1>16, <1>17, <1>18, <1>19, <1>20, <1>21
     DEF Next, WorkerStep
-----------------------------------------------------------------------------
(* Theorems *)

\* The invariant holds of the command as the gateway has inserted it.
LEMMA InitInv == Init => Inv /\ PassInv
<1>. SUFFICES ASSUME Init PROVE Inv /\ PassInv
  OBVIOUS
<1>1. /\ row.status = "PENDING" /\ row.retry_count = 0 /\ row.stage = {}
      /\ row.locked_by = NoWorker /\ row.expired = FALSE
      /\ \A w \in Workers : worker[w].pc = "idle" /\ worker[w].stage = {}
  BY DEF Init, Idle
<1>2. Typed
  <2>1. row \in Rows
    BY DEF Init, Rows, Queued
  <2>2. worker \in [Workers -> WorkerStates]
    BY DEF Init, Idle, WorkerStates, Points, Queued
  <2>3. faults \in 0 .. setup.maxFaults
    BY ConstantsAssumption DEF Init
  <2>. QED  BY <2>1, <2>2, <2>3 DEF Init, Typed
<1>3. Truthful
  BY <1>1 DEF Truthful, WorkerTruthful, StageTruthful, StatusTellsTransfer, AfterTransfer,
              AfterUpdate, AfterResult, FailedAfter
<1>4. LeaseOfIdle
  BY <1>1 DEF LeaseOfIdle
<1>5. Budget
  <2>1. Trying = {}
    BY <1>1 DEF Trying, BeforeTransfer
  <2>2. IsFiniteSet(Trying) /\ Cardinality(Trying) = 0
    BY <2>1, FS_EmptySet
  <2>3. Room \in {0, 1} /\ Left = MaxRetries - 1 /\ attempts = 0 /\ uncounted = 0
    BY <1>1, ConstantsAssumption DEF Room, Left, Init
  <2>. QED  BY <2>2, <2>3, ConstantsAssumption DEF Budget
<1>6. PassInv
  BY <1>1 DEF PassInv, OnePass, StageKnown, Engaged, Free
<1>. QED  BY <1>2, <1>3, <1>4, <1>5, <1>6, TypedIsTypeOK DEF Inv

\* Every step keeps the invariant.
LEMMA StepInv == Inv /\ [Next]_vars => Inv'
<1>1. ASSUME Typed, Truthful, LeaseOfIdle, Budget, [Next]_vars
      PROVE  Typed' /\ Truthful' /\ LeaseOfIdle' /\ Budget'
  BY <1>1, TypeStep, TruthStep, LeaseStep, BudgetStep
<1>. QED  BY <1>1, TypedIsTypeOK, PTL DEF Inv

\* With a retry limit of at most 3, every step keeps the passes apart.
LEMMA StepPassInv == MaxRetries <= 3 => (Inv /\ PassInv /\ [Next]_vars => PassInv')
<1>. SUFFICES ASSUME MaxRetries <= 3, Inv, PassInv, [Next]_vars PROVE PassInv'
  OBVIOUS
<1>1. setup' = setup
  BY DEF Next, WorkerStep, Lease, CheckHumanActive, CheckStage, RecordAttempt, Transfer,
         TransferFails, RecordTransfer, UpdateConversation, RecordUpdate, EmitResult,
         RecordResult, MarkSent, Mark, Reread, Except, StatementFails, Crash, LeaseExpires,
         AgentReplies, AgentCancels
<1>2. ASSUME LeaseOutlivesWork PROVE OnePass' /\ StageKnown'
  BY <1>2, PassStep, TypedIsTypeOK DEF Inv, PassInv
<1>. QED  BY <1>1, <1>2 DEF PassInv

\* In every reachable state row, workers and world agree.
THEOREM HandoffInvariant == Spec => []Inv
<1>1. Init => Inv
  BY InitInv
<1>. QED  BY <1>1, StepInv, PTL DEF Spec

\* The final status of the command tells whether LiveChat has transferred the chat,
\* and its retry counter bounds the calls, for every number of workers, faults and
\* retries.
THEOREM CommandIsSound == Spec => []CommandSound
<1>1. Inv => CommandSound
  <2>. SUFFICES ASSUME Inv PROVE AttemptsBounded
    BY DEF Inv, CommandSound, Truthful
  <2>1. Typed /\ Budget
    BY TypedIsTypeOK DEF Inv
  <2>2. Left \in Nat /\ Room \in Nat /\ Cardinality(Trying) \in Nat
    BY <2>1, RetriesLeft, FS_CardinalityType DEF Budget
  <2>3. attempts \in Nat /\ uncounted \in Nat /\ MaxRetries \in Nat
    BY <2>1, ConstantsAssumption DEF Typed
  <2>. QED  BY <2>1, <2>2, <2>3 DEF Budget, AttemptsBounded
<1>. QED  BY <1>1, HandoffInvariant, PTL

\* With the default retry limit, or a lower one, a recorded transfer is never made
\* again, whichever statements fail, as long as leases outlive the work.
THEOREM TransferOnce ==
    ASSUME MaxRetries <= 3
    PROVE  Spec => RecordedTransferNotRepeated
<1>1. Inv /\ PassInv /\ [Next]_vars => PassInv'
  BY StepPassInv
<1>2. ASSUME Inv, PassInv, [Next]_vars, "transfer_succeeded" \in row.stage, LeaseOutlivesWork
      PROVE  transfers' = transfers
  <2>1. \A w \in Workers : worker[w].pc # "transferring"
    BY <1>2 DEF PassInv, StageKnown
  <2>2. \A w \in Workers : ~Transfer(w) /\ ~TransferFails(w)
    BY <2>1 DEF Transfer, TransferFails
  <2>. QED
    BY <1>2, <2>2
       DEF Next, WorkerStep, Lease, CheckHumanActive, CheckStage, RecordAttempt,
           RecordTransfer, UpdateConversation, RecordUpdate, EmitResult, RecordResult,
           MarkSent, Mark, Reread, Except, StatementFails, Crash, LeaseExpires,
           AgentReplies, AgentCancels
<1>3. Spec => [](Inv /\ PassInv)
  BY InitInv, StepInv, <1>1, PTL DEF Spec
<1>. QED  BY <1>2, <1>3, PTL DEF Spec, RecordedTransferNotRepeated
=============================================================================
