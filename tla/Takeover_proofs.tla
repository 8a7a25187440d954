-------------------------- MODULE Takeover_proofs ---------------------------
(***************************************************************************)
(* Proofs about Takeover for every number of customer events, agent        *)
(* replies and faults: the bot keeps out of a conversation that a person   *)
(* has taken, at most one message is late, no chat is transferred before   *)
(* its acknowledgement, and the conversation implements HumanControl.      *)
(***************************************************************************)
EXTENDS Takeover, TLAPS

\* The history variable says what the status column says: no step leads out of
\* HUMAN_ACTIVE.
TakenIsHuman == takenOver <=> status = "HUMAN_ACTIVE"

\* The gateway works on a stored event that is not yet processed.
GatewayHasEvent == gateway.pc = "graph" => processed < arrived

\* Rows a sender has leased and not finished are queued, or were cancelled since.
GroupUnsent ==
    /\ \A k \in sender.group : out[k].st \in {"PENDING", "SKIPPED_HUMAN_ACTIVE"}
    /\ sender.pc \in {"sending", "delivered"} => sender.cur \in sender.group

\* A command a worker holds is a row of the table.
HeldIsWritten == \A k \in Slots : command[k] # "idle" => cmd[k].st # "ABSENT"

\* A late message needs a sender that passed its check before the takeover; after
\* the delivery no check lets another one pass.
LateCount ==
    /\ ~takenOver => late = 0
    /\ sender.pc = "sending" => late = 0
    /\ OneLateMessageAtMost

\* What holds between the actors besides the types.
Agreement ==
    /\ GatewayHasEvent
    /\ TakenIsHuman
    /\ GroupUnsent
    /\ HeldIsWritten
    /\ LateCount
    /\ AckPrecedesTransfer

\* The inductive invariant.
Inv == TypeOK /\ Agreement

-----------------------------------------------------------------------------
(* Lemmas about the tables *)

USE DEF vars, convVars, inboxVars, rowVars, workerVars, commandUnchanged,
        consumerUnchanged, agentUnchanged, Fault

\* The types of the tables and of the workers' states.
OutRows == [st : RowStatuses, ack : BOOLEAN]
CmdRows == [st : RowStatuses, kind : {"none", "query", "handoff"}, transferred : BOOLEAN]
GatewayStates == [pc : {"idle", "graph"}, suspended : BOOLEAN]
SenderStates == [pc : {"idle", "group", "sending", "delivered"},
                 group : SUBSET Slots, blocked : SUBSET Slots, cur : Slots]
CommandStates == {"idle", "checked", "transferring", "transferred", "recorded",
                  "finishing"}
AgentStates == {"idle", "inserted", "marked", "outbound_cancelled",
                "commands_cancelled"}
Typed ==
    /\ status \in Statuses /\ workflow \in Workflows
    /\ arrived \in 0 .. MaxEvents /\ processed \in 0 .. MaxEvents
    /\ out \in [Slots -> OutRows]
    /\ cmd \in [Slots -> CmdRows]
    /\ res \in [Slots -> RowStatuses]
    /\ gateway \in GatewayStates
    /\ sender \in SenderStates
    /\ command \in [Slots -> CommandStates]
    /\ consumer \in [Slots -> {"idle", "handling"}]
    /\ agent \in AgentStates
    /\ agentReplies \in 0 .. MaxAgentReplies
    /\ takenOver \in BOOLEAN
    /\ late \in Nat
    /\ faults \in 0 .. MaxFaults

\* The type invariant, with its record types named.
LEMMA TypedIsTypeOK == TypeOK <=> Typed
BY DEF TypeOK, Typed, OutRows, CmdRows, GatewayStates, SenderStates, CommandStates,
       AgentStates

\* Writing one column of one outbound message, command or result keeps the tables
\* typed.
LEMMA WriteTyped ==
    ASSUME Typed, NEW k \in Slots, NEW s \in RowStatuses
    PROVE  /\ [out EXCEPT ![k].st = s] \in [Slots -> OutRows]
           /\ [cmd EXCEPT ![k].st = s] \in [Slots -> CmdRows]
           /\ [cmd EXCEPT ![k].transferred = TRUE] \in [Slots -> CmdRows]
           /\ [res EXCEPT ![k] = s] \in [Slots -> RowStatuses]
BY DEF Typed, OutRows, CmdRows

\* A worker that takes or leaves a row is in a state of its own.
LEMMA WorkerTyped ==
    ASSUME Typed, NEW k \in Slots, NEW s \in CommandStates,
           NEW c \in {"idle", "handling"}
    PROVE  /\ [command EXCEPT ![k] = s] \in [Slots -> CommandStates]
           /\ [consumer EXCEPT ![k] = c] \in [Slots -> {"idle", "handling"}]
BY DEF Typed

\* Cancelling keeps every status a status.
LEMMA CancelledTyped ==
    ASSUME NEW s \in RowStatuses
    PROVE  Cancelled(s) \in RowStatuses
BY DEF Cancelled, Queued, RowStatuses

\* An idle gateway and an idle sender, which points at the first event's reply.
LEMMA IdleTyped == NoGateway \in GatewayStates /\ NoSender \in SenderStates
<1>1. <<1, "gateway">> \in Slots
  BY ConstantsAssumption DEF Slots, Events
<1>. QED  BY <1>1 DEF NoSender, NoGateway, GatewayStates, SenderStates

\* The atomic part of both transactions keeps the conversation and the tables
\* typed.
LEMMA EffectTyped ==
    ASSUME Typed, NEW k \in Slots, NEW e \in Effects, ApplyEffect(k, e)
    PROVE  /\ status' \in Statuses
           /\ workflow' \in Workflows
           /\ out' \in [Slots -> OutRows]
           /\ cmd' \in [Slots -> CmdRows]
<1>1. CASE status \in Locked
  BY <1>1 DEF ApplyEffect, Typed
<1>2. CASE status \notin Locked
  <2>1. status' = e.status /\ workflow' = e.workflow
        /\ InsertOutbound(k, e.ack) /\ InsertCommand(k, e.kind)
    BY <1>2 DEF ApplyEffect
  <2>2. status' \in Statuses /\ workflow' \in Workflows
    BY <2>1 DEF Effects
  <2>3. out' \in [Slots -> OutRows]
    BY <2>1 DEF InsertOutbound, Typed, OutRows, RowStatuses, Effects
  <2>4. cmd' \in [Slots -> CmdRows]
    BY <2>1 DEF InsertCommand, NoCommand, Typed, CmdRows, RowStatuses, Effects
  <2>. QED  BY <2>2, <2>3, <2>4
<1>. QED  BY <1>1, <1>2

\* The slots of the rows that a result writes are slots.
LEMMA ResultSlotIn == \A k \in Slots : ResultSlot(k) \in Slots
BY DEF ResultSlot, Slots

\* What graph runs and result handlers ask for are effects.
LEMMA EffectsTyped == GatewayEffects \cup ConsumerEffects \subseteq Effects
BY DEF GatewayEffects, ConsumerEffects, Effects, Effect, Reply, Query, Handoff,
       HandoffWithoutAck, Statuses, Workflows
-----------------------------------------------------------------------------
(* Type correctness *)

\* Every step of every actor keeps the types.
LEMMA TypeStep ==
    ASSUME Typed, GatewayHasEvent, [Next]_vars
    PROVE  Typed'
<1>. USE ConstantsAssumption, IdleTyped
<1>1. ASSUME CustomerEvent PROVE Typed'
  BY <1>1 DEF CustomerEvent, Typed
<1>2. ASSUME GatewayLoad PROVE Typed'
  BY <1>2 DEF GatewayLoad, GatewayStates, Typed
<1>3. ASSUME NEW e \in GatewayEffects, GatewayCommit(e) PROVE Typed'
  <2>1. <<processed + 1, "gateway">> \in Slots /\ processed + 1 \in 0 .. MaxEvents
    BY <1>3 DEF GatewayCommit, GatewayHasEvent, Typed, Slots, Events
  <2>2. /\ status' \in Statuses /\ workflow' \in Workflows
        /\ out' \in [Slots -> OutRows] /\ cmd' \in [Slots -> CmdRows]
    BY <1>3, <2>1, EffectTyped, EffectsTyped DEF GatewayCommit
  <2>. QED
    BY <1>3, <2>1, <2>2
       DEF GatewayCommit, FinishEvent, Typed
<1>4. ASSUME GatewayCommitSuspended PROVE Typed'
  BY <1>4 DEF GatewayCommitSuspended, GatewayHasEvent, FinishEvent, Typed
<1>5. ASSUME GatewayFails PROVE Typed'
  BY <1>5 DEF GatewayFails, Typed
<1>6. ASSUME SenderLease PROVE Typed'
  <2>1. PICK group \in SUBSET Slots :
          sender' = [sender EXCEPT !.pc = "group", !.group = group,
                                   !.blocked = {k \in group : Blocked(k)}]
    BY <1>6 DEF SenderLease
  <2>2. sender' \in SenderStates
    BY <2>1 DEF Typed, SenderStates
  <2>. QED  BY <1>6, <2>2 DEF SenderLease, Typed
<1>7. ASSUME NEW k \in Slots, SenderCheck(k) PROVE Typed'
  <2>1. [sender EXCEPT !.pc = "sending", !.cur = k] \in SenderStates
    BY DEF Typed, SenderStates
  <2>2. [out EXCEPT ![k].st = "SKIPPED_HUMAN_ACTIVE"] \in [Slots -> OutRows]
    BY WriteTyped DEF RowStatuses
  <2>3. sender' \in SenderStates /\ out' \in [Slots -> OutRows]
    BY <1>7, <2>1, <2>2 DEF SenderCheck, Typed
  <2>. QED  BY <1>7, <2>3 DEF SenderCheck, Typed
<1>8. ASSUME SenderDeliver PROVE Typed'
  BY <1>8 DEF SenderDeliver, SenderStates, Typed
<1>9. ASSUME SenderMarkSent PROVE Typed'
  BY <1>9, WriteTyped DEF SenderMarkSent, SenderStates, Typed, RowStatuses
<1>10. ASSUME NEW o \in {"PENDING", "FAILED"}, SenderFails(o) PROVE Typed'
  <2>1. sender.cur \in Slots /\ o \in RowStatuses
    BY DEF Typed, SenderStates, RowStatuses
  <2>2. out' \in [Slots -> OutRows]
    BY <1>10, <2>1, WriteTyped DEF SenderFails
  <2>. QED  BY <1>10, <2>2 DEF SenderFails, Typed
<1>11. ASSUME SenderCrash PROVE Typed'
  BY <1>11 DEF SenderCrash, Typed
<1>12. ASSUME NEW k \in Slots, CommandCheck(k) PROVE Typed'
  <2>1. [cmd EXCEPT ![k].st = "SKIPPED_HUMAN_ACTIVE"] \in [Slots -> CmdRows]
    BY WriteTyped DEF RowStatuses
  <2>2. [command EXCEPT ![k] = "checked"] \in [Slots -> CommandStates]
    BY WorkerTyped DEF CommandStates
  <2>. QED  BY <1>12, <2>1, <2>2 DEF CommandCheck, Typed
<1>13. ASSUME NEW k \in Slots, CommandQuery(k) PROVE Typed'
  BY <1>13, WorkerTyped DEF CommandStates, CommandQuery, Typed, RowStatuses
<1>14. ASSUME NEW k \in Slots, CommandAckSent(k) PROVE Typed'
  <2>1. [cmd EXCEPT ![k].st = "FAILED"] \in [Slots -> CmdRows]
    BY WriteTyped DEF RowStatuses
  <2>2. [command EXCEPT ![k] = "transferring"] \in [Slots -> CommandStates]
    BY WorkerTyped DEF CommandStates
  <2>3. [command EXCEPT ![k] = "idle"] \in [Slots -> CommandStates]
    BY WorkerTyped DEF CommandStates
  <2>. QED  BY <1>14, <2>1, <2>2, <2>3 DEF CommandAckSent, Typed
<1>15. ASSUME NEW k \in Slots, CommandAckPending(k) PROVE Typed'
  BY <1>15, WorkerTyped DEF CommandStates, CommandAckPending, Typed
<1>16. ASSUME NEW k \in Slots, CommandAckFailed(k) PROVE Typed'
  BY <1>16, WriteTyped, WorkerTyped
     DEF CommandStates, CommandAckFailed, Typed, RowStatuses, Statuses, Workflows
<1>17. ASSUME NEW k \in Slots, CommandTransfer(k) PROVE Typed'
  BY <1>17, WorkerTyped DEF CommandStates, CommandTransfer, Typed
<1>18. ASSUME NEW k \in Slots, CommandRecordTransfer(k) PROVE Typed'
  BY <1>18, WriteTyped, WorkerTyped DEF CommandStates, CommandRecordTransfer, Typed, RowStatuses
<1>19. ASSUME NEW k \in Slots, CommandMarkHumanActive(k) PROVE Typed'
  BY <1>19, WorkerTyped DEF CommandStates, CommandMarkHumanActive, Typed, Statuses, Workflows
<1>20. ASSUME NEW k \in Slots, CommandMarkSent(k) PROVE Typed'
  BY <1>20, WriteTyped, WorkerTyped DEF CommandStates, CommandMarkSent, Typed, RowStatuses
<1>21. ASSUME NEW k \in Slots, NEW o \in {"PENDING", "FAILED"}, CommandFails(k, o)
       PROVE Typed'
  <2>1. [cmd EXCEPT ![k].st = o] \in [Slots -> CmdRows]
    BY WriteTyped DEF RowStatuses
  <2>2. [command EXCEPT ![k] = "idle"] \in [Slots -> CommandStates]
    BY WorkerTyped DEF CommandStates
  <2>. QED  BY <1>21, <2>1, <2>2 DEF CommandFails, Typed
<1>22. ASSUME NEW k \in Slots, CommandLocalFailure(k) PROVE Typed'
  <2>1. [cmd EXCEPT ![k].st = "FAILED"] \in [Slots -> CmdRows]
    BY WriteTyped DEF RowStatuses
  <2>2. [command EXCEPT ![k] = "idle"] \in [Slots -> CommandStates]
    BY WorkerTyped DEF CommandStates
  <2>. QED  BY <1>22, <2>1, <2>2 DEF CommandLocalFailure, Typed
<1>23. ASSUME CommandCrash PROVE Typed'
  BY <1>23 DEF CommandCrash, CommandStates, Typed
<1>24. ASSUME NEW k \in Slots, ConsumerLoad(k) PROVE Typed'
  BY <1>24, WorkerTyped DEF ConsumerLoad, Typed, RowStatuses
<1>25. ASSUME NEW k \in Slots, NEW e \in ConsumerEffects, ConsumerCommit(k, e)
       PROVE Typed'
  <2>1. ResultSlot(k) \in Slots
    BY ResultSlotIn
  <2>2. /\ status' \in Statuses /\ workflow' \in Workflows
        /\ out' \in [Slots -> OutRows] /\ cmd' \in [Slots -> CmdRows]
    BY <1>25, <2>1, EffectTyped, EffectsTyped DEF ConsumerCommit
  <2>. QED
    BY <1>25, <2>2 DEF ConsumerCommit, Typed, RowStatuses
<1>26. ASSUME NEW k \in Slots, NEW o \in {"PENDING", "FAILED"}, ConsumerFails(k, o)
       PROVE Typed'
  BY <1>26, WorkerTyped DEF ConsumerFails, Typed, RowStatuses
<1>27. ASSUME AgentReply PROVE Typed'
  BY <1>27 DEF AgentReply, AgentStates, Typed
<1>28. ASSUME AgentMarkHumanActive PROVE Typed'
  BY <1>28 DEF AgentMarkHumanActive, AgentStates, Typed, Statuses
<1>29. ASSUME AgentCancelOutbound PROVE Typed'
  <2>1. \A k \in Slots : [out[k] EXCEPT !.st = Cancelled(@)] \in OutRows
    BY CancelledTyped DEF Typed, OutRows
  <2>. QED  BY <1>29, <2>1 DEF AgentCancelOutbound, AgentStates, Typed, OutRows
<1>30. ASSUME AgentCancelCommands PROVE Typed'
  <2>1. \A k \in Slots : [cmd[k] EXCEPT !.st = Cancelled(@)] \in CmdRows
    BY CancelledTyped DEF Typed, CmdRows
  <2>. QED  BY <1>30, <2>1 DEF AgentCancelCommands, AgentStates, Typed, CmdRows
<1>31. ASSUME AgentCancelResults PROVE Typed'
  BY <1>31, CancelledTyped DEF AgentCancelResults, AgentStates, Typed
<1>32. ASSUME AgentCrash PROVE Typed'
  BY <1>32 DEF AgentCrash, AgentStates, Typed
<1>33. ASSUME UNCHANGED vars PROVE Typed'
  BY <1>33 DEF Typed
<1>. QED
  BY <1>1, <1>2, <1>3, <1>4, <1>5, <1>6, <1>7, <1>8, <1>9, <1>10, <1>11, <1>12,
     <1>13, <1>14, <1>15, <1>16, <1>17, <1>18, <1>19, <1>20, <1>21, <1>22, <1>23,
     <1>24, <1>25, <1>26, <1>27, <1>28, <1>29, <1>30, <1>31, <1>32, <1>33
     DEF Next, GatewayStep, SenderStep, CommandStep, ConsumerStep, AgentStep, FaultStep
-----------------------------------------------------------------------------
(* The agreement between the actors *)

\* A transaction adds rows only: those already written stay as they are.
RowsAdded ==
    /\ \A j \in Slots :
          \/ out'[j] = out[j]
          \/ out[j].st = "ABSENT" /\ out'[j].st = "PENDING"
    /\ \A j \in Slots :
          \/ cmd'[j] = cmd[j]
          \/ cmd[j].st = "ABSENT" /\ cmd'[j].st = "PENDING" /\ ~cmd'[j].transferred

\* The atomic part of both transactions does nothing to a locked conversation
\* and leaves it with the bot or asks for a human.
LEMMA EffectShape ==
    ASSUME Typed, NEW k \in Slots, NEW e \in GatewayEffects \cup ConsumerEffects,
           ApplyEffect(k, e)
    PROVE  \/ UNCHANGED <<status, workflow, out, cmd>>
           \/ /\ status = "AI_ACTIVE"
              /\ status' \in {"AI_ACTIVE", "HANDOFF_REQUESTED"}
              /\ RowsAdded
<1>1. CASE status \in Locked
  BY <1>1 DEF ApplyEffect
<1>2. CASE status \notin Locked
  <2>1. status' = e.status
        /\ InsertOutbound(k, e.ack) /\ InsertCommand(k, e.kind)
    BY <1>2 DEF ApplyEffect
  <2>2. status = "AI_ACTIVE"
    BY <1>2 DEF Typed, Statuses, Locked
  <2>3. status' \in {"AI_ACTIVE", "HANDOFF_REQUESTED"}
    BY <2>1 DEF GatewayEffects, ConsumerEffects, Effect, Reply, Query, Handoff,
                HandoffWithoutAck
  <2>4. RowsAdded
    BY <2>1 DEF RowsAdded, InsertOutbound, InsertCommand, NoCommand, Typed
  <2>. QED  BY <2>2, <2>3, <2>4
<1>. QED  BY <1>1, <1>2

\* Adding rows while the bot owns the conversation disturbs nothing.
LEMMA RowsAddedAgree ==
    ASSUME Typed, Agreement, RowsAdded,
           status = "AI_ACTIVE", status' \in {"AI_ACTIVE", "HANDOFF_REQUESTED"},
           UNCHANGED <<sender, command, takenOver, late>>
    PROVE  TakenIsHuman' /\ GroupUnsent' /\ HeldIsWritten' /\ LateCount'
           /\ AckPrecedesTransfer'
<1>. USE DEF Agreement, RowsAdded
<1>1. TakenIsHuman'
  BY DEF TakenIsHuman
<1>2. GroupUnsent'
  BY DEF GroupUnsent, Typed, SenderStates
<1>3. HeldIsWritten'
  BY DEF HeldIsWritten
<1>4. LateCount'
  BY DEF LateCount, OneLateMessageAtMost
<1>5. AckPrecedesTransfer'
  BY DEF AckPrecedesTransfer
<1>. QED  BY <1>1, <1>2, <1>3, <1>4, <1>5

\* Every step of every actor keeps the agreement.
LEMMA AgreementStep ==
    ASSUME Typed, Agreement, [Next]_vars
    PROVE  Agreement'
<1>. USE DEF Agreement, GatewayHasEvent, TakenIsHuman, GroupUnsent, HeldIsWritten,
             LateCount, OneLateMessageAtMost, AckPrecedesTransfer
<1>1. ASSUME CustomerEvent PROVE Agreement'
  BY <1>1 DEF CustomerEvent, Typed, OutRows, CmdRows
<1>2. ASSUME GatewayLoad PROVE Agreement'
  BY <1>2 DEF GatewayLoad, Typed, GatewayStates
<1>3. ASSUME NEW e \in GatewayEffects, GatewayCommit(e) PROVE Agreement'
  <2>1. <<processed + 1, "gateway">> \in Slots
    BY <1>3, ConstantsAssumption DEF GatewayCommit, Typed, Slots, Events
  <2>2. \/ UNCHANGED <<status, out, cmd>>
        \/ /\ status = "AI_ACTIVE" /\ status' \in {"AI_ACTIVE", "HANDOFF_REQUESTED"}
           /\ RowsAdded
    BY <1>3, <2>1, EffectShape DEF GatewayCommit
  <2>3. GatewayHasEvent'
    BY <1>3 DEF GatewayCommit, FinishEvent, NoGateway
  <2>. QED  BY <1>3, <2>2, <2>3, RowsAddedAgree DEF GatewayCommit
<1>4. ASSUME GatewayCommitSuspended PROVE Agreement'
  BY <1>4 DEF GatewayCommitSuspended, FinishEvent, NoGateway, Typed, GatewayStates
<1>5. ASSUME GatewayFails PROVE Agreement'
  BY <1>5 DEF GatewayFails, NoGateway, Typed, GatewayStates
<1>6. ASSUME SenderLease PROVE Agreement'
  BY <1>6 DEF SenderLease, Queued, Typed, OutRows, SenderStates, NoSender
<1>7. ASSUME NEW k \in Slots, SenderCheck(k) PROVE Agreement'
  <2>1. out[k].st \in {"PENDING", "SKIPPED_HUMAN_ACTIVE"}
    BY <1>7 DEF SenderCheck
  <2>2. CASE MustSkip(k)
    BY <1>7, <2>1, <2>2 DEF SenderCheck, Typed, OutRows, NoSender
  <2>3. CASE ~MustSkip(k)
    BY <1>7, <2>3 DEF SenderCheck, MustSkip, Typed, SenderStates
  <2>. QED  BY <2>2, <2>3
<1>8. ASSUME SenderDeliver PROVE Agreement'
  BY <1>8 DEF SenderDeliver, Typed, OutRows, SenderStates, NoSender
<1>9. ASSUME SenderMarkSent PROVE Agreement'
  BY <1>9 DEF SenderMarkSent, Typed, OutRows, SenderStates, NoSender
<1>10. ASSUME NEW o \in {"PENDING", "FAILED"}, SenderFails(o) PROVE Agreement'
  BY <1>10 DEF SenderFails, Typed, OutRows, SenderStates, NoSender
<1>11. ASSUME SenderCrash PROVE Agreement'
  BY <1>11 DEF SenderCrash, Typed, OutRows, SenderStates, NoSender
<1>12. ASSUME NEW k \in Slots, CommandCheck(k) PROVE Agreement'
  <2>1. CASE status = "HUMAN_ACTIVE"
    <3>1. \A j \in Slots : /\ cmd'[j].transferred = cmd[j].transferred
                           /\ cmd'[j].st # cmd[j].st => cmd'[j].st = "SKIPPED_HUMAN_ACTIVE"
      BY <1>12, <2>1 DEF CommandCheck, Typed, CmdRows
    <3>. QED  BY <1>12, <2>1, <3>1 DEF CommandCheck
  <2>2. CASE status # "HUMAN_ACTIVE"
    BY <1>12, <2>2 DEF CommandCheck, CommandLeasable, Queued, Typed, CommandStates
  <2>. QED  BY <2>1, <2>2
<1>13. ASSUME NEW k \in Slots, CommandQuery(k) PROVE Agreement'
  BY <1>13 DEF CommandQuery, Typed, CmdRows, CommandStates
<1>14. ASSUME NEW k \in Slots, CommandAckSent(k) PROVE Agreement'
  BY <1>14 DEF CommandAckSent, AckOf, Typed, CmdRows, CommandStates
<1>15. ASSUME NEW k \in Slots, CommandAckPending(k) PROVE Agreement'
  BY <1>15 DEF CommandAckPending, Typed, CmdRows, CommandStates
<1>16. ASSUME NEW k \in Slots, CommandAckFailed(k) PROVE Agreement'
  BY <1>16 DEF CommandAckFailed, Typed, CmdRows, CommandStates
<1>17. ASSUME NEW k \in Slots, CommandTransfer(k) PROVE Agreement'
  BY <1>17 DEF CommandTransfer, Typed, CmdRows, CommandStates
<1>18. ASSUME NEW k \in Slots, CommandRecordTransfer(k) PROVE Agreement'
  BY <1>18 DEF CommandRecordTransfer, Typed, CmdRows, CommandStates
<1>19. ASSUME NEW k \in Slots, CommandMarkHumanActive(k) PROVE Agreement'
  BY <1>19 DEF CommandMarkHumanActive, Typed, CmdRows, CommandStates
<1>20. ASSUME NEW k \in Slots, CommandMarkSent(k) PROVE Agreement'
  BY <1>20 DEF CommandMarkSent, Typed, CmdRows, CommandStates
<1>21. ASSUME NEW k \in Slots, NEW o \in {"PENDING", "FAILED"}, CommandFails(k, o) PROVE Agreement'
  BY <1>21 DEF CommandFails, Typed, CmdRows, CommandStates
<1>22. ASSUME NEW k \in Slots, CommandLocalFailure(k) PROVE Agreement'
  BY <1>22 DEF CommandLocalFailure, Typed, CmdRows, CommandStates
<1>23. ASSUME CommandCrash PROVE Agreement'
  BY <1>23 DEF CommandCrash, Typed, CmdRows, CommandStates
<1>24. ASSUME NEW k \in Slots, ConsumerLoad(k) PROVE Agreement'
  BY <1>24 DEF ConsumerLoad, Typed, OutRows, CmdRows
<1>25. ASSUME NEW k \in Slots, NEW e \in ConsumerEffects, ConsumerCommit(k, e) PROVE Agreement'
  <2>1. \/ UNCHANGED <<status, out, cmd>>
        \/ /\ status = "AI_ACTIVE" /\ status' \in {"AI_ACTIVE", "HANDOFF_REQUESTED"}
           /\ RowsAdded
    BY <1>25, ResultSlotIn, EffectShape DEF ConsumerCommit
  <2>. QED  BY <1>25, <2>1, RowsAddedAgree DEF ConsumerCommit
<1>26. ASSUME NEW k \in Slots, NEW o \in {"PENDING", "FAILED"}, ConsumerFails(k, o) PROVE Agreement'
  BY <1>26 DEF ConsumerFails, Typed, OutRows, CmdRows
<1>27. ASSUME AgentReply PROVE Agreement'
  BY <1>27 DEF AgentReply, Typed, OutRows, CmdRows
<1>28. ASSUME AgentMarkHumanActive PROVE Agreement'
  BY <1>28 DEF AgentMarkHumanActive, Typed, OutRows, CmdRows
<1>29. ASSUME AgentCancelOutbound PROVE Agreement'
  <2>1. \A k \in Slots : /\ out'[k].st = Cancelled(out[k].st)
                         /\ out'[k].ack = out[k].ack
    BY <1>29 DEF AgentCancelOutbound, Typed, OutRows
  <2>2. GroupUnsent'
    BY <1>29, <2>1 DEF AgentCancelOutbound, Cancelled, Queued, Typed, SenderStates
  <2>3. AckPrecedesTransfer'
    BY <1>29, <2>1 DEF AgentCancelOutbound, Cancelled, Queued
  <2>. QED  BY <1>29, <2>2, <2>3 DEF AgentCancelOutbound
<1>30. ASSUME AgentCancelCommands PROVE Agreement'
  <2>1. \A k \in Slots : /\ cmd'[k].st = Cancelled(cmd[k].st)
                         /\ cmd'[k].transferred = cmd[k].transferred
    BY <1>30 DEF AgentCancelCommands, Typed, CmdRows
  <2>2. HeldIsWritten'
    BY <1>30, <2>1 DEF AgentCancelCommands, Cancelled, Queued
  <2>3. AckPrecedesTransfer'
    BY <1>30, <2>1 DEF AgentCancelCommands
  <2>. QED  BY <1>30, <2>2, <2>3 DEF AgentCancelCommands
<1>31. ASSUME AgentCancelResults PROVE Agreement'
  BY <1>31 DEF AgentCancelResults, Typed, OutRows, CmdRows
<1>32. ASSUME AgentCrash PROVE Agreement'
  BY <1>32 DEF AgentCrash, Typed, OutRows, CmdRows
<1>33. ASSUME UNCHANGED vars PROVE Agreement'
  BY <1>33
<1>. QED
  BY <1>1, <1>2, <1>3, <1>4, <1>5, <1>6, <1>7, <1>8, <1>9, <1>10, <1>11, <1>12, <1>13, <1>14, <1>15, <1>16, <1>17, <1>18, <1>19, <1>20, <1>21, <1>22, <1>23, <1>24, <1>25, <1>26, <1>27, <1>28, <1>29, <1>30, <1>31, <1>32, <1>33
     DEF Next, GatewayStep, SenderStep, CommandStep, ConsumerStep, AgentStep, FaultStep
-----------------------------------------------------------------------------
(* Who owns the conversation *)

\* Which messages and commands have been written at all does not change.
SameRowsWritten ==
    /\ \A k \in Slots : out'[k].st = "ABSENT" <=> out[k].st = "ABSENT"
    /\ \A k \in Slots : cmd'[k].st = "ABSENT" <=> cmd[k].st = "ABSENT"

\* No message or command that was written disappears.
RowsStay ==
    /\ \A k \in Slots : out[k].st # "ABSENT" => out'[k].st # "ABSENT"
    /\ \A k \in Slots : cmd[k].st # "ABSENT" => cmd'[k].st # "ABSENT"

\* A turn of the bot: rows are written and a human asked for only while the bot
\* owns the conversation.
BotTurns ==
    /\ status = "AI_ACTIVE"
    /\ status' \in {"AI_ACTIVE", "HANDOFF_REQUESTED"}
    /\ RowsStay

\* Any other step writes no new row and leaves the owner alone or makes it human.
OwnerKeptOrHuman == status' \in {status, "HUMAN_ACTIVE"} /\ SameRowsWritten

\* Both transactions of the bot are turns of the bot, or change nothing.
LEMMA EffectTurns ==
    ASSUME Typed, NEW k \in Slots, NEW e \in GatewayEffects \cup ConsumerEffects,
           ApplyEffect(k, e)
    PROVE  BotTurns \/ OwnerKeptOrHuman
<1>1. CASE UNCHANGED <<status, workflow, out, cmd>>
  BY <1>1 DEF OwnerKeptOrHuman, SameRowsWritten
<1>2. CASE /\ status = "AI_ACTIVE" /\ status' \in {"AI_ACTIVE", "HANDOFF_REQUESTED"}
           /\ RowsAdded
  BY <1>2 DEF RowsAdded, BotTurns, RowsStay
<1>. QED  BY <1>1, <1>2, EffectShape

\* Writing one status other than ABSENT into one row that exists leaves the rows
\* written the same.
LEMMA WriteKeeps ==
    ASSUME Typed, NEW k \in Slots, NEW s \in RowStatuses \ {"ABSENT"}
    PROVE  /\ out[k].st # "ABSENT" /\ out' = [out EXCEPT ![k].st = s] /\ UNCHANGED cmd
              => SameRowsWritten
           /\ cmd[k].st # "ABSENT" /\ cmd' = [cmd EXCEPT ![k].st = s] /\ UNCHANGED out
              => SameRowsWritten
<1>1. ASSUME out[k].st # "ABSENT", out' = [out EXCEPT ![k].st = s], UNCHANGED cmd
      PROVE  SameRowsWritten
  BY <1>1 DEF SameRowsWritten, Typed, OutRows
<1>2. ASSUME cmd[k].st # "ABSENT", cmd' = [cmd EXCEPT ![k].st = s], UNCHANGED out
      PROVE  SameRowsWritten
  BY <1>2 DEF SameRowsWritten, Typed, CmdRows
<1>. QED  BY <1>1, <1>2

\* Every step is a turn of the bot, or writes no new row and either keeps the owner
\* or puts a human in charge.
LEMMA StepShape ==
    ASSUME Typed, Agreement, [Next]_vars
    PROVE  BotTurns \/ OwnerKeptOrHuman
<1>. DEFINE Goal == BotTurns \/ OwnerKeptOrHuman
<1>1. ASSUME UNCHANGED <<status, out, cmd>> PROVE Goal
  BY <1>1 DEF OwnerKeptOrHuman, SameRowsWritten
<1>2. ASSUME NEW e \in GatewayEffects, GatewayCommit(e) PROVE Goal
  <2>1. <<processed + 1, "gateway">> \in Slots
    BY <1>2, ConstantsAssumption
       DEF GatewayCommit, Agreement, GatewayHasEvent, Typed, Slots, Events
  <2>. QED  BY <1>2, <2>1, EffectTurns DEF GatewayCommit
<1>3. ASSUME NEW k \in Slots, NEW e \in ConsumerEffects, ConsumerCommit(k, e) PROVE Goal
  BY <1>3, ResultSlotIn, EffectTurns DEF ConsumerCommit
<1>4. ASSUME NEW k \in Slots, SenderCheck(k) PROVE Goal
  <2>1. out[k].st # "ABSENT"
    BY <1>4 DEF SenderCheck, Agreement, GroupUnsent
  <2>. QED  BY <1>1, <1>4, <2>1, WriteKeeps DEF SenderCheck, OwnerKeptOrHuman, RowStatuses
<1>5. ASSUME SenderMarkSent \/ \E o \in {"PENDING", "FAILED"} : SenderFails(o) PROVE Goal
  <2>1. sender.cur \in Slots /\ out[sender.cur].st # "ABSENT"
    BY <1>5 DEF SenderMarkSent, SenderFails, Agreement, GroupUnsent, Typed, SenderStates
  <2>2. PICK s \in RowStatuses \ {"ABSENT"} : out' = [out EXCEPT ![sender.cur].st = s]
    BY <1>5 DEF SenderMarkSent, SenderFails, RowStatuses
  <2>. QED
    BY <1>5, <2>1, <2>2, WriteKeeps DEF SenderMarkSent, SenderFails, OwnerKeptOrHuman
<1>6. ASSUME NEW k \in Slots, \/ CommandCheck(k) \/ CommandAckSent(k) \/ CommandMarkSent(k)
                              \/ \E o \in {"PENDING", "FAILED"} : CommandFails(k, o)
                              \/ CommandLocalFailure(k)
      PROVE Goal
  <2>1. cmd[k].st # "ABSENT"
    BY <1>6 DEF CommandCheck, CommandLeasable, Queued, CommandAckSent, CommandMarkSent,
                CommandFails, CommandLocalFailure, Agreement, HeldIsWritten
  <2>2. \/ cmd' = cmd
        \/ \E s \in RowStatuses \ {"ABSENT"} : cmd' = [cmd EXCEPT ![k].st = s]
    BY <1>6 DEF CommandCheck, CommandAckSent, CommandMarkSent, CommandFails,
                CommandLocalFailure, RowStatuses
  <2>3. UNCHANGED <<status, out>>
    BY <1>6 DEF CommandCheck, CommandAckSent, CommandMarkSent, CommandFails,
                CommandLocalFailure
  <2>. QED  BY <1>1, <2>1, <2>2, <2>3, WriteKeeps DEF OwnerKeptOrHuman
<1>7. ASSUME NEW k \in Slots, CommandAckFailed(k) PROVE Goal
  <2>1. cmd[k].st # "ABSENT" /\ cmd' = [cmd EXCEPT ![k].st = "FAILED"] /\ UNCHANGED out
    BY <1>7 DEF CommandAckFailed, Agreement, HeldIsWritten
  <2>2. SameRowsWritten
    BY <2>1, WriteKeeps DEF RowStatuses
  <2>3. \/ status' = status
        \/ status = "AI_ACTIVE" /\ status' = "HANDOFF_REQUESTED"
    BY <1>7 DEF CommandAckFailed, Typed, Statuses
  <2>. QED  BY <2>2, <2>3 DEF BotTurns, OwnerKeptOrHuman, SameRowsWritten, RowsStay
<1>8. ASSUME NEW k \in Slots, CommandRecordTransfer(k) PROVE Goal
  <2>1. SameRowsWritten
    BY <1>8 DEF CommandRecordTransfer, SameRowsWritten, Typed, CmdRows
  <2>. QED  BY <1>8, <2>1 DEF CommandRecordTransfer, OwnerKeptOrHuman
<1>9. ASSUME AgentMarkHumanActive \/ \E k \in Slots : CommandMarkHumanActive(k) PROVE Goal
  BY <1>9 DEF AgentMarkHumanActive, CommandMarkHumanActive, OwnerKeptOrHuman,
              SameRowsWritten
<1>10. ASSUME AgentCancelOutbound PROVE Goal
  <2>1. \A k \in Slots : out'[k].st = Cancelled(out[k].st)
    BY <1>10 DEF AgentCancelOutbound, Typed, OutRows
  <2>. QED
    BY <1>10, <2>1 DEF AgentCancelOutbound, Cancelled, Queued, OwnerKeptOrHuman,
                       SameRowsWritten
<1>11. ASSUME AgentCancelCommands PROVE Goal
  <2>1. \A k \in Slots : cmd'[k].st = Cancelled(cmd[k].st)
    BY <1>11 DEF AgentCancelCommands, Typed, CmdRows
  <2>. QED
    BY <1>11, <2>1 DEF AgentCancelCommands, Cancelled, Queued, OwnerKeptOrHuman,
                       SameRowsWritten
<1>12. ASSUME \/ CustomerEvent \/ GatewayLoad \/ GatewayCommitSuspended \/ GatewayFails
              \/ SenderLease \/ SenderDeliver \/ SenderCrash
       PROVE Goal
  BY <1>1, <1>12 DEF CustomerEvent, GatewayLoad, GatewayCommitSuspended, GatewayFails,
                     SenderLease, SenderDeliver, SenderCrash
<1>13. ASSUME NEW k \in Slots, \/ CommandQuery(k) \/ CommandAckPending(k)
                               \/ CommandTransfer(k)
       PROVE Goal
  BY <1>1, <1>13 DEF CommandQuery, CommandAckPending, CommandTransfer
<1>14. ASSUME \/ CommandCrash
              \/ \E k \in Slots : \/ ConsumerLoad(k)
                                  \/ \E o \in {"PENDING", "FAILED"} : ConsumerFails(k, o)
       PROVE Goal
  BY <1>1, <1>14 DEF CommandCrash, ConsumerLoad, ConsumerFails
<1>15. ASSUME AgentReply \/ AgentCancelResults \/ AgentCrash PROVE Goal
  BY <1>1, <1>15 DEF AgentReply, AgentCancelResults, AgentCrash
<1>16. ASSUME UNCHANGED vars PROVE Goal
  BY <1>1, <1>16
<1>. QED
  BY <1>2, <1>3, <1>4, <1>5, <1>6, <1>7, <1>8, <1>9, <1>10, <1>11, <1>12, <1>13, <1>14,
     <1>15, <1>16
     DEF Next, GatewayStep, SenderStep, CommandStep, ConsumerStep, AgentStep, FaultStep

-----------------------------------------------------------------------------
(* Theorems *)

\* The invariant holds of an empty conversation.
LEMMA InitInv == Init => Inv
<1>1. ASSUME Init PROVE Typed
  <2>1. out \in [Slots -> OutRows] /\ cmd \in [Slots -> CmdRows]
    BY <1>1 DEF Init, NoCommand, OutRows, CmdRows, RowStatuses
  <2>2. res \in [Slots -> RowStatuses] /\ consumer \in [Slots -> {"idle", "handling"}]
        /\ command \in [Slots -> CommandStates]
    BY <1>1 DEF Init, RowStatuses, CommandStates
  <2>3. status \in Statuses /\ workflow \in Workflows /\ agent \in AgentStates
    BY <1>1 DEF Init, Statuses, Workflows, AgentStates
  <2>4. gateway \in GatewayStates /\ sender \in SenderStates
    BY <1>1, IdleTyped DEF Init
  <2>5. takenOver \in BOOLEAN
    BY <1>1 DEF Init
  <2>6. /\ arrived \in 0 .. MaxEvents /\ processed \in 0 .. MaxEvents
        /\ agentReplies \in 0 .. MaxAgentReplies /\ faults \in 0 .. MaxFaults
        /\ late \in Nat
    BY <1>1, ConstantsAssumption DEF Init
  <2>. QED  BY <2>1, <2>2, <2>3, <2>4, <2>5, <2>6 DEF Typed
<1>2. ASSUME Init PROVE Agreement
  BY <1>2 DEF Init, NoGateway, NoSender, NoCommand, Agreement, GatewayHasEvent,
              TakenIsHuman, GroupUnsent, HeldIsWritten, LateCount,
              OneLateMessageAtMost, AckPrecedesTransfer
<1>. QED  BY <1>1, <1>2, TypedIsTypeOK DEF Inv

\* Every step keeps the invariant.
LEMMA StepInv == Inv /\ [Next]_vars => Inv'
<1>. SUFFICES ASSUME Typed, Agreement, [Next]_vars PROVE Typed' /\ Agreement'
  BY TypedIsTypeOK, PTL DEF Inv
<1>. QED  BY TypeStep, AgreementStep DEF Agreement

\* In every reachable state the actors of a conversation agree.
THEOREM ConversationInvariant == Spec => []Inv
BY InitInv, StepInv, PTL DEF Spec

\* The tables and the workers' states are typed in every reachable state.
THEOREM TypeCorrect == Spec => []TypeOK
<1>1. Inv => TypeOK
  BY DEF Inv
<1>. QED  BY <1>1, ConversationInvariant, PTL

\* At most one bot message reaches the customer after a person has taken over,
\* whatever number of rows is queued and of retries the sender makes.
THEOREM LateMessages == Spec => []OneLateMessageAtMost
<1>1. Inv => OneLateMessageAtMost
  BY DEF Inv, Agreement, LateCount
<1>. QED  BY <1>1, ConversationInvariant, PTL

\* No chat is transferred before the acknowledgement of the same event was sent.
THEOREM AckFirst == Spec => []AckPrecedesTransfer
<1>1. Inv => AckPrecedesTransfer
  BY DEF Inv, Agreement
<1>. QED  BY <1>1, ConversationInvariant, PTL

\* A person who has taken the conversation keeps it: no worker writes a new message
\* or command and none gives the conversation back to the bot.
THEOREM BotKeepsOut == Spec => BotStaysOut
<1>1. ASSUME Inv, [Next]_vars, takenOver
      PROVE  /\ status' = "HUMAN_ACTIVE"
             /\ \A k \in Slots : out[k].st = "ABSENT" => out'[k].st = "ABSENT"
             /\ \A k \in Slots : cmd[k].st = "ABSENT" => cmd'[k].st = "ABSENT"
  <2>1. status = "HUMAN_ACTIVE"
    BY <1>1 DEF Inv, Agreement, TakenIsHuman
  <2>2. BotTurns \/ OwnerKeptOrHuman
    BY <1>1, StepShape, TypedIsTypeOK DEF Inv
  <2>. QED  BY <2>1, <2>2 DEF BotTurns, OwnerKeptOrHuman, SameRowsWritten
<1>. QED  BY <1>1, ConversationInvariant, PTL DEF Spec, BotStaysOut

\* Every step of the bot's work is a turn of the bot in HumanControl.
LEMMA TurnRefines ==
    ASSUME Typed, BotTurns
    PROVE  Control!BotTurn
<1>1. Owner = "bot" /\ Owner' \in {"bot", "handing_over"}
  BY DEF BotTurns, Owner
<1>2. WorkTaken' \in SUBSET WorkItems /\ WorkTaken' = WorkTaken \cup WorkTaken'
  BY DEF WorkTaken, WorkItems, BotTurns, RowsStay
<1>. QED  BY <1>1, <1>2 DEF Control!BotTurn

\* Every other step is a takeover in HumanControl or is not seen there.
LEMMA OwnerRefines ==
    ASSUME Typed, Typed', OwnerKeptOrHuman
    PROVE  Control!HumanTakes \/ UNCHANGED <<Owner, WorkTaken>>
<1>1. WorkTaken' = WorkTaken
  BY DEF WorkTaken, OwnerKeptOrHuman, SameRowsWritten
<1>2. CASE status' = "HUMAN_ACTIVE"
  BY <1>1, <1>2 DEF Owner, Control!HumanTakes
<1>3. CASE status' = status
  BY <1>1, <1>3 DEF Owner
<1>. QED  BY <1>2, <1>3 DEF OwnerKeptOrHuman

\* The conversation implements HumanControl: the bot takes on work only while it
\* owns the conversation, and ownership moves towards the human and never back.
THEOREM ConversationImplementsHumanControl == Spec => ImplementsHumanControl
<1>1. Init => Control!Init
  BY DEF Init, Control!Init, Owner, WorkTaken, NoCommand
<1>2. Inv => Typed /\ Agreement
  BY TypedIsTypeOK DEF Inv
<1>3. ASSUME Typed, Agreement, Typed', [Next]_vars
      PROVE  [Control!Next]_<<Owner, WorkTaken>>
  <2>1. BotTurns \/ OwnerKeptOrHuman
    BY <1>3, StepShape
  <2>. QED  BY <1>3, <2>1, TurnRefines, OwnerRefines DEF Control!Next
<1>. QED
  BY <1>1, <1>2, <1>3, ConversationInvariant, PTL DEF Spec, ImplementsHumanControl, Control!Spec
=============================================================================
