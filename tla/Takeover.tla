------------------------------ MODULE Takeover ------------------------------
(***************************************************************************)
(* One LiveChat conversation and every worker that shares it: the gateway, *)
(* the sender, the external command worker, the external result consumer   *)
(* and the webhook handler that stores a human agent's reply.  All of them *)
(* read conversation_states, wait (for the LLM, for LiveChat, for the      *)
(* backend) and write afterwards, while a person may take the conversation *)
(* over at any moment.  The idle timer is the subject of IdleTimer.        *)
(*                                                                         *)
(* Message texts, slot memory and business workflows are left out; rows    *)
(* are identified by the inbound event they answer and by the transaction  *)
(* that wrote them.  Leases are held until the work ends or the worker     *)
(* crashes (InboundQueue treats leases that run out earlier).              *)
(*                                                                         *)
(* An operator X_Suffix before X is a plausible bug of X; nothing uses it. *)
(***************************************************************************)
EXTENDS Naturals, FiniteSets

CONSTANTS
    MaxEvents,      \* bound: customer events of the conversation
    MaxAgentReplies,\* bound: public replies of human agents
    MaxFaults       \* bound: crashes and failed calls, over all workers

ASSUME ConstantsAssumption ==
    /\ MaxEvents \in Nat \ {0}
    /\ MaxAgentReplies \in Nat
    /\ MaxFaults \in Nat

VARIABLES
    status, workflow,   \* conversation_states.status, .active_workflow
    arrived, processed, \* customer inbound events stored, and marked processed
    out, cmd, res,      \* outbound_messages, external_commands, ..._results
    gateway, sender, command, consumer, agent,  \* worker-local state
    agentReplies,       \* agent replies stored so far
    takenOver,          \* history: the conversation has been HUMAN_ACTIVE
    late,               \* history: bot messages delivered since then
    faults

convVars == <<status, workflow, takenOver>>
inboxVars == <<arrived, processed>>
rowVars == <<out, cmd, res>>
workerVars == <<gateway, sender, command, consumer, agent>>
vars == <<convVars, inboxVars, rowVars, workerVars,
          agentReplies, late, faults>>

Events == 1 .. MaxEvents
\* A row is named by the event it answers and the transaction that wrote it.
Slots == Events \X {"gateway", "result"}

\* AI_ACTIVE stands for WAITING_EXTERNAL too: none of these workers tells them
\* apart.
Statuses == {"AI_ACTIVE", "HANDOFF_REQUESTED", "HUMAN_ACTIVE"}

\* _is_automation_suspended
Locked_OnlyRequested == {"HANDOFF_REQUESTED"}
Locked == {"HANDOFF_REQUESTED", "HUMAN_ACTIVE"}
Workflows == {"bot", "human_handoff"}
\* PENDING stands for RETRYABLE too: every cancellation and every lease query
\* takes both (SenderLease says what the initial delay of PENDING rows allows).
Queued == {"PENDING"}
RowStatuses == {"ABSENT", "PENDING", "SENT", "PROCESSED",
                "SKIPPED_HUMAN_ACTIVE", "FAILED"}

\* What a graph run or a result handler asks for: the next conversation state,
\* one text to the customer, and at most one external command.
Effect(s, w, a, k) == [status |-> s, workflow |-> w, ack |-> a, kind |-> k]
Effects ==
    [status : Statuses, workflow : Workflows, ack : BOOLEAN,
     kind : {"none", "query", "handoff"}]
Reply == Effect("AI_ACTIVE", "bot", FALSE, "none")
Query == Effect("AI_ACTIVE", "bot", FALSE, "query")
Handoff == Effect("HANDOFF_REQUESTED", "human_handoff", TRUE, "handoff")
HandoffWithoutAck == Effect("HANDOFF_REQUESTED", "bot", FALSE, "handoff")

TypeOK ==
    /\ status \in Statuses
    /\ workflow \in Workflows
    /\ arrived \in 0 .. MaxEvents
    /\ processed \in 0 .. MaxEvents
    /\ out \in [Slots -> [st : RowStatuses, ack : BOOLEAN]]
    /\ cmd \in [Slots -> [st : RowStatuses, kind : {"none", "query", "handoff"},
                        transferred : BOOLEAN]]
    /\ res \in [Slots -> RowStatuses]
    /\ gateway \in [pc : {"idle", "graph"}, suspended : BOOLEAN]
    /\ sender \in [pc : {"idle", "group", "sending", "delivered"},
                   group : SUBSET Slots, blocked : SUBSET Slots, cur : Slots]
    /\ command \in [Slots -> {"idle", "checked", "transferring",
                              "transferred", "recorded", "finishing"}]
    /\ consumer \in [Slots -> {"idle", "handling"}]
    /\ agent \in {"idle", "inserted", "marked", "outbound_cancelled",
                  "commands_cancelled"}
    /\ agentReplies \in 0 .. MaxAgentReplies
    /\ takenOver \in BOOLEAN
    /\ late \in Nat
    /\ faults \in 0 .. MaxFaults

NoGateway == [pc |-> "idle", suspended |-> FALSE]
NoSender == [pc |-> "idle", group |-> {}, blocked |-> {}, cur |-> <<1, "gateway">>]

NoCommand == [st |-> "ABSENT", kind |-> "none", transferred |-> FALSE]

Init ==
    /\ status = "AI_ACTIVE" /\ workflow = "bot" /\ takenOver = FALSE
    /\ arrived = 0 /\ processed = 0
    /\ out = [k \in Slots |-> [st |-> "ABSENT", ack |-> FALSE]]
    /\ cmd = [k \in Slots |-> NoCommand]
    /\ res = [k \in Slots |-> "ABSENT"]
    /\ gateway = NoGateway
    /\ sender = NoSender
    /\ command = [k \in Slots |-> "idle"]
    /\ consumer = [k \in Slots |-> "idle"]
    /\ agent = "idle"
    /\ agentReplies = 0 /\ late = 0 /\ faults = 0

\* One more crash or failed call.
Fault == faults < MaxFaults /\ faults' = faults + 1

-----------------------------------------------------------------------------
(* Shared database operations *)

\* insert_idempotent_on_connection of the outbound and the command repository
InsertOutbound(k, a) ==
    out' = IF out[k].st = "ABSENT"
           THEN [out EXCEPT ![k] = [st |-> "PENDING", ack |-> a]] ELSE out

InsertCommand(k, kind) ==
    cmd' = IF kind # "none" /\ cmd[k].st = "ABSENT"
           THEN [cmd EXCEPT ![k] = [NoCommand EXCEPT !.st = "PENDING", !.kind = kind]] ELSE cmd

\* The common part of process_event_transactionally and
\* process_result_transactionally: the row lock of get_or_create makes the
\* check of the status and the writes one atomic step.
ApplyEffect(k, e) ==
    IF status \in Locked
    THEN UNCHANGED <<status, workflow, out, cmd>>
    ELSE /\ status' = e.status
         /\ workflow' = e.workflow
         /\ InsertOutbound(k, e.ack)
         /\ InsertCommand(k, e.kind)

-----------------------------------------------------------------------------
(* Customer and gateway *)

\* A customer event reaches inbound_events.
CustomerEvent ==
    /\ arrived < MaxEvents
    /\ arrived' = arrived + 1
    /\ UNCHANGED <<convVars, processed, rowVars,
                   workerVars, agentReplies, late, faults>>

\* process_event loads the conversation and decides whether to run the graph.
GatewayLoad ==
    /\ gateway.pc = "idle"
    /\ processed < arrived
    /\ gateway' = [pc |-> "graph", suspended |-> status \in Locked]
    /\ UNCHANGED <<convVars, inboxVars, rowVars, sender, command,
                   consumer, agent, agentReplies, late, faults>>

\* The customer message is recorded and the event marked processed in every
\* branch of the gateway's transaction.
FinishEvent ==
    /\ gateway' = NoGateway
    /\ processed' = processed + 1

\* process_event_transactionally with the effect of a graph run.
GatewayCommit(e) ==
    /\ gateway.pc = "graph"
    /\ ~gateway.suspended
    /\ ApplyEffect(<<processed + 1, "gateway">>, e)
    /\ FinishEvent
    /\ UNCHANGED <<takenOver, arrived, res, sender, command, consumer,
                   agent, agentReplies, late, faults>>

\* ... and without one, when automation was suspended at load time.
GatewayCommitSuspended ==
    /\ gateway.pc = "graph"
    /\ gateway.suspended
    /\ FinishEvent
    /\ UNCHANGED <<convVars, arrived, rowVars, sender, command,
                   consumer, agent, agentReplies, late, faults>>

\* The gateway process dies or process_event raises: nothing was written.
GatewayFails ==
    /\ gateway.pc = "graph"
    /\ Fault
    /\ gateway' = NoGateway
    /\ UNCHANGED <<convVars, inboxVars, rowVars, sender, command,
                   consumer, agent, agentReplies, late>>

-----------------------------------------------------------------------------
(* Sender *)

\* Rows are inserted in the order of the events; the result of a query may
\* come before or after the answer to a later event.
Older(j, k) == j # k /\ j[2] = "gateway" /\ j[1] <= k[1]

\* _is_human_active_conversation, on the values that come with the lease
Blocked(k) ==
    \/ status = "HUMAN_ACTIVE"
    \/ /\ workflow = "human_handoff"
       /\ ~(status = "HANDOFF_REQUESTED" /\ out[k].ack)

\* lease_pending_groups: the queued rows of the conversation, oldest first,
\* with its status and workflow as of the lease.  Rows younger than the initial
\* delay stay out of the group, so it is any older part of the queue.
SenderLease ==
    /\ sender.pc = "idle"
    /\ LET queue == {k \in Slots : out[k].st \in Queued}
       IN  \E group \in SUBSET queue \ {{}} :
              /\ \A k \in group : {j \in queue : Older(j, k)} \subseteq group
              /\ sender' = [sender EXCEPT !.pc = "group", !.group = group,
                                          !.blocked = {k \in group : Blocked(k)}]
    /\ UNCHANGED <<convVars, inboxVars, rowVars, gateway, command,
                   consumer, agent, agentReplies, late, faults>>

\* process_pending_message re-reads the status before sending.  Within a group
\* block_index goes before the row id, so any row may be next.
MustSkip_LeaseOnly(k) == k \in sender.blocked
MustSkip(k) == k \in sender.blocked \/ status = "HUMAN_ACTIVE"

SenderCheck(k) ==
    /\ sender.pc = "group"
    /\ k \in sender.group
    /\ IF MustSkip(k)
       THEN /\ out' = [out EXCEPT ![k].st = "SKIPPED_HUMAN_ACTIVE"]
            /\ sender' = NoSender       \* the rest of the group is released
       ELSE /\ sender' = [sender EXCEPT !.pc = "sending", !.cur = k]
            /\ UNCHANGED out
    /\ UNCHANGED <<convVars, inboxVars, cmd, res, gateway, command,
                   consumer, agent, agentReplies, late, faults>>

\* LiveChat accepts the message.
SenderDeliver ==
    /\ sender.pc = "sending"
    /\ sender' = [sender EXCEPT !.pc = "delivered"]
    /\ late' = IF takenOver THEN late + 1 ELSE late
    /\ UNCHANGED <<convVars, inboxVars, rowVars, gateway, command,
                   consumer, agent, agentReplies, faults>>

\* mark_sent_with_message; the group goes on with its next row.
SenderMarkSent ==
    /\ sender.pc = "delivered"
    /\ out' = [out EXCEPT ![sender.cur].st = "SENT"]
    /\ LET rest == sender.group \ {sender.cur}
       IN  sender' = IF rest = {} THEN NoSender
                     ELSE [sender EXCEPT !.pc = "group", !.group = rest,
                                         !.cur = NoSender.cur]
    /\ UNCHANGED <<convVars, inboxVars, cmd, res, gateway, command, consumer,
                   agent, agentReplies, late, faults>>

\* The send is refused or times out: mark_failed, unconditional on the row's
\* current status; the rest of the group is released.
SenderFails(outcome) ==
    /\ sender.pc = "sending"
    /\ Fault
    /\ out' = [out EXCEPT ![sender.cur].st = outcome]
    /\ sender' = NoSender
    /\ UNCHANGED <<convVars, inboxVars, cmd, res, gateway, command,
                   consumer, agent, agentReplies, late>>

\* The sender dies; its rows become leasable when the lease runs out.
SenderCrash ==
    /\ sender.pc # "idle"
    /\ Fault
    /\ sender' = NoSender
    /\ UNCHANGED <<convVars, inboxVars, rowVars, gateway, command,
                   consumer, agent, agentReplies, late>>

-----------------------------------------------------------------------------
(* External command worker *)

commandUnchanged ==
    UNCHANGED <<inboxVars, gateway, sender, consumer, agent,
                agentReplies, late>>

\* lease_pending takes it.
CommandLeasable(k) == command[k] = "idle" /\ cmd[k].st \in Queued

\* The lease, then _command_blocked_by_human_active.  An agent's
\* cancellation between the two finds the conversation HUMAN_ACTIVE already, so
\* the check skips the row as the cancellation did: one step.
CommandCheck_Requeues(k) ==
    /\ CommandLeasable(k)
    /\ status # "HUMAN_ACTIVE"
    /\ command' = [command EXCEPT ![k] = "checked"]
    /\ UNCHANGED <<convVars, rowVars, faults>>
    /\ commandUnchanged
CommandCheck(k) ==
    /\ CommandLeasable(k)
    /\ IF status = "HUMAN_ACTIVE"
       THEN /\ cmd' = [cmd EXCEPT ![k].st = "SKIPPED_HUMAN_ACTIVE"]
            /\ UNCHANGED command
       ELSE /\ command' = [command EXCEPT ![k] = "checked"]
            /\ UNCHANGED cmd
    /\ UNCHANGED <<convVars, out, res, faults>>
    /\ commandUnchanged

\* backend.query: success and business failure both emit a result row.
CommandQuery(k) ==
    /\ command[k] = "checked"
    /\ cmd[k].kind = "query"
    /\ res' = IF res[k] = "ABSENT" THEN [res EXCEPT ![k] = "PENDING"] ELSE res
    /\ command' = [command EXCEPT ![k] = "finishing"]
    /\ UNCHANGED <<convVars, out, cmd, faults>>
    /\ commandUnchanged

\* fetch_handoff_ack_by_event: looked up by conversation and inbound event, of
\* which at most one transaction ever writes an acknowledgement.
AckOf_AnyText(k) == out[k].st
AckOf_FailedIsPending(k) ==
    IF ~out[k].ack THEN "ABSENT" ELSE IF out[k].st = "SENT" THEN "SENT" ELSE "PENDING"
AckOf(k) == IF out[k].ack THEN out[k].st ELSE "ABSENT"

\* _handoff_ack_dependency_status finds the ack sent.  A transfer recorded by
\* an earlier attempt is not repeated: FAILED_AFTER_EXTERNAL_SUCCESS.
CommandAckSent(k) ==
    /\ command[k] = "checked"
    /\ cmd[k].kind = "handoff"
    /\ AckOf(k) = "SENT"
    /\ IF cmd[k].transferred
       THEN /\ cmd' = [cmd EXCEPT ![k].st = "FAILED"]
            /\ command' = [command EXCEPT ![k] = "idle"]
       ELSE /\ command' = [command EXCEPT ![k] = "transferring"]
            /\ UNCHANGED cmd
    /\ UNCHANGED <<convVars, out, res, faults>>
    /\ commandUnchanged

\* The ack is still queued: release the lease and try again in a later tick.
CommandAckPending(k) ==
    /\ command[k] = "checked"
    /\ cmd[k].kind = "handoff"
    /\ AckOf(k) \in Queued
    /\ command' = [command EXCEPT ![k] = "idle"]
    /\ UNCHANGED <<convVars, rowVars, faults>>
    /\ commandUnchanged

\* The ack failed or does not exist: FAILED_DEPENDENCY, then
\* record_handoff_failure, which leaves a HUMAN_ACTIVE conversation alone.
CommandAckFailed(k) ==
    /\ command[k] = "checked"
    /\ cmd[k].kind = "handoff"
    /\ AckOf(k) \notin Queued \cup {"SENT"}
    /\ cmd' = [cmd EXCEPT ![k].st = "FAILED"]
    /\ command' = [command EXCEPT ![k] = "idle"]
    /\ IF status = "HUMAN_ACTIVE"
       THEN UNCHANGED <<status, workflow>>
       ELSE status' = "HANDOFF_REQUESTED" /\ workflow' = "human_handoff"
    /\ UNCHANGED <<takenOver, out, res, faults>>
    /\ commandUnchanged

\* transfer_chat_to_group succeeds.
CommandTransfer(k) ==
    /\ command[k] = "transferring"
    /\ command' = [command EXCEPT ![k] = "transferred"]
    /\ UNCHANGED <<convVars, rowVars, faults>>
    /\ commandUnchanged

\* _record_handoff_stage: transfer_succeeded goes into the command's payload.
CommandRecordTransfer(k) ==
    /\ command[k] = "transferred"
    /\ cmd' = [cmd EXCEPT ![k].transferred = TRUE]
    /\ command' = [command EXCEPT ![k] = "recorded"]
    /\ UNCHANGED <<convVars, out, res, faults>>
    /\ commandUnchanged

\* update_workflow_state to HUMAN_ACTIVE / human_handoff
CommandMarkHumanActive(k) ==
    /\ command[k] = "recorded"
    /\ status' = "HUMAN_ACTIVE" /\ workflow' = "human_handoff" /\ takenOver' = TRUE
    /\ command' = [command EXCEPT ![k] = "finishing"]
    /\ UNCHANGED <<rowVars, faults>>
    /\ commandUnchanged

CommandMarkSent(k) ==
    /\ command[k] = "finishing"
    /\ cmd' = [cmd EXCEPT ![k].st = "SENT"]
    /\ command' = [command EXCEPT ![k] = "idle"]
    /\ UNCHANGED <<convVars, out, res, faults>>
    /\ commandUnchanged

\* The external call fails: mark_processing_failed or a final failure status,
\* written whatever the row's status has become meanwhile.
CommandFails(k, outcome) ==
    /\ \/ command[k] \in {"checked", "finishing"} /\ cmd[k].kind = "query"
       \/ command[k] = "transferring"
    /\ Fault
    /\ cmd' = [cmd EXCEPT ![k].st = outcome]
    /\ command' = [command EXCEPT ![k] = "idle"]
    /\ UNCHANGED <<convVars, out, res>>
    /\ commandUnchanged

\* A local write after the transfer fails: FAILED_AFTER_EXTERNAL_SUCCESS.
CommandLocalFailure(k) ==
    /\ command[k] \in {"transferred", "recorded", "finishing"}
    /\ cmd[k].kind = "handoff"
    /\ Fault
    /\ cmd' = [cmd EXCEPT ![k].st = "FAILED"]
    /\ command' = [command EXCEPT ![k] = "idle"]
    /\ UNCHANGED <<convVars, out, res>>
    /\ commandUnchanged

\* The worker process dies with every command it holds.
CommandCrash ==
    /\ \E k \in Slots : command[k] # "idle"
    /\ Fault
    /\ command' = [k \in Slots |-> "idle"]
    /\ UNCHANGED <<convVars, rowVars>>
    /\ commandUnchanged

-----------------------------------------------------------------------------
(* External result consumer *)

consumerUnchanged ==
    UNCHANGED <<takenOver, inboxVars, gateway, sender, command,
                agent, agentReplies, late>>

\* process_one: lease, load the conversation, drop the result if it is locked.
ConsumerLoad(k) ==
    /\ consumer[k] = "idle"
    /\ res[k] \in Queued
    /\ IF status \in Locked
       THEN /\ res' = [res EXCEPT ![k] = "PROCESSED"]
            /\ UNCHANGED consumer
       ELSE /\ consumer' = [consumer EXCEPT ![k] = "handling"]
            /\ UNCHANGED res
    /\ UNCHANGED <<status, workflow, out, cmd, faults>>
    /\ consumerUnchanged

\* The dedup key of a result's answer differs from the one of the gateway's
\* reply to the same event (build_result_outbox).
ResultSlot_GatewayKey(k) == <<k[1], "gateway">>
ResultSlot(k) == <<k[1], "result">>

\* process_result_transactionally
ConsumerCommit(k, e) ==
    /\ consumer[k] = "handling"
    /\ ApplyEffect(ResultSlot(k), e)
    /\ res' = [res EXCEPT ![k] = "PROCESSED"]
    /\ consumer' = [consumer EXCEPT ![k] = "idle"]
    /\ UNCHANGED faults
    /\ consumerUnchanged

\* A crash or a retryable exception leaves the row queued; the last retry
\* (mark_processing_failed) ends in FAILED.
ConsumerFails(k, outcome) ==
    /\ consumer[k] = "handling"
    /\ Fault
    /\ res' = [res EXCEPT ![k] = outcome]
    /\ consumer' = [consumer EXCEPT ![k] = "idle"]
    /\ UNCHANGED <<status, workflow, out, cmd>>
    /\ consumerUnchanged

-----------------------------------------------------------------------------
(* Webhook handler storing a human agent's public reply: one INSERT and four *)
(* UPDATEs, each committed by itself (autocommit).                           *)

agentUnchanged ==
    UNCHANGED <<inboxVars, gateway, sender, command, consumer,
                late>>

AgentReply ==
    /\ agent = "idle"
    /\ agentReplies < MaxAgentReplies
    /\ agentReplies' = agentReplies + 1
    /\ agent' = "inserted"
    /\ UNCHANGED <<convVars, rowVars, faults>>
    /\ agentUnchanged

AgentMarkHumanActive ==
    /\ agent = "inserted"
    /\ status' = "HUMAN_ACTIVE" /\ takenOver' = TRUE
    /\ agent' = "marked"
    /\ UNCHANGED <<workflow, rowVars, agentReplies, faults>>
    /\ agentUnchanged

Cancelled_NewStatus(st) == IF st \in Queued THEN "CANCELLED" ELSE st
Cancelled(st) == IF st \in Queued THEN "SKIPPED_HUMAN_ACTIVE" ELSE st

AgentCancelOutbound ==
    /\ agent = "marked"
    /\ out' = [k \in Slots |-> [out[k] EXCEPT !.st = Cancelled(@)]]
    /\ agent' = "outbound_cancelled"
    /\ UNCHANGED <<convVars, cmd, res, agentReplies, faults>>
    /\ agentUnchanged

AgentCancelCommands ==
    /\ agent = "outbound_cancelled"
    /\ cmd' = [k \in Slots |-> [cmd[k] EXCEPT !.st = Cancelled(@)]]
    /\ agent' = "commands_cancelled"
    /\ UNCHANGED <<convVars, out, res, agentReplies, faults>>
    /\ agentUnchanged

AgentCancelResults ==
    /\ agent = "commands_cancelled"
    /\ res' = [k \in Slots |-> Cancelled(res[k])]
    /\ agent' = "idle"
    /\ UNCHANGED <<convVars, out, cmd, agentReplies, faults>>
    /\ agentUnchanged

\* The handler dies between two statements; the stored event makes every
\* redelivery a duplicate, so the rest is never executed for this reply.
AgentCrash ==
    /\ agent # "idle"
    /\ Fault
    /\ agent' = "idle"
    /\ UNCHANGED <<convVars, rowVars, agentReplies>>
    /\ agentUnchanged

-----------------------------------------------------------------------------
GatewayEffects == {Reply, Query, Handoff, HandoffWithoutAck}
ConsumerEffects == {Reply, Handoff}

GatewayStep ==
    \/ GatewayLoad
    \/ \E e \in GatewayEffects : GatewayCommit(e)
    \/ GatewayCommitSuspended

SenderStep ==
    \/ SenderLease
    \/ \E k \in Slots : SenderCheck(k)
    \/ SenderDeliver
    \/ SenderMarkSent

CommandStep(k) ==
    \/ CommandCheck(k) \/ CommandQuery(k)
    \/ CommandAckSent(k) \/ CommandAckPending(k) \/ CommandAckFailed(k)
    \/ CommandTransfer(k) \/ CommandRecordTransfer(k)
    \/ CommandMarkHumanActive(k) \/ CommandMarkSent(k)

ConsumerStep(k) ==
    \/ ConsumerLoad(k)
    \/ \E e \in ConsumerEffects : ConsumerCommit(k, e)

AgentStep ==
    \/ AgentMarkHumanActive \/ AgentCancelOutbound
    \/ AgentCancelCommands \/ AgentCancelResults

\* Crashes and calls that fail.
FaultStep ==
    \/ GatewayFails
    \/ SenderCrash
    \/ \E o \in {"PENDING", "FAILED"} : SenderFails(o)
    \/ CommandCrash
    \/ \E k \in Slots : \/ \E o \in {"PENDING", "FAILED"} : CommandFails(k, o)
                        \/ CommandLocalFailure(k)
                        \/ \E o \in {"PENDING", "FAILED"} : ConsumerFails(k, o)
    \/ AgentCrash

Next ==
    \/ CustomerEvent
    \/ GatewayStep
    \/ SenderStep
    \/ \E k \in Slots : CommandStep(k) \/ ConsumerStep(k)
    \/ AgentReply
    \/ AgentStep
    \/ FaultStep

Spec == Init /\ [][Next]_vars

\* service_runner ticks every worker again and again, and a tick that is not
\* killed runs to its end.  Customers, agents and faults owe nothing.
Fairness ==
    /\ WF_vars(GatewayStep)
    /\ WF_vars(SenderStep)
    /\ \A k \in Slots : WF_vars(CommandStep(k)) /\ WF_vars(ConsumerStep(k))
    /\ WF_vars(AgentStep)

FairSpec == Spec /\ Fairness

-----------------------------------------------------------------------------
(* Properties *)

\* Once a conversation has been HUMAN_ACTIVE, no later customer message and no
\* late result makes the bot queue an outbound message, an external command or
\* take the conversation back.
BotStaysOut ==
    [][takenOver =>
          /\ status' = "HUMAN_ACTIVE"
          /\ \A k \in Slots : out[k].st = "ABSENT" => out'[k].st = "ABSENT"
          /\ \A k \in Slots : cmd[k].st = "ABSENT" => cmd'[k].st = "ABSENT"]_vars

\* The conversation implements HumanControl: the state it is in says who owns
\* it, and the rows ever written are the work the bot has taken on.
Owner == CASE status = "AI_ACTIVE" -> "bot"
           [] status = "HANDOFF_REQUESTED" -> "handing_over"
           [] status = "HUMAN_ACTIVE" -> "human"
WorkItems == {"outbound", "command"} \X Slots
WorkTaken ==
    {<<"outbound", k>> : k \in {j \in Slots : out[j].st # "ABSENT"}} \cup
    {<<"command", k>> : k \in {j \in Slots : cmd[j].st # "ABSENT"}}
Control == INSTANCE HumanControl
             WITH Work <- WorkItems, owner <- Owner, work <- WorkTaken
ImplementsHumanControl == Control!Spec

\* The check in process_pending_message and the send are not atomic, so a
\* message may still reach the customer after the takeover, but only the one
\* that was past the check: neither the rest of its group nor a retry follows.
OneLateMessageAtMost == late <= 1

\* A transfer is attempted only for a customer who has been sent the handoff
\* acknowledgement of the same event, whatever the order in which the sender,
\* the command worker and the agent's cancellations run.
AckPrecedesTransfer ==
    \A k \in Slots :
        \/ command[k] \in {"transferring", "transferred", "recorded"}
        \/ cmd[k].transferred
        => out[k].ack /\ out[k].st = "SENT"

\* After a takeover every row reaches a final status: nothing is left that a
\* worker would execute later, even if the agent's webhook handler died before
\* it cancelled the queues or a worker put a cancelled row back.
QueuesDrain ==
    takenOver ~> [](\A k \in Slots :
                       {out[k].st, cmd[k].st, res[k]} \cap Queued = {})

\* A requested handoff reaches a person or leaves a failed command behind.
HandoffResolves ==
    status = "HANDOFF_REQUESTED" ~>
        \/ status = "HUMAN_ACTIVE"
        \/ \E k \in Slots : cmd[k].kind = "handoff" /\ cmd[k].st = "FAILED"

\* A backend query of the bot is answered by a result message, fails, or is
\* overtaken by a handoff.
QueryResolves ==
    \A e \in Events :
        (cmd[<<e, "gateway">>].kind = "query") ~>
            \/ out[<<e, "result">>].st # "ABSENT"
            \/ cmd[<<e, "gateway">>].st = "FAILED"
            \/ res[<<e, "gateway">>] = "FAILED"
            \/ status \in Locked

\* What the gateway asks of other workers comes to an end: handoffs and queries.
RequestsResolve == HandoffResolves /\ QueryResolves
=============================================================================
