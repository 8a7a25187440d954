--------------------------- MODULE IdleTimer_proofs ---------------------------
(***************************************************************************)
(* Proofs about IdleTimer for every number of customer messages and of     *)
(* faults: nobody is asked the same thing over and over, nobody is         *)
(* disconnected without the warnings that follow the messages the timer    *)
(* has seen, and the timer takes no conversation from a human.             *)
(***************************************************************************)
EXTENDS IdleTimer, FiniteSetTheorems, TLAPS

-----------------------------------------------------------------------------
(* Times and the memory of the timer *)

\* A tick that has found a conversation to work on.
InTick == timer.pc \notin {"idle", "started"}

\* Both texts of a cycle stand on the follow-up, and the follow-up on the
\* assistant message at which the cycle began.
SlotInOrder(s) ==
    /\ s.close => s.followup # Never
    /\ s.followup # Never => s.base <= s.followup

\* Stored messages have a time, and nothing is stamped in the future.  A tick
\* overtaken by a customer message stamps its own message before that one.
TimesInOrder ==
    /\ \A m \in visible : written[m] # Never
    /\ latest.at <= clock /\ timer.now <= clock
    /\ latest.role = "assistant" => latest.at # Never
    /\ InTick /\ latest.role # "assistant" => timer.now < latest.at

\* The gateway works on a stored event.
GatewayHasEvent == gateway.pc # "idle" => processed + 1 \in visible

SlotsInOrder == SlotInOrder(slot) /\ SlotInOrder(gateway.slot) /\ SlotInOrder(timer.slot)

\* The assistant message the tick counts from, and the text it is about to send.
Late == TimerStates \ {"idle", "started", "fetched", "examined"}
Composing == {"sending", "sent", "saving", "inserted"}
TickInOrder ==
    /\ timer.pc = "examined" => timer.cutoff # Never
    /\ timer.pc = "checked" /\ timer.slot.followup = Never => timer.cutoff # Never
    /\ timer.pc \in Late /\ timer.slot.followup # Never => timer.cutoff = timer.slot.base
    /\ timer.pc \in Composing /\ timer.text = "followup" =>
          /\ timer.slot.followup = Never /\ timer.cutoff # Never
          /\ timer.cutoff <= timer.now /\ timer.slot.base = timer.cutoff
    /\ timer.pc \in Composing /\ timer.text = "close" => timer.slot.followup # Never
    /\ timer.pc \in Composing => ~timer.slot.close

-----------------------------------------------------------------------------
(* Texts that may be repeated *)

\* What a slot memory tells of the texts the customer has been told.
Knows(s, t) == IF t = "followup" THEN s.followup # Never ELSE s.close
Restarts(s) == s.followup # Never /\ ActivityAfter(s.followup)
Forgotten(s) == {t \in told : ~Knows(s, t) \/ Restarts(s)}
Alike(r, s) == r.followup = s.followup /\ r.close = s.close

\* What the tick will remember when it saves the slot memory.
Writing == timer.pc \in {"saving", "inserted"}
Memory == IF Writing THEN SentSlot(timer.slot, timer.text, timer.now) ELSE timer.slot

\* Every fault and every message of the customer pays for one repetition: those
\* made, and one of every text that is owed, less what is advanced.
Paid(owed, advance) == repeats + Cardinality(owed) <= faults + Cardinality(visible) + advance

\* No tick begins here.
Suspended == latest.role # "assistant" \/ status = "HUMAN_ACTIVE"

\* Repetitions made, and those still to come because a text was forgotten, are
\* paid for, by the memory of the tick as by the one in the table.
TickPaid == InTick => Paid(Forgotten(Memory), 0)
TablePaid == ~Suspended => Paid(Forgotten(slot), IF Writing THEN 1 ELSE 0)

\* A message that comes between the last look and the send pays for itself.
LatecomerPaid ==
    timer.pc = "sent" /\ ActivityAfter(timer.cutoff) => told = {} /\ Paid({timer.text}, 0)

RepeatsPaid == NoRepeatedText /\ TickPaid /\ TablePaid /\ LatecomerPaid

-----------------------------------------------------------------------------
(* Texts that the customer has received *)

\* Silence is counted from a message that has been written.
SilenceInOrder ==
    /\ silentSince <= clock
    /\ timer.pc = "examined" => timer.cutoff <= clock

\* A message after this one has been stored, or resets the count when it is.
Anchored(c) == c <= silentSince \/ ActivityAfter(c)

\* The texts that a slot memory knows have been received, or are void.
Warns(s) == Anchored(s.base) /\ \A t \in Texts : Knows(s, t) => t \in warned \/ ActivityAfter(s.base)

Warnings ==
    /\ Warns(slot) /\ Warns(gateway.slot) /\ Warns(timer.slot)
    /\ timer.pc \in Late => Anchored(timer.cutoff)
    /\ timer.pc = "examined" => Anchored(timer.cutoff) \/ timer.slot.followup # Never
    /\ timer.pc = "examined" /\ latest.role = "assistant" =>
          latest.at = timer.cutoff \/ Anchored(latest.at)
    /\ Writing => timer.text \in warned \/ ActivityAfter(timer.cutoff)
    /\ InTick /\ timer.pc # "inserted" /\ latest.role = "assistant" =>
          Anchored(latest.at) \/ timer.slot.followup # Never
    /\ ~Suspended /\ timer.pc # "inserted" => Anchored(latest.at) \/ slot.followup # Never
    /\ timer.pc \in {"closing", "deactivating"} => timer.slot.close
    /\ timer.pc # "record_failure"

-----------------------------------------------------------------------------
(* When they were sent *)

\* The texts that a slot memory knows were sent after the base of their cycle.
LastSent(s) == s.base <= clock /\ \A t \in Texts : Knows(s, t) => s.base <= sentAt[t]

Sendings ==
    /\ LastSent(slot) /\ LastSent(gateway.slot) /\ LastSent(timer.slot)
    /\ Writing => timer.slot.base <= sentAt[timer.text]
    /\ timer.pc \in {"closing", "deactivating"} => timer.slot.close
    /\ timer.pc = "deactivating" => \A m \in seen : written[m] <= timer.cutoff
    /\ seen \subseteq visible

\* The warnings at the last look still stand at the call.
StillWarned == timer.pc = "deactivating" => warned = Texts

Inv ==
    /\ TypeOK /\ GatewayHasEvent /\ TimesInOrder /\ SlotsInOrder /\ TickInOrder
    /\ RepeatsPaid /\ SilenceInOrder /\ Sendings
    /\ faults = 0 => Warnings /\ StillWarned

-----------------------------------------------------------------------------
(* Types *)

\* What a tick knows.
Ticks == [pc : TimerStates, now : Nat, status : Statuses, slot : Slot, cutoff : Nat, text : Texts]

\* Slot memories and their updates are typed.
LEMMA SlotsTyped ==
    /\ NoSlot \in Slot
    /\ \A s \in Slot : /\ ClearIdle(s) \in Slot /\ ClearIdle(s).followup = Never
                       /\ ~ClearIdle(s).close /\ ClearIdle(s).base = Never
    /\ \A s \in Slot : [s EXCEPT !.failed = TRUE] \in Slot /\ [s EXCEPT !.closed = TRUE] \in Slot
    /\ \A s \in Slot, text \in Texts, now \in Nat : SentSlot(s, text, now) \in Slot
    /\ \A s \in Slot, base \in Nat : [s EXCEPT !.base = base] \in Slot
BY DEF NoSlot, Slot, ClearIdle, SentSlot, Never

\* The customer, the gateway and the others keep the types.
LEMMA TypesWorld ==
    ASSUME TypeOK, GatewayHasEvent,
           CustomerWrites \/ EventStored \/ GatewayLoad \/ GatewayCommit \/ SenderStep
           \/ WorkDone \/ HandoffDone \/ AgentReply \/ ThreadEnds
    PROVE  TypeOK'
<1>. USE DEF convVars, customerVars, queueVars, history
<1>1. CASE CustomerWrites
  BY <1>1 DEF CustomerWrites, TypeOK
<1>2. CASE EventStored
  BY <1>2 DEF EventStored, TypeOK
<1>3. CASE GatewayLoad
  BY <1>3 DEF GatewayLoad, TypeOK
<1>4. CASE GatewayCommit
  <2>1. processed' \in 0 .. MaxMessages
    <3>1. processed + 1 \in Messages
      BY <1>4 DEF GatewayCommit, GatewayHasEvent, TypeOK
    <3>. QED  BY <1>4, <3>1, ConstantsAssumption DEF GatewayCommit, Messages, TypeOK
  <2>2. gateway' \in [pc : {"idle", "graph", "suspended"}, slot : Slot]
    BY <1>4, SlotsTyped DEF GatewayCommit, NoGateway
  <2>3. clock' \in Nat /\ latest' \in [role : {"none", "customer", "assistant"}, at : Nat]
    BY <1>4 DEF GatewayCommit, InsertMessage, TypeOK
  <2>4. status' \in Statuses /\ slot' \in Slot
    BY <1>4 DEF GatewayCommit, TypeOK, Statuses
  <2>5. replies' \in Nat
    BY <1>4 DEF GatewayCommit, TypeOK
  <2>6. work' \in BOOLEAN /\ handoff' \in BOOLEAN
    <3>1. (work' = TRUE \/ work' = work) /\ (handoff' = TRUE \/ handoff' = handoff)
      BY <1>4, Zenon DEF GatewayCommit
    <3>. QED  BY <3>1 DEF TypeOK
  <2>. QED  BY <1>4, <2>1, <2>2, <2>3, <2>4, <2>5, <2>6 DEF GatewayCommit, TypeOK
<1>5. CASE SenderStep
  BY <1>5 DEF SenderStep, TypeOK, InsertMessage
<1>6. CASE WorkDone
  <2>1. status' \in Statuses /\ work' \in BOOLEAN
    BY <1>6, Zenon DEF WorkDone, TypeOK, Statuses
  <2>2. replies' \in Nat
    BY <1>6 DEF WorkDone, TypeOK
  <2>. QED  BY <1>6, <2>1, <2>2 DEF WorkDone, TypeOK
<1>7. CASE HandoffDone
  <2>1. status' \in Statuses /\ slot' \in Slot /\ takenOver' \in BOOLEAN
    BY <1>7, SlotsTyped DEF HandoffDone, TypeOK, Statuses
  <2>2. handoff' \in BOOLEAN
    BY <1>7 DEF HandoffDone
  <2>. QED  BY <1>7, <2>1, <2>2 DEF HandoffDone, TypeOK
<1>8. CASE AgentReply
  BY <1>8 DEF AgentReply, TypeOK, Statuses
<1>9. CASE ThreadEnds
  BY <1>9 DEF ThreadEnds, TypeOK
<1>. QED  BY <1>1, <1>2, <1>3, <1>4, <1>5, <1>6, <1>7, <1>8, <1>9

\* The check of the follow-up restarts the cycle or leaves it alone.
LEMMA FollowupMoves ==
    ASSUME TimerCheckFollowup
    PROVE  \/ /\ Restarts(timer.slot) /\ slot' = ClearIdle(timer.slot)
              /\ timer' = [timer EXCEPT !.pc = "checked", !.slot = ClearIdle(timer.slot),
                                !.cutoff = CycleCutoff(ClearIdle(timer.slot), timer.cutoff)]
              /\ silentSince' = IF timer.cutoff > silentSince THEN timer.cutoff ELSE silentSince
           \/ /\ ~Restarts(timer.slot) /\ slot' = slot
              /\ timer' = [timer EXCEPT !.pc = "checked", !.slot = timer.slot,
                                !.cutoff = CycleCutoff(timer.slot, timer.cutoff)]
              /\ silentSince' = silentSince
<1>1. CASE Restarts(timer.slot)
  BY <1>1 DEF TimerCheckFollowup, Restarts
<1>2. CASE ~Restarts(timer.slot)
  BY <1>2 DEF TimerCheckFollowup, Restarts
<1>. QED  BY <1>1, <1>2

\* The ticks of the timer keep the types.
LEMMA TypesTimer ==
    ASSUME TypeOK, TimerStep
    PROVE  TypeOK'
<1>. USE DEF convVars, customerVars, queueVars, history, timerOnly
<1>1. ASSUME timer' \in Ticks, slot' \in Slot, status' \in Statuses,
             handoff' \in BOOLEAN, threadActive' \in BOOLEAN,
             latest' \in [role : {"none", "customer", "assistant"}, at : Nat],
             faults' = faults \/ Fault,
             silentSince' \in Nat, warned' \subseteq Texts, told' \subseteq Texts, repeats' \in Nat,
             sentAt' \in [Texts -> Nat], seen' \subseteq Messages,
             UNCHANGED <<takenOver, written, visible, processed, replies, work, gateway, clock>>
      PROVE  TypeOK'
  <2>1. faults' \in 0 .. MaxFaults
    BY <1>1, ConstantsAssumption DEF Fault, TypeOK
  <2>. QED  BY <1>1, <2>1 DEF TypeOK, Ticks
<1>2. NoTimer \in Ticks
  BY SlotsTyped DEF NoTimer, Ticks, TimerStates, Statuses, Texts, Never
<1>3. timer \in Ticks
  BY DEF TypeOK, Ticks
<1>4. \A state \in TimerStates : [timer EXCEPT !.pc = state] \in Ticks
  BY <1>3 DEF Ticks
<1>5. /\ slot \in Slot /\ status \in Statuses /\ handoff \in BOOLEAN /\ threadActive \in BOOLEAN
      /\ latest \in [role : {"none", "customer", "assistant"}, at : Nat]
      /\ silentSince \in Nat /\ warned \subseteq Texts /\ told \subseteq Texts /\ repeats \in Nat
      /\ sentAt \in [Texts -> Nat] /\ seen \subseteq Messages /\ visible \subseteq Messages
      /\ clock \in Nat /\ timer.now \in Nat /\ timer.slot \in Slot /\ timer.cutoff \in Nat
      /\ timer.text \in Texts
  BY DEF TypeOK
<1>6. CASE TimerStart
  BY <1>1, <1>3, <1>5, <1>6 DEF TimerStart, Ticks, TimerStates
<1>7. CASE TimerFetch
  BY <1>1, <1>2, <1>3, <1>5, <1>7 DEF TimerFetch, EndTick, Ticks, TimerStates
<1>8. CASE TimerExamine
  <2>1. timer' \in Ticks
    BY <1>2, <1>3, <1>5, <1>8 DEF TimerExamine, EndTick, Ticks, TimerStates
  <2>2. slot' \in Slot
    BY <1>5, <1>8, SlotsTyped DEF TimerExamine
  <2>. QED  BY <1>1, <1>5, <1>8, <2>1, <2>2 DEF TimerExamine
<1>9. CASE TimerCheckFollowup
  <2>1. PICK local \in {timer.slot, ClearIdle(timer.slot)} :
            /\ timer' = [timer EXCEPT !.pc = "checked", !.slot = local,
                                      !.cutoff = CycleCutoff(local, timer.cutoff)]
            /\ slot' \in {slot, local} /\ silentSince' \in {silentSince, timer.cutoff}
    BY <1>9, FollowupMoves
  <2>2. local \in Slot
    BY <1>5, <2>1, SlotsTyped
  <2>3. CycleCutoff(local, timer.cutoff) \in Nat
    BY <1>5, <2>2 DEF CycleCutoff, Slot
  <2>4. timer' \in Ticks
    BY <1>3, <2>1, <2>2, <2>3 DEF Ticks, TimerStates
  <2>. QED  BY <1>1, <1>5, <1>9, <2>1, <2>2, <2>4 DEF TimerCheckFollowup
<1>10. CASE TimerDecide
  <2>1. timer' \in Ticks
    <3>1. [timer.slot EXCEPT !.base = timer.cutoff] \in Slot
      BY <1>5, SlotsTyped
    <3>2. \/ timer' = NoTimer
          \/ timer' = [timer EXCEPT !.pc = "closing"]
          \/ timer' = [timer EXCEPT !.pc = "mark_closed"]
          \/ timer' = [timer EXCEPT !.pc = "sending", !.text = "close"]
          \/ timer' = [timer EXCEPT !.pc = "sending", !.text = "followup",
                                    !.slot = [timer.slot EXCEPT !.base = timer.cutoff]]
      BY <1>10 DEF TimerDecide, EndTick, Goto
    <3>. QED  BY <1>2, <1>3, <3>1, <3>2 DEF Ticks, TimerStates, Texts
  <2>. QED  BY <1>1, <1>5, <1>10, <2>1 DEF TimerDecide
<1>11. CASE TimerFinalize
  BY <1>1, <1>2, <1>4, <1>5, <1>11 DEF TimerFinalize, EndTick, Goto, TimerStates
<1>12. CASE TimerRequestHandoff
  <2>1. status' \in Statuses /\ slot' \in Slot /\ handoff' \in BOOLEAN
    BY <1>5, <1>12, SlotsTyped DEF TimerRequestHandoff, Statuses
  <2>. QED
    BY <1>1, <1>2, <1>4, <1>5, <1>12, <2>1 DEF TimerRequestHandoff, EndTick, Goto, TimerStates
<1>13. CASE TimerNotice
  BY <1>1, <1>2, <1>5, <1>13 DEF TimerNotice, EndTick
<1>14. CASE TimerSend
  BY <1>1, <1>4, <1>5, <1>14 DEF TimerSend, Goto, TimerStates
<1>15. CASE TimerSendFails
  BY <1>1, <1>4, <1>5, <1>15 DEF TimerSendFails, Goto, TimerStates
<1>16. CASE TimerInsertMessage
  <2>1. latest' \in [role : {"none", "customer", "assistant"}, at : Nat]
    BY <1>5, <1>16 DEF TimerInsertMessage, InsertMessage
  <2>. QED  BY <1>1, <1>4, <1>5, <1>16, <2>1 DEF TimerInsertMessage, Goto, TimerStates
<1>17. CASE TimerSaveSlot
  <2>. DEFINE local == SentSlot(timer.slot, timer.text, timer.now)
  <2>1. local \in Slot
    BY <1>5, SlotsTyped
  <2>2. slot' = local /\ (timer' = NoTimer \/ timer' = [timer EXCEPT !.pc = "closing", !.slot = local])
    BY <1>17 DEF TimerSaveSlot
  <2>. HIDE DEF local
  <2>3. timer' \in Ticks
    BY <1>2, <1>3, <2>1, <2>2 DEF Ticks, TimerStates
  <2>. QED  BY <1>1, <1>5, <1>17, <2>1, <2>2, <2>3 DEF TimerSaveSlot
<1>18. CASE TimerRecordFailure
  BY <1>1, <1>2, <1>5, <1>18 DEF TimerRecordFailure, EndTick
<1>19. CASE TimerFinalCheck
  BY <1>1, <1>2, <1>4, <1>5, <1>19 DEF TimerFinalCheck, EndTick, Goto, TimerStates
<1>20. CASE TimerDeactivate
  BY <1>1, <1>4, <1>5, <1>20 DEF TimerDeactivate, Goto, TimerStates
<1>21. CASE TimerDeactivateFails
  BY <1>1, <1>4, <1>5, <1>21 DEF TimerDeactivateFails, Goto, TimerStates
<1>22. CASE TimerMarkClosed
  <2>1. slot' \in Slot /\ status' \in Statuses
    BY <1>5, <1>22, SlotsTyped DEF TimerMarkClosed, Statuses
  <2>. QED  BY <1>1, <1>2, <1>5, <1>22, <2>1 DEF TimerMarkClosed, EndTick
<1>23. CASE TimerCrash
  BY <1>1, <1>2, <1>5, <1>23 DEF TimerCrash, EndTick
<1>. QED
  BY <1>6, <1>7, <1>8, <1>9, <1>10, <1>11, <1>12, <1>13, <1>14, <1>15, <1>16, <1>17, <1>18,
     <1>19, <1>20, <1>21, <1>22, <1>23 DEF TimerStep

-----------------------------------------------------------------------------
(* Times, slot memories and ticks *)

Basics == TypeOK /\ GatewayHasEvent /\ TimesInOrder /\ SlotsInOrder /\ TickInOrder

\* What a slot memory knows of its times.
LEMMA SlotFields ==
    ASSUME NEW s \in Slot
    PROVE  /\ s.followup \in Nat /\ s.base \in Nat /\ s.close \in BOOLEAN
           /\ ClearIdle(s).followup = Never /\ ~ClearIdle(s).close /\ ClearIdle(s).base = Never
           /\ NoSlot.followup = Never /\ ~NoSlot.close /\ NoSlot.base = Never
           /\ SlotInOrder(NoSlot) /\ SlotInOrder(ClearIdle(s))
BY DEF Slot, ClearIdle, NoSlot, SlotInOrder, Never

\* An inserted message becomes the latest one, or an older one stays it.
LEMMA InsertMoves ==
    ASSUME NEW role, NEW at \in Nat, TypeOK, InsertMessage(role, at)
    PROVE  \/ at >= latest.at /\ latest' = [role |-> role, at |-> at]
           \/ at < latest.at /\ latest' = latest
BY DEF InsertMessage, TypeOK

\* The customer, the gateway and the others keep times and slot memories in order.
LEMMA BasicsWorld ==
    ASSUME Basics, CustomerWrites \/ EventStored \/ GatewayLoad \/ GatewayCommit \/ SenderStep
                   \/ WorkDone \/ HandoffDone \/ AgentReply \/ ThreadEnds
    PROVE  Basics'
<1>. USE DEF convVars, customerVars, queueVars, history
<1>1. TypeOK'
  BY TypesWorld DEF Basics
<1>2. timer' = timer
  BY DEF CustomerWrites, EventStored, GatewayLoad, GatewayCommit, SenderStep, WorkDone,
         HandoffDone, AgentReply, ThreadEnds
<1>3. TickInOrder' /\ SlotInOrder(timer.slot)' /\ (InTick' <=> InTick)
  BY <1>2 DEF Basics, TickInOrder, SlotsInOrder, SlotInOrder, InTick
<1>4. /\ clock \in Nat /\ latest.at \in Nat /\ timer.now \in Nat
      /\ latest.at <= clock /\ timer.now <= clock
  BY DEF Basics, TypeOK, TimesInOrder
<1>5. CASE CustomerWrites
  <2>1. /\ clock' = clock + 1 /\ UNCHANGED <<latest, visible, slot, gateway, processed>>
        /\ \E m \in Messages : written' = [written EXCEPT ![m] = clock + 1]
    BY <1>5 DEF CustomerWrites
  <2>2. \A m \in visible : written'[m] # Never
    BY <1>4, <2>1 DEF Basics, TypeOK, TimesInOrder, Never
  <2>3. TimesInOrder'
    BY <1>2, <1>3, <1>4, <2>1, <2>2 DEF Basics, TimesInOrder
  <2>. QED  BY <1>1, <1>3, <2>1, <2>3 DEF Basics, SlotsInOrder, SlotInOrder, GatewayHasEvent
<1>6. CASE EventStored
  <2>1. /\ UNCHANGED <<clock, latest, written, slot, gateway, processed>>
        /\ \E m \in Messages : written[m] # Never /\ visible' = visible \cup {m}
    BY <1>6 DEF EventStored
  <2>2. TimesInOrder'
    BY <1>2, <1>3, <2>1 DEF Basics, TimesInOrder
  <2>. QED  BY <1>1, <1>3, <2>1, <2>2 DEF Basics, SlotsInOrder, SlotInOrder, GatewayHasEvent
<1>7. CASE GatewayCommit
  <2>1. /\ clock' = clock + 1 /\ UNCHANGED <<visible, written>> /\ gateway' = NoGateway
        /\ InsertMessage("customer", clock + 1) /\ slot' \in {slot, gateway.slot}
    BY <1>7 DEF GatewayCommit
  <2>2. latest' = [role |-> "customer", at |-> clock + 1]
    BY <1>4, <2>1, InsertMoves DEF Basics
  <2>3. TimesInOrder'
    BY <1>2, <1>3, <1>4, <2>1, <2>2 DEF Basics, TimesInOrder
  <2>4. gateway'.pc = "idle" /\ gateway'.slot = NoSlot
    BY <2>1 DEF NoGateway
  <2>5. SlotInOrder(slot') /\ SlotInOrder(gateway'.slot)
    BY <2>1, <2>4, SlotFields, SlotsTyped DEF Basics, SlotsInOrder
  <2>. QED  BY <1>1, <1>3, <2>3, <2>4, <2>5 DEF Basics, SlotsInOrder, SlotInOrder, GatewayHasEvent
<1>8. CASE SenderStep
  <2>1. /\ UNCHANGED <<visible, written, slot, gateway, processed>>
        /\ \/ clock' = clock + 1 /\ InsertMessage("assistant", clock + 1)
           \/ UNCHANGED <<latest, clock>>
    BY <1>8 DEF SenderStep
  <2>2. \/ clock' = clock + 1 /\ latest' = [role |-> "assistant", at |-> clock + 1]
        \/ UNCHANGED <<latest, clock>>
    BY <1>4, <2>1, InsertMoves DEF Basics
  <2>3. TimesInOrder'
    BY <1>2, <1>3, <1>4, <2>1, <2>2 DEF Basics, TimesInOrder, Never
  <2>. QED  BY <1>1, <1>3, <2>1, <2>3 DEF Basics, SlotsInOrder, SlotInOrder, GatewayHasEvent
<1>9. CASE GatewayLoad
  <2>1. /\ UNCHANGED <<visible, written, slot, latest, clock, processed>>
        /\ processed + 1 \in visible /\ gateway'.slot = slot
    BY <1>9 DEF GatewayLoad
  <2>2. TimesInOrder'
    BY <1>2, <1>3, <2>1 DEF Basics, TimesInOrder
  <2>. QED  BY <1>1, <1>3, <2>1, <2>2 DEF Basics, SlotsInOrder, SlotInOrder, GatewayHasEvent
<1>10. CASE WorkDone \/ HandoffDone \/ AgentReply \/ ThreadEnds
  <2>1. /\ UNCHANGED <<visible, written, latest, clock, processed, gateway>>
        /\ slot' \in {slot, NoSlot}
    BY <1>10 DEF WorkDone, HandoffDone, AgentReply, ThreadEnds
  <2>2. TimesInOrder'
    BY <1>2, <1>3, <2>1 DEF Basics, TimesInOrder
  <2>3. SlotInOrder(slot')
    BY <2>1, SlotFields, SlotsTyped DEF Basics, SlotsInOrder
  <2>. QED  BY <1>1, <1>3, <2>1, <2>2, <2>3 DEF Basics, SlotsInOrder, SlotInOrder, GatewayHasEvent
<1>. QED  BY <1>5, <1>6, <1>7, <1>8, <1>9, <1>10

\* The timer changes nothing of the customer and the gateway, and inserts one message.
LEMMA TimerFrame ==
    ASSUME TimerStep
    PROVE  /\ UNCHANGED <<written, visible, processed, gateway, clock, takenOver>>
           /\ TimerInsertMessage \/ latest' = latest
BY DEF TimerStep, TimerStart, TimerFetch, TimerExamine, TimerCheckFollowup, TimerDecide,
       TimerFinalize, TimerRequestHandoff, TimerNotice, TimerSend, TimerSendFails,
       TimerInsertMessage, TimerSaveSlot, TimerRecordFailure, TimerFinalCheck, TimerDeactivate,
       TimerDeactivateFails, TimerMarkClosed, TimerCrash, timerOnly, convVars, customerVars,
       queueVars, history

\* A tick that ends keeps times and slot memories in order.
LEMMA BasicsEnd ==
    ASSUME Basics, TimerStep, timer' = NoTimer, SlotInOrder(slot'), latest' = latest
    PROVE  Basics'
<1>1. UNCHANGED <<written, visible, processed, gateway, clock>>
  BY TimerFrame
<1>2. /\ timer'.pc = "idle" /\ timer'.now = 0 /\ timer'.slot = NoSlot
  BY DEF NoTimer
<1>3. TypeOK'
  BY TypesTimer DEF Basics
<1>4. clock \in Nat
  BY DEF Basics, TypeOK
<1>5. TimesInOrder'
  BY <1>1, <1>2, <1>4 DEF Basics, TimesInOrder, InTick
<1>6. SlotInOrder(timer.slot)'
  BY <1>2, SlotFields, SlotsTyped DEF SlotInOrder
<1>7. TickInOrder'
  BY <1>2 DEF TickInOrder, Late, Composing
<1>. QED
  BY <1>1, <1>3, <1>5, <1>6, <1>7 DEF Basics, GatewayHasEvent, SlotsInOrder, SlotInOrder

\* A tick that goes on keeps times and slot memories in order.
LEMMA BasicsGoOn ==
    ASSUME Basics, TimerStep, SlotInOrder(slot'), SlotInOrder(timer'.slot), latest' = latest,
           timer'.now = timer.now, InTick, TickInOrder'
    PROVE  Basics'
<1>1. UNCHANGED <<written, visible, processed, gateway, clock>>
  BY TimerFrame
<1>2. TypeOK'
  BY TypesTimer DEF Basics
<1>3. TimesInOrder'
  BY <1>1 DEF Basics, TimesInOrder
<1>. QED  BY <1>1, <1>2, <1>3 DEF Basics, GatewayHasEvent, SlotsInOrder, SlotInOrder

\* Only the point of the tick changes.
LEMMA BasicsGoto ==
    ASSUME Basics, TimerStep, NEW state \in TimerStates, Goto(state), SlotInOrder(slot'),
           latest' = latest, InTick, state \notin {"examined", "checked"},
           state \in Composing => timer.pc \in Composing,
           state \in Late => timer.pc \in Late
    PROVE  Basics'
<1>1. /\ timer'.pc = state /\ timer'.now = timer.now /\ timer'.slot = timer.slot
      /\ timer'.cutoff = timer.cutoff /\ timer'.text = timer.text
  BY DEF Goto, Basics, TypeOK
<1>2. TickInOrder'
  BY <1>1 DEF Basics, TickInOrder
<1>. QED  BY <1>1, <1>2, BasicsGoOn DEF Basics, SlotsInOrder

\* The ticks of the timer keep times and slot memories in order.
LEMMA BasicsTimer ==
    ASSUME Basics, TimerStep
    PROVE  Basics'
<1>1. /\ SlotInOrder(slot) /\ SlotInOrder(gateway.slot) /\ SlotInOrder(timer.slot)
      /\ slot \in Slot /\ timer.slot \in Slot /\ timer \in Ticks
      /\ timer.now \in Nat /\ timer.cutoff \in Nat /\ latest.at \in Nat /\ clock \in Nat
      /\ timer.text \in Texts /\ TickInOrder
  BY DEF Basics, SlotsInOrder, TypeOK, Ticks
<1>2. UNCHANGED <<written, visible, processed, gateway, clock>>
  BY TimerFrame
<1>3. TypeOK'
  BY TypesTimer DEF Basics
<1>4. CASE TimerStart
  <2>1. /\ timer'.pc = "started" /\ timer'.now = clock /\ timer'.slot = timer.slot
        /\ latest' = latest /\ slot' = slot
    BY <1>1, <1>4 DEF TimerStart, Ticks, timerOnly, convVars
  <2>2. TimesInOrder'
    BY <1>1, <1>2, <2>1 DEF Basics, TimesInOrder, InTick
  <2>3. TickInOrder'
    BY <2>1 DEF TickInOrder, Late, Composing
  <2>. QED
    BY <1>2, <1>3, <2>1, <2>2, <2>3 DEF Basics, GatewayHasEvent, SlotsInOrder, SlotInOrder
<1>5. CASE TimerFetch
  <2>1. latest' = latest /\ slot' = slot
    BY <1>5 DEF TimerFetch, timerOnly, convVars
  <2>2. CASE ~Candidate
    BY <1>1, <1>5, <2>1, <2>2, BasicsEnd DEF TimerFetch, EndTick
  <2>3. CASE Candidate
    <3>1. /\ timer'.pc = "fetched" /\ timer'.now = timer.now /\ timer'.slot = slot
      BY <1>1, <1>5, <2>3 DEF TimerFetch, Ticks
    <3>2. TimesInOrder'
      BY <1>2, <2>1, <2>3, <3>1 DEF Basics, TimesInOrder, InTick, Candidate
    <3>3. TickInOrder'
      BY <3>1 DEF TickInOrder, Late, Composing
    <3>. QED
      BY <1>2, <1>3, <2>1, <3>1, <3>2, <3>3
         DEF Basics, GatewayHasEvent, SlotsInOrder, SlotInOrder
  <2>. QED  BY <2>2, <2>3
<1>6. CASE TimerExamine
  <2>1. latest' = latest /\ timer.pc = "fetched" /\ InTick
    BY <1>6 DEF TimerExamine, InTick
  <2>2. SlotInOrder(slot')
    BY <1>1, <1>6, SlotFields DEF TimerExamine
  <2>3. CASE timer' = NoTimer
    BY <2>1, <2>2, <2>3, BasicsEnd
  <2>4. CASE latest.role = "assistant" /\ timer' = [timer EXCEPT !.pc = "examined", !.cutoff = latest.at]
    <3>1. /\ timer'.pc = "examined" /\ timer'.now = timer.now /\ timer'.slot = timer.slot
          /\ timer'.cutoff = latest.at
      BY <1>1, <2>4 DEF Ticks
    <3>2. TickInOrder'
      BY <2>4, <3>1 DEF TickInOrder, Late, Composing, Basics, TimesInOrder
    <3>. QED  BY <1>1, <2>1, <2>2, <3>1, <3>2, BasicsGoOn
  <2>. QED  BY <1>6, <2>3, <2>4 DEF TimerExamine, EndTick
<1>7. CASE TimerCheckFollowup
  <2>1. latest' = latest /\ timer.pc = "examined" /\ InTick
    BY <1>7 DEF TimerCheckFollowup, InTick
  <2>2. PICK local \in {timer.slot, ClearIdle(timer.slot)} :
            /\ timer' = [timer EXCEPT !.pc = "checked", !.slot = local,
                                      !.cutoff = CycleCutoff(local, timer.cutoff)]
            /\ slot' \in {slot, local}
            /\ local = timer.slot \/ timer.slot.followup # Never
    BY <1>7, FollowupMoves DEF Restarts
  <2>3. SlotInOrder(local) /\ SlotInOrder(slot') /\ local \in Slot
    BY <1>1, <2>2, SlotFields, SlotsTyped
  <2>4. /\ timer'.pc = "checked" /\ timer'.now = timer.now /\ timer'.slot = local
        /\ timer'.cutoff = CycleCutoff(local, timer.cutoff)
    BY <1>1, <2>2 DEF Ticks
  <2>5. local.followup # Never => timer'.cutoff = local.base
    BY <2>4 DEF CycleCutoff
  <2>6. local.followup = Never => timer'.cutoff # Never
    BY <1>1, <2>1, <2>3, <2>4 DEF CycleCutoff, TickInOrder, SlotInOrder
  <2>7. TickInOrder'
    BY <2>4, <2>5, <2>6 DEF TickInOrder, Late, Composing
  <2>. QED  BY <2>1, <2>3, <2>4, <2>7, BasicsGoOn
<1>8. CASE TimerDecide
  <2>1. latest' = latest /\ slot' = slot /\ timer.pc = "checked" /\ InTick /\ timer.pc \in Late
    BY <1>8 DEF TimerDecide, timerOnly, convVars, InTick, Late, TimerStates
  <2>2. CASE timer' = NoTimer
    BY <1>1, <2>1, <2>2, BasicsEnd
  <2>3. ASSUME NEW state \in {"closing", "mark_closed"}, Goto(state) PROVE Basics'
    BY <1>1, <2>1, <2>3, BasicsGoto DEF Composing, TimerStates
  <2>4. CASE /\ timer' = [timer EXCEPT !.pc = "sending", !.text = "close"]
             /\ ~timer.slot.close /\ timer.slot.followup # Never
    <3>1. /\ timer'.pc = "sending" /\ timer'.now = timer.now /\ timer'.slot = timer.slot
          /\ timer'.cutoff = timer.cutoff /\ timer'.text = "close"
      BY <1>1, <2>4 DEF Ticks
    <3>2. TickInOrder'
      BY <1>1, <2>1, <2>4, <3>1 DEF TickInOrder
    <3>. QED  BY <1>1, <2>1, <3>1, <3>2, BasicsGoOn
  <2>5. CASE /\ timer' = [timer EXCEPT !.pc = "sending", !.text = "followup", !.slot.base = timer.cutoff]
             /\ ~timer.slot.close /\ timer.slot.followup = Never /\ timer.now >= timer.cutoff
    <3>1. /\ timer'.pc = "sending" /\ timer'.now = timer.now
          /\ timer'.slot = [timer.slot EXCEPT !.base = timer.cutoff]
          /\ timer'.cutoff = timer.cutoff /\ timer'.text = "followup"
      BY <1>1, <2>5 DEF Ticks
    <3>2. /\ timer'.slot.base = timer.cutoff /\ timer'.slot.followup = Never /\ ~timer'.slot.close
      BY <1>1, <2>5, <3>1 DEF Slot
    <3>3. timer.cutoff # Never
      BY <1>1, <2>1, <2>5 DEF TickInOrder
    <3>4. TickInOrder'
      BY <1>1, <2>5, <3>1, <3>2, <3>3 DEF TickInOrder
    <3>5. SlotInOrder(timer'.slot)
      BY <3>2 DEF SlotInOrder
    <3>. QED  BY <1>1, <2>1, <3>1, <3>4, <3>5, BasicsGoOn
  <2>. QED  BY <1>8, <2>2, <2>3, <2>4, <2>5 DEF TimerDecide, EndTick
<1>9. CASE TimerFinalize
  <2>1. latest' = latest /\ slot' = slot /\ timer.pc = "sending" /\ InTick
    BY <1>9 DEF TimerFinalize, timerOnly, convVars, InTick
  <2>2. timer' = NoTimer \/ Goto("sent") \/ Goto("handing_off")
    BY <1>9 DEF TimerFinalize, EndTick
  <2>3. {"sent", "handing_off"} \subseteq TimerStates \ {"examined", "checked"}
        /\ timer.pc \in Composing /\ timer.pc \in Late
    BY <2>1 DEF TimerStates, Composing, Late
  <2>. QED  BY <1>1, <2>1, <2>2, <2>3, BasicsEnd, BasicsGoto
<1>10. CASE TimerRequestHandoff
  <2>1. latest' = latest /\ timer.pc = "handing_off" /\ InTick
    BY <1>10 DEF TimerRequestHandoff, InTick
  <2>2. SlotInOrder(slot')
    BY <1>1, <1>10 DEF TimerRequestHandoff, SlotInOrder, Slot
  <2>3. timer' = NoTimer \/ Goto("notice")
    BY <1>10 DEF TimerRequestHandoff, EndTick
  <2>4. "notice" \in TimerStates \ {"examined", "checked"} /\ "notice" \notin Composing
        /\ timer.pc \in Late
    BY <2>1 DEF TimerStates, Composing, Late
  <2>. QED  BY <1>1, <2>1, <2>2, <2>3, <2>4, BasicsEnd, BasicsGoto
<1>11. CASE TimerNotice \/ TimerCrash
  <2>1. latest' = latest /\ slot' = slot /\ timer' = NoTimer
    BY <1>11 DEF TimerNotice, TimerCrash, EndTick, timerOnly, convVars
  <2>. QED  BY <1>1, <2>1, BasicsEnd
<1>12. CASE TimerSend
  <2>1. latest' = latest /\ slot' = slot /\ timer.pc = "sent" /\ InTick /\ Goto("saving")
    BY <1>12 DEF TimerSend, convVars, InTick
  <2>2. "saving" \in TimerStates \ {"examined", "checked"}
        /\ timer.pc \in Composing /\ timer.pc \in Late
    BY <2>1 DEF TimerStates, Composing, Late
  <2>. QED  BY <1>1, <2>1, <2>2, BasicsGoto
<1>13. CASE TimerSendFails \/ TimerDeactivateFails \/ TimerDeactivate \/ TimerFinalCheck
  <2>1. /\ latest' = latest /\ slot' = slot /\ timer.pc \in {"sent", "deactivating", "closing"}
        /\ \/ timer' = NoTimer
           \/ \E state \in {"mark_closed", "record_failure", "deactivating"} : Goto(state)
    BY <1>13 DEF TimerSendFails, TimerDeactivateFails, TimerDeactivate, TimerFinalCheck, EndTick,
                 timerOnly, convVars
  <2>2. /\ {"mark_closed", "record_failure", "deactivating"} \subseteq TimerStates \ {"examined", "checked"}
        /\ {"mark_closed", "record_failure", "deactivating"} \cap Composing = {}
        /\ timer.pc \in Late /\ InTick
    BY <2>1 DEF TimerStates, Composing, Late, InTick
  <2>. QED  BY <1>1, <2>1, <2>2, BasicsEnd, BasicsGoto
<1>14. CASE TimerInsertMessage
  <2>1. /\ timer.pc = "saving" /\ Goto("inserted") /\ InsertMessage("assistant", timer.now)
        /\ slot' = slot /\ InTick
    BY <1>14 DEF TimerInsertMessage, InTick
  <2>2. /\ timer'.pc = "inserted" /\ timer'.now = timer.now /\ timer'.slot = timer.slot
        /\ timer'.cutoff = timer.cutoff /\ timer'.text = timer.text
    BY <1>1, <2>1 DEF Goto, Ticks
  <2>3. TickInOrder'
    BY <1>1, <2>1, <2>2 DEF TickInOrder, Late, Composing, TimerStates
  <2>4. \/ latest' = latest
        \/ latest' = [role |-> "assistant", at |-> timer.now] /\ timer.now >= latest.at
    BY <1>1, <2>1, InsertMoves DEF Basics
  <2>5. TimesInOrder'
    <3>1. CASE latest' = latest
      BY <1>2, <2>1, <2>2, <3>1 DEF Basics, TimesInOrder
    <3>2. CASE latest' = [role |-> "assistant", at |-> timer.now] /\ timer.now >= latest.at
      <4>1. latest.role = "assistant" /\ latest.at # Never
        BY <1>1, <2>1, <3>2 DEF Basics, TimesInOrder
      <4>2. timer.now # Never
        BY <1>1, <3>2, <4>1 DEF Never
      <4>. QED  BY <1>2, <2>1, <2>2, <3>2, <4>2 DEF Basics, TimesInOrder
    <3>. QED  BY <2>4, <3>1, <3>2
  <2>. QED
    BY <1>1, <1>2, <1>3, <2>1, <2>2, <2>3, <2>5
       DEF Basics, GatewayHasEvent, SlotsInOrder, SlotInOrder
<1>15. CASE TimerSaveSlot
  <2>. DEFINE local == SentSlot(timer.slot, timer.text, timer.now)
  <2>1. /\ latest' = latest /\ timer.pc = "inserted" /\ InTick /\ slot' = local
        /\ timer' = IF timer.text = "followup" THEN NoTimer
                    ELSE [timer EXCEPT !.pc = "closing", !.slot = local]
    BY <1>15 DEF TimerSaveSlot, InTick
  <2>2. /\ local.base = timer.slot.base
        /\ local.followup = IF timer.text = "followup" THEN timer.now ELSE timer.slot.followup
        /\ local.close <=> timer.text # "followup" \/ timer.slot.close
    BY <1>1 DEF SentSlot, Slot
  <2>3. SlotInOrder(local)
    <3>1. CASE timer.text = "followup"
      BY <1>1, <2>1, <2>2, <3>1 DEF SlotInOrder, TickInOrder, Composing
    <3>2. CASE timer.text = "close"
      BY <1>1, <2>1, <2>2, <3>2 DEF SlotInOrder, TickInOrder, Composing
    <3>. QED  BY <1>1, <3>1, <3>2 DEF Texts
  <2>. HIDE DEF local
  <2>4. CASE timer.text = "followup"
    BY <2>1, <2>3, <2>4, BasicsEnd
  <2>5. CASE timer.text # "followup"
    <3>1. /\ timer'.pc = "closing" /\ timer'.now = timer.now /\ timer'.slot = local
          /\ timer'.cutoff = timer.cutoff
      BY <1>1, <2>1, <2>5 DEF Ticks
    <3>2. TickInOrder'
      BY <1>1, <2>1, <2>2, <2>5, <3>1 DEF TickInOrder, Late, Composing, TimerStates, Texts
    <3>. QED  BY <2>1, <2>3, <3>1, <3>2, BasicsGoOn
  <2>. QED  BY <2>4, <2>5
<1>16. CASE TimerRecordFailure \/ TimerMarkClosed
  <2>1. timer' = NoTimer /\ latest' = latest
    BY <1>16 DEF TimerRecordFailure, TimerMarkClosed, EndTick
  <2>2. SlotInOrder(slot')
    BY <1>1, <1>16 DEF TimerRecordFailure, TimerMarkClosed, SlotInOrder, Slot
  <2>. QED  BY <2>1, <2>2, BasicsEnd
<1>. QED
  BY <1>4, <1>5, <1>6, <1>7, <1>8, <1>9, <1>10, <1>11, <1>12, <1>13, <1>14, <1>15, <1>16
     DEF TimerStep

-----------------------------------------------------------------------------
(* Repetitions are paid for *)

\* Sets of texts and of messages are finite.
LEMMA Finite ==
    ASSUME TypeOK
    PROVE  /\ IsFiniteSet(visible) /\ Cardinality(visible) \in Nat
           /\ \A owed \in SUBSET Texts : IsFiniteSet(owed) /\ Cardinality(owed) \in Nat
           /\ repeats \in Nat /\ faults \in Nat
<1>1. IsFiniteSet(Messages)
  BY ConstantsAssumption, FS_Interval DEF Messages
<1>2. IsFiniteSet(visible)
  BY <1>1, FS_Subset DEF TypeOK
<1>3. IsFiniteSet(Texts)
  <2>1. IsFiniteSet({"followup"} \cup {"close"})
    BY FS_Singleton, FS_AddElement
  <2>. QED  BY <2>1, Texts = {"followup"} \cup {"close"} DEF Texts
<1>4. \A owed \in SUBSET Texts : IsFiniteSet(owed)
  BY <1>3, FS_Subset
<1>. QED  BY <1>2, <1>4, FS_CardinalityType, ConstantsAssumption DEF TypeOK

\* Who pays for some texts pays for fewer of them, and more easily in advance.
LEMMA PaidForLess ==
    ASSUME TypeOK, NEW more \in SUBSET Texts, NEW owed \in SUBSET more, NEW advance \in Nat,
           NEW later \in Nat, advance <= later, Paid(more, advance)
    PROVE  Paid(owed, later)
<1>1. Cardinality(owed) <= Cardinality(more)
  BY Finite, FS_Subset
<1>2. owed \in SUBSET Texts
  OBVIOUS
<1>. DEFINE o == Cardinality(owed)  m == Cardinality(more)  v == Cardinality(visible)
<1>3. o \in Nat /\ m \in Nat /\ v \in Nat /\ repeats \in Nat /\ faults \in Nat /\ o <= m
  BY <1>1, <1>2, Finite
<1>4. repeats + m <= faults + v + advance
  BY DEF Paid
<1>. HIDE DEF o, m, v
<1>5. repeats + o <= faults + v + later
  BY <1>3, <1>4
<1>. QED  BY <1>5 DEF Paid, o, v

\* Without a new message or repetition what was paid stays paid, and a fault
\* pays for what was advanced.
LEMMA PaidStays ==
    ASSUME TypeOK, NEW owed \in SUBSET Texts, NEW advance \in Nat, Paid(owed, advance),
           UNCHANGED <<repeats, visible>>
    PROVE  /\ faults' = faults \/ faults' = faults + 1 => Paid(owed, advance)'
           /\ faults' = faults + 1 /\ advance = 1 => Paid(owed, 0)'
<1>. DEFINE o == Cardinality(owed)  v == Cardinality(visible)
<1>1. o \in Nat /\ v \in Nat /\ repeats \in Nat /\ faults \in Nat
  BY Finite
<1>2. repeats + o <= faults + v + advance
  BY DEF Paid
<1>3. repeats' = repeats /\ visible' = visible
  OBVIOUS
<1>4. ASSUME NEW k \in Nat PROVE Paid(owed, k)' <=> repeats + o <= faults' + v + k
  BY <1>3 DEF Paid
<1>. HIDE DEF o, v
<1>5. ASSUME faults' = faults \/ faults' = faults + 1 PROVE repeats + o <= faults' + v + advance
  BY <1>1, <1>2, <1>5
<1>6. ASSUME faults' = faults + 1, advance = 1 PROVE repeats + o <= faults' + v + 0
  BY <1>1, <1>2, <1>6
<1>. QED  BY <1>4, <1>5, <1>6

\* One more text may be owed in advance.
LEMMA PaidInAdvance ==
    ASSUME TypeOK, NEW owed \in SUBSET Texts, NEW text \in Texts, Paid(owed, 0)
    PROVE  Paid(owed \cup {text}, 1)
<1>. DEFINE o == Cardinality(owed)  p == Cardinality(owed \cup {text})  v == Cardinality(visible)
<1>1. o \in Nat /\ p \in Nat /\ v \in Nat /\ repeats \in Nat /\ faults \in Nat
  BY Finite
<1>2. p = o \/ p = o + 1
  BY Finite, FS_AddElement
<1>3. repeats + o <= faults + v + 0
  BY DEF Paid
<1>. HIDE DEF o, p, v
<1>4. repeats + p <= faults + v + 1
  BY <1>1, <1>2, <1>3
<1>. QED  BY <1>4 DEF Paid, p, v

\* A repetition of a text that is owed is paid; any other is paid in advance.
LEMMA PaidByRepeating ==
    ASSUME TypeOK, NEW owed \in SUBSET Texts, NEW text, Paid(owed, 0),
           repeats' = repeats + 1, UNCHANGED <<faults, visible>>
    PROVE  /\ text \in owed => Paid(owed \ {text}, 0)'
           /\ Paid(owed, 1)'
<1>. DEFINE o == Cardinality(owed)  p == Cardinality(owed \ {text})  v == Cardinality(visible)
<1>1. o \in Nat /\ p \in Nat /\ v \in Nat /\ repeats \in Nat /\ faults \in Nat
  BY Finite
<1>2. text \in owed => p = o - 1
  BY Finite, FS_RemoveElement
<1>3. repeats + o <= faults + v + 0
  BY DEF Paid
<1>4. /\ Paid(owed \ {text}, 0)' <=> repeats' + p <= faults + v + 0
      /\ Paid(owed, 1)' <=> repeats' + o <= faults + v + 1
  BY DEF Paid
<1>. HIDE DEF o, p, v
<1>5. text \in owed => repeats' + p <= faults + v + 0
  BY <1>1, <1>2, <1>3
<1>6. repeats' + o <= faults + v + 1
  BY <1>1, <1>3
<1>. QED  BY <1>4, <1>5, <1>6

\* A stored message pays for one text.
LEMMA PaidByMessage ==
    ASSUME TypeOK, Paid({}, 0), NEW message \in Messages \ visible, NEW text \in Texts,
           visible' = visible \cup {message}, UNCHANGED <<faults, repeats>>
    PROVE  Paid({text}, 0)' /\ Paid({}, 0)'
<1>. DEFINE v == Cardinality(visible)
<1>1. v \in Nat /\ repeats \in Nat /\ faults \in Nat
  BY Finite
<1>2. Cardinality(visible') = v + 1
  BY Finite, FS_AddElement
<1>3. Cardinality({}) = 0 /\ Cardinality({text}) = 1
  BY FS_EmptySet, FS_Singleton
<1>4. repeats + 0 <= faults + v + 0
  BY <1>3 DEF Paid
<1>5. /\ Paid({text}, 0)' <=> repeats + 1 <= faults + (v + 1) + 0
      /\ Paid({}, 0)' <=> repeats + 0 <= faults + (v + 1) + 0
  BY <1>2, <1>3 DEF Paid
<1>. HIDE DEF v
<1>. QED  BY <1>1, <1>4, <1>5

\* With nothing owed the repetitions made are paid for.
LEMMA NothingOwed ==
    ASSUME TypeOK
    PROVE  (NoRepeatedText <=> Paid({}, 0)) /\ (Paid({}, 0) => Paid({}, 1))
<1>. DEFINE v == Cardinality(visible)
<1>1. v \in Nat /\ repeats \in Nat /\ faults \in Nat
  BY Finite
<1>2. Paid({}, 0) <=> repeats + 0 <= faults + v + 0
  BY FS_EmptySet DEF Paid
<1>3. NoRepeatedText <=> repeats <= faults + v
  BY DEF NoRepeatedText
<1>4. Paid({}, 0) => Paid({}, 1)
  BY PaidForLess
<1>. HIDE DEF v
<1>. QED  BY <1>1, <1>2, <1>3, <1>4

\* What is forgotten depends on the texts sent, on those the slot memory tells
\* of and on the customer's activity.
LEMMA ForgottenAlike ==
    ASSUME TypeOK, told' = told, NEW r \in Slot, NEW s \in Slot, Alike(r, s),
           \A c \in Nat : ActivityAfter(c)' <=> ActivityAfter(c)
    PROVE  Forgotten(r)' = Forgotten(s) /\ Forgotten(s) \in SUBSET told /\ told \in SUBSET Texts
<1>1. r.followup \in Nat /\ r.followup = s.followup /\ r.close = s.close
  BY DEF Slot, Alike
<1>2. ActivityAfter(r.followup)' <=> ActivityAfter(s.followup)
  BY <1>1
<1>3. Restarts(r)' <=> Restarts(s)
  BY <1>1, <1>2 DEF Restarts
<1>4. \A t : Knows(r, t) <=> Knows(s, t)
  BY <1>1 DEF Knows
<1>5. Forgotten(r)' = {t \in told : ~Knows(r, t) \/ Restarts(r)'}
  BY DEF Forgotten, Knows
<1>. QED  BY <1>3, <1>4, <1>5 DEF Forgotten, TypeOK

\* The slot memories are typed.
LEMMA MemoriesTyped ==
    ASSUME TypeOK
    PROVE  slot \in Slot /\ gateway.slot \in Slot /\ timer.slot \in Slot /\ Memory \in Slot
BY SlotsTyped DEF TypeOK, Memory

\* Where nothing is sent and no message comes, a tick goes on with its memory,
\* takes up the one in the table or begins a new cycle, and the table keeps its
\* own, is given that of the tick or begins a new cycle: repetitions stay paid.
LEMMA PaidQuietly ==
    ASSUME TypeOK, TypeOK', RepeatsPaid, UNCHANGED <<told, repeats, visible>>,
           faults' = faults \/ faults' = faults + 1,
           \A c \in Nat : ActivityAfter(c)' <=> ActivityAfter(c),
           InTick' => \/ InTick /\ Alike(Memory', Memory)
                      \/ ~Suspended /\ ~Writing /\ Alike(Memory', slot)
                      \/ Paid(told, 0),
           ~Suspended' => \/ /\ ~Suspended /\ Alike(slot', slot)
                             /\ Writing => Writing' \/ faults' = faults + 1
                          \/ InTick /\ Alike(slot', Memory)
                          \/ Paid(told, 0),
           timer'.pc = "sent" => timer' = timer \/ ~ActivityAfter(timer'.cutoff)
    PROVE  RepeatsPaid'
<1>1. /\ slot \in Slot /\ timer.slot \in Slot /\ Memory \in Slot
      /\ slot' \in Slot /\ Memory' \in Slot
  <2>1. slot \in Slot /\ timer.slot \in Slot /\ Memory \in Slot
    BY MemoriesTyped
  <2>2. (TypeOK => slot \in Slot /\ Memory \in Slot)'
    BY MemoriesTyped, PTL
  <2>. QED  BY <2>1, <2>2
<1>2. PICK q \in Slot : q = Memory'
  BY <1>1
<1>3. PICK p \in Slot : p = slot'
  BY <1>1
<1>4. Forgotten(Memory)' = Forgotten(q)'
  BY <1>2 DEF Forgotten, Knows, Restarts, ActivityAfter
<1>5. Forgotten(slot)' = Forgotten(p)'
  BY <1>3 DEF Forgotten, Knows, Restarts, ActivityAfter
<1>6. ASSUME NEW r \in Slot PROVE Forgotten(r)' = Forgotten(r) /\ Forgotten(r) \in SUBSET told
  BY <1>6, ForgottenAlike DEF Alike
<1>7. told \in SUBSET Texts
  BY DEF TypeOK
<1>8. ASSUME NEW owed \in SUBSET Texts, NEW n \in Nat, Paid(owed, n) PROVE Paid(owed, n)'
  BY <1>8, PaidStays
<1>9. NoRepeatedText'
  <2>1. Paid({}, 0)
    BY NothingOwed DEF RepeatsPaid
  <2>2. Paid({}, 0)'
    BY <1>8, <2>1
  <2>3. (TypeOK => (NoRepeatedText <=> Paid({}, 0)))'
    BY NothingOwed, PTL
  <2>. QED  BY <2>2, <2>3
<1>10. TickPaid'
  <2>. SUFFICES ASSUME InTick' PROVE Paid(Forgotten(Memory), 0)'
    BY DEF TickPaid
  <2>1. PICK owed \in SUBSET Texts : owed = Forgotten(q)
    BY <1>6, <1>7
  <2>2. Paid(owed, 0)
    <3>1. CASE InTick /\ Alike(Memory', Memory)
      <4>1. Forgotten(q)' = Forgotten(Memory)
        BY <1>1, <1>2, <3>1, ForgottenAlike
      <4>. QED  BY <1>6, <2>1, <3>1, <4>1 DEF RepeatsPaid, TickPaid
    <3>2. CASE ~Suspended /\ ~Writing /\ Alike(Memory', slot)
      <4>1. Forgotten(q)' = Forgotten(slot)
        BY <1>1, <1>2, <3>2, ForgottenAlike
      <4>. QED  BY <1>6, <2>1, <3>2, <4>1 DEF RepeatsPaid, TablePaid
    <3>3. CASE Paid(told, 0)
      BY <1>6, <1>7, <2>1, <3>3, PaidForLess
    <3>. QED  BY <3>1, <3>2, <3>3
  <2>3. Paid(owed, 0)'
    BY <1>8, <2>2
  <2>4. Forgotten(Memory)' = owed
    BY <1>4, <1>6, <2>1
  <2>. QED  BY <2>3, <2>4 DEF Paid
<1>11. TablePaid'
  <2>. SUFFICES ASSUME ~Suspended' PROVE Paid(Forgotten(slot), IF Writing THEN 1 ELSE 0)'
    BY DEF TablePaid
  <2>1. PICK owed \in SUBSET Texts : owed = Forgotten(p)
    BY <1>6, <1>7
  <2>2. Forgotten(slot)' = owed
    BY <1>5, <1>6, <2>1
  <2>3. CASE Paid(owed, 0)
    <3>1. Paid(owed, 1) /\ Paid(owed, 0)
      BY <2>3, PaidForLess
    <3>2. Paid(owed, 1)' /\ Paid(owed, 0)'
      BY <1>8, <3>1
    <3>. QED  BY <2>2, <3>2 DEF Paid
  <2>4. CASE Paid(owed, 1) /\ Writing'
    <3>1. Paid(owed, 1)'
      BY <1>8, <2>4
    <3>. QED  BY <2>2, <2>4, <3>1 DEF Paid
  <2>5. CASE Paid(owed, 1) /\ faults' = faults + 1
    <3>1. Paid(owed, 1)' /\ Paid(owed, 0)'
      BY <1>8, <2>5, PaidStays
    <3>. QED  BY <2>2, <3>1 DEF Paid
  <2>6. CASE ~Suspended /\ Alike(slot', slot) /\ (Writing => Writing' \/ faults' = faults + 1)
    <3>1. Forgotten(p)' = Forgotten(slot)
      BY <1>1, <1>3, <2>6, ForgottenAlike
    <3>2. owed = Forgotten(slot)
      BY <1>6, <2>1, <3>1
    <3>. QED  BY <2>3, <2>4, <2>5, <2>6, <3>2 DEF RepeatsPaid, TablePaid
  <2>7. CASE InTick /\ Alike(slot', Memory)
    <3>1. Forgotten(p)' = Forgotten(Memory)
      BY <1>1, <1>3, <2>7, ForgottenAlike
    <3>2. owed = Forgotten(Memory)
      BY <1>6, <2>1, <3>1
    <3>. QED  BY <2>3, <2>7, <3>2 DEF RepeatsPaid, TickPaid
  <2>8. CASE Paid(told, 0)
    <3>1. Paid(owed, 0)
      BY <1>6, <1>7, <2>1, <2>8, PaidForLess
    <3>. QED  BY <2>3, <3>1
  <2>. QED  BY <2>6, <2>7, <2>8
<1>12. LatecomerPaid'
  <2>. SUFFICES ASSUME timer'.pc = "sent", ActivityAfter(timer.cutoff)'
                PROVE  told' = {} /\ Paid({timer.text}, 0)'
    BY DEF LatecomerPaid
  <2>1. PICK c \in Nat : c = timer'.cutoff
    BY DEF TypeOK
  <2>2. ActivityAfter(c)'
    BY <2>1 DEF ActivityAfter
  <2>3. ActivityAfter(c)
    BY <2>2
  <2>4. timer' = timer
    BY <2>1, <2>3
  <2>5. told = {} /\ Paid({timer.text}, 0)
    BY <2>1, <2>3, <2>4 DEF RepeatsPaid, LatecomerPaid
  <2>6. PICK text \in Texts : text = timer.text
    BY DEF TypeOK
  <2>7. Paid({text}, 0)'
    BY <1>8, <2>5, <2>6
  <2>. QED  BY <2>4, <2>5, <2>6, <2>7 DEF Paid
<1>. QED  BY <1>9, <1>10, <1>11, <1>12 DEF RepeatsPaid

\* When somebody else writes to the customer, no text is owed any more.
LEMMA PaidAnew ==
    ASSUME TypeOK, RepeatsPaid, told' = {}, Paid({}, 0)', timer' = timer,
           timer.pc = "sent" /\ ActivityAfter(timer.cutoff)' => Paid({timer.text}, 0)',
           TypeOK'
    PROVE  RepeatsPaid'
<1>1. Forgotten(Memory)' = {} /\ Forgotten(slot)' = {}
  BY DEF Forgotten
<1>2. (TypeOK => (NoRepeatedText <=> Paid({}, 0)))'
  BY NothingOwed, PTL
<1>3. (TypeOK /\ Paid({}, 0) => Paid({}, 1))'
  BY NothingOwed, PTL
<1>4. Paid({}, 0)' /\ Paid({}, 1)'
  BY <1>3
<1>5. TickPaid'
  BY <1>1, <1>4 DEF TickPaid, Paid
<1>6. TablePaid'
  BY <1>1, <1>4 DEF TablePaid, Paid
<1>7. LatecomerPaid'
  BY DEF LatecomerPaid
<1>. QED  BY <1>2, <1>4, <1>5, <1>6, <1>7 DEF RepeatsPaid

\* The customer, the gateway and the others owe no repetition.
LEMMA PaidWorld ==
    ASSUME Basics, Basics', RepeatsPaid,
           CustomerWrites \/ EventStored \/ GatewayLoad \/ GatewayCommit \/ SenderStep
           \/ WorkDone \/ HandoffDone \/ AgentReply \/ ThreadEnds
    PROVE  RepeatsPaid'
<1>. USE DEF convVars, customerVars, queueVars, history
<1>1. TypeOK /\ TypeOK'
  BY DEF Basics
<1>2. timer' = timer /\ UNCHANGED <<repeats, faults>>
  BY DEF CustomerWrites, EventStored, GatewayLoad, GatewayCommit, SenderStep, WorkDone,
         HandoffDone, AgentReply, ThreadEnds
<1>3. Memory' = Memory /\ (InTick' <=> InTick) /\ (Writing' <=> Writing)
  BY <1>2 DEF Memory, InTick, Writing
<1>4. ASSUME UNCHANGED <<told, visible>>, \A m \in visible : written'[m] = written[m],
             ~Suspended' => ~Suspended /\ slot' = slot
      PROVE  RepeatsPaid'
  <2>1. \A c \in Nat : ActivityAfter(c)' <=> ActivityAfter(c)
    BY <1>4 DEF ActivityAfter
  <2>2. Alike(Memory', Memory) /\ (slot' = slot => Alike(slot', slot))
    BY <1>3 DEF Alike
  <2>. QED  BY <1>1, <1>2, <1>3, <1>4, <2>1, <2>2, PaidQuietly
<1>5. Paid({}, 0)
  BY <1>1, NothingOwed DEF RepeatsPaid
<1>6. CASE CustomerWrites
  <2>1. \A m \in visible : written[m] # Never
    BY DEF Basics, TimesInOrder
  <2>2. \A m \in visible : written'[m] = written[m]
    BY <1>1, <1>6, <2>1 DEF CustomerWrites, TypeOK
  <2>3. UNCHANGED <<told, visible, slot, latest, status>>
    BY <1>6 DEF CustomerWrites
  <2>. QED  BY <1>4, <2>2, <2>3 DEF Suspended
<1>7. CASE EventStored
  <2>1. PICK m \in Messages \ visible : visible' = visible \cup {m}
    BY <1>7 DEF EventStored
  <2>2. PICK text \in Texts : text = timer.text
    BY <1>1 DEF TypeOK
  <2>3. Paid({text}, 0)' /\ Paid({}, 0)'
    BY <1>1, <1>2, <1>5, <2>1, PaidByMessage
  <2>4. told' = {}
    BY <1>7 DEF EventStored
  <2>5. Paid({timer.text}, 0)'
    BY <1>2, <2>2, <2>3 DEF Paid
  <2>. QED  BY <1>1, <1>2, <2>3, <2>4, <2>5, PaidAnew
<1>8. CASE SenderStep
  <2>1. UNCHANGED <<visible, written, slot, status>>
    BY <1>8 DEF SenderStep
  <2>2. CASE UNCHANGED <<told, latest>>
    BY <1>4, <2>1, <2>2 DEF Suspended
  <2>3. CASE told' = {}
    <3>1. PICK text \in Texts : text = timer.text
      BY <1>1 DEF TypeOK
    <3>2. Paid({}, 0)'
      BY <1>1, <1>2, <1>5, <2>1, PaidStays
    <3>3. ActivityAfter(timer.cutoff)' <=> ActivityAfter(timer.cutoff)
      BY <1>2, <2>1 DEF ActivityAfter
    <3>4. Paid({timer.text}, 0) => Paid({timer.text}, 0)'
      <4>1. Paid({text}, 0) => Paid({text}, 0)'
        BY <1>1, <1>2, <2>1, <3>1, PaidStays
      <4>. QED  BY <1>2, <3>1, <4>1 DEF Paid
    <3>5. timer.pc = "sent" /\ ActivityAfter(timer.cutoff)' => Paid({timer.text}, 0)'
      BY <3>3, <3>4 DEF RepeatsPaid, LatecomerPaid
    <3>. QED  BY <1>1, <1>2, <2>3, <3>2, <3>5, PaidAnew
  <2>. QED  BY <1>8, <2>2, <2>3 DEF SenderStep
<1>9. CASE GatewayCommit
  <2>1. UNCHANGED <<told, visible, written>> /\ InsertMessage("customer", clock + 1)
    BY <1>9 DEF GatewayCommit
  <2>2. latest' = [role |-> "customer", at |-> clock + 1]
    <3>1. clock + 1 >= latest.at
      BY DEF Basics, TypeOK, TimesInOrder
    <3>. QED  BY <2>1, <3>1 DEF InsertMessage
  <2>3. Suspended'
    BY <2>2 DEF Suspended
  <2>. QED  BY <1>4, <2>1, <2>3
<1>10. CASE WorkDone
  <2>1. /\ UNCHANGED <<told, visible, written, slot, latest>>
        /\ status' = status \/ status \notin Locked
    BY <1>10, Zenon DEF WorkDone
  <2>. QED  BY <1>4, <2>1 DEF Suspended, Locked
<1>11. CASE HandoffDone
  <2>1. /\ UNCHANGED <<told, visible, written, latest>>
        /\ UNCHANGED <<status, slot>> \/ status' = "HUMAN_ACTIVE"
    BY <1>11 DEF HandoffDone
  <2>. QED  BY <1>4, <2>1 DEF Suspended
<1>12. CASE GatewayLoad \/ AgentReply \/ ThreadEnds
  <2>1. /\ UNCHANGED <<told, visible, written, latest, slot>>
        /\ status' = status \/ status' = "HUMAN_ACTIVE"
    BY <1>12 DEF GatewayLoad, AgentReply, ThreadEnds
  <2>. QED  BY <1>4, <2>1 DEF Suspended
<1>. QED  BY <1>6, <1>7, <1>8, <1>9, <1>10, <1>11, <1>12

\* PaidForLess for any sets of texts.
LEMMA AlwaysPaidForLess ==
    ASSUME TypeOK
    PROVE  \A m \in SUBSET Texts : \A o \in SUBSET m :
              /\ Paid(m, 0) => Paid(o, 0)
              /\ Paid(m, 1) => Paid(o, 1)
BY PaidForLess

\* A text is sent: a repetition is one that was owed, and the memory of the tick
\* knows of it, unless a message has come that pays for it.
LEMMA PaidSend ==
    ASSUME Basics, Basics', RepeatsPaid, TimerSend
    PROVE  RepeatsPaid'
<1>. DEFINE text == timer.text  s == timer.slot  q == SentSlot(timer.slot, timer.text, timer.now)
<1>1. /\ TypeOK /\ TypeOK' /\ TickInOrder /\ SlotInOrder(s)
      /\ text \in Texts /\ s \in Slot /\ q \in Slot /\ timer \in Ticks /\ slot \in Slot
      /\ timer.now \in Nat /\ timer.cutoff \in Nat /\ told \in SUBSET Texts
      /\ \A m \in visible : written[m] \in Nat
  BY SlotsTyped DEF Basics, TypeOK, SlotsInOrder, Ticks
<1>2. /\ timer.pc = "sent" /\ timer' = [timer EXCEPT !.pc = "saving"]
      /\ told' = told \cup {text}
      /\ repeats' = IF text \in told THEN repeats + 1 ELSE repeats
      /\ UNCHANGED <<slot, status, latest, visible, written, faults>>
  BY DEF TimerSend, Goto, convVars, customerVars
<1>3. /\ timer'.pc = "saving" /\ timer'.text = text /\ timer'.slot = s /\ timer'.now = timer.now
  BY <1>1, <1>2 DEF Ticks
<1>4. ~Writing /\ InTick /\ Writing' /\ InTick' /\ Memory = s /\ Memory' = q
  BY <1>2, <1>3 DEF Writing, InTick, Memory
<1>5. /\ ~s.close
      /\ text = "close" => s.followup # Never /\ timer.cutoff = s.base
      /\ text = "followup" => /\ s.followup = Never /\ timer.cutoff # Never
                              /\ timer.cutoff <= timer.now
  BY <1>1, <1>2 DEF TickInOrder, Composing, Late, TimerStates
<1>6. /\ text = "followup" => q.followup = timer.now /\ q.close = s.close
      /\ text = "close" => q.followup = s.followup /\ q.close
  BY <1>1 DEF SentSlot, Slot
<1>7. ~Knows(s, text)
  BY <1>1, <1>5 DEF Knows, Texts
<1>8. \A t \in Texts : Knows(q, t) <=> t = text \/ Knows(s, t)
  <2>1. q.followup # Never <=> text = "followup" \/ s.followup # Never
    BY <1>1, <1>5, <1>6 DEF Texts, Never
  <2>2. q.close <=> text = "close" \/ s.close
    BY <1>1, <1>6 DEF Texts, Slot
  <2>. QED  BY <2>1, <2>2 DEF Knows, Texts
<1>9. Restarts(q) => ActivityAfter(timer.cutoff)
  <2>1. timer.cutoff <= q.followup
    BY <1>1, <1>5, <1>6, SlotFields DEF Texts, SlotInOrder
  <2>2. q.followup \in Nat
    BY <1>1, SlotFields
  <2>. QED  BY <1>1, <2>1, <2>2 DEF Restarts, ActivityAfter
<1>10. \A m \in visible : written'[m] = written[m]
  BY <1>2
<1>11. Forgotten(Memory)' = {t \in told \cup {text} : ~Knows(q, t) \/ Restarts(q)}
  <2>1. PICK r \in Slot : r = q
    BY <1>1
  <2>2. Memory' = r
    BY <1>4, <2>1
  <2>3. Forgotten(Memory)' = {t \in told \cup {text} : ~Knows(r, t) \/ Restarts(r)}
    BY <1>2, <2>2 DEF Forgotten, Knows, Restarts, ActivityAfter
  <2>. QED  BY <2>1, <2>3
<1>12. Forgotten(slot)' \subseteq Forgotten(slot) \cup {text}
  BY <1>2 DEF Forgotten, Knows, Restarts, ActivityAfter
<1>. HIDE DEF q
<1>13. Forgotten(s) \in SUBSET Texts /\ Forgotten(slot) \in SUBSET Texts
  BY <1>1 DEF Forgotten
<1>14. PICK owed \in SUBSET Texts : owed = Forgotten(s)
  BY <1>13
<1>15. PICK kept \in SUBSET Texts : kept = Forgotten(slot)
  BY <1>13
<1>16. PICK say \in Texts : say = text
  BY <1>1
<1>17. /\ Paid({}, 0) /\ Paid(owed, 0)
       /\ ~Suspended => Paid(kept, 0)
       /\ ActivityAfter(timer.cutoff) => told = {} /\ Paid({say}, 0)
  BY <1>1, <1>2, <1>4, <1>14, <1>15, <1>16, NothingOwed
     DEF RepeatsPaid, TickPaid, TablePaid, LatecomerPaid
<1>18. Suspended' <=> Suspended
  BY <1>2 DEF Suspended
<1>19. ASSUME NEW less \in SUBSET Texts, NEW more \in SUBSET Texts,
              Paid(less, 0)', less = Forgotten(Memory)',
              ~Suspended => Paid(more, 1)' /\ Forgotten(slot)' \subseteq more
       PROVE  RepeatsPaid'
  <2>1. (TypeOK => \A m \in SUBSET Texts : \A o \in SUBSET m :
                      /\ Paid(m, 0) => Paid(o, 0)
                      /\ Paid(m, 1) => Paid(o, 1))'
    BY AlwaysPaidForLess, PTL
  <2>2. TickPaid'
    BY <1>19 DEF TickPaid, Paid
  <2>3. Paid({}, 0)'
    BY <1>1, <1>19, <2>1
  <2>4. NoRepeatedText'
    <3>1. (TypeOK => ((NoRepeatedText <=> Paid({}, 0)) /\ (Paid({}, 0) => Paid({}, 1))))'
      BY NothingOwed, PTL
    <3>. QED  BY <1>1, <2>3, <3>1
  <2>5. TablePaid'
    <3>. SUFFICES ASSUME ~Suspended PROVE Paid(Forgotten(slot), IF Writing THEN 1 ELSE 0)'
      BY <1>18 DEF TablePaid
    <3>1. PICK o \in SUBSET more : o = Forgotten(slot)'
      BY <1>19
    <3>2. Paid(o, 1)'
      BY <1>1, <1>19, <2>1
    <3>. QED  BY <1>4, <3>1, <3>2 DEF Paid
  <2>6. LatecomerPaid'
    BY <1>3 DEF LatecomerPaid
  <2>. QED  BY <2>2, <2>4, <2>5, <2>6 DEF RepeatsPaid
<1>20. CASE ActivityAfter(timer.cutoff)
  <2>1. repeats' = repeats /\ told = {}
    BY <1>2, <1>17, <1>20
  <2>2. PICK less \in SUBSET {say} : less = Forgotten(Memory)'
    BY <1>11, <1>16, <2>1
  <2>3. Paid(less, 0) /\ Paid({say}, 1)
    BY <1>1, <1>17, <1>20, PaidForLess
  <2>4. Paid(less, 0)' /\ Paid({say}, 1)'
    BY <1>1, <1>2, <2>1, <2>3, PaidStays
  <2>5. Forgotten(slot)' \subseteq {say}
    BY <1>12, <1>16, <2>1 DEF Forgotten
  <2>. QED  BY <1>19, <2>2, <2>4, <2>5
<1>21. CASE ~ActivityAfter(timer.cutoff)
  <2>1. PICK less \in SUBSET (owed \ {say}) : less = Forgotten(Memory)'
    BY <1>1, <1>8, <1>9, <1>11, <1>14, <1>16, <1>21 DEF Forgotten
  <2>2. CASE say \in told
    <3>1. repeats' = repeats + 1 /\ say \in owed
      BY <1>2, <1>7, <1>14, <1>16, <2>2 DEF Forgotten
    <3>2. Paid(owed \ {say}, 0)'
      BY <1>1, <1>2, <1>17, <3>1, PaidByRepeating
    <3>3. Paid(less, 0)'
      <4>1. (TypeOK => \A m \in SUBSET Texts : \A o \in SUBSET m :
                          /\ Paid(m, 0) => Paid(o, 0)
                          /\ Paid(m, 1) => Paid(o, 1))'
        BY AlwaysPaidForLess, PTL
      <4>. QED  BY <1>1, <3>2, <4>1
    <3>4. ~Suspended => Paid(kept, 1)'
      BY <1>1, <1>2, <1>17, <3>1, PaidByRepeating
    <3>5. Forgotten(slot)' = kept
      BY <1>2, <1>15, <1>16, <2>2 DEF Forgotten, Knows, Restarts, ActivityAfter
    <3>. QED  BY <1>19, <2>1, <3>3, <3>4, <3>5
  <2>3. CASE say \notin told
    <3>1. repeats' = repeats
      BY <1>2, <1>16, <2>3
    <3>2. Paid(less, 0)
      BY <1>1, <1>17, PaidForLess
    <3>3. ~Suspended => Paid(kept \cup {say}, 1)
      BY <1>1, <1>17, PaidInAdvance
    <3>4. Paid(less, 0)' /\ (~Suspended => Paid(kept \cup {say}, 1)')
      BY <1>1, <1>2, <3>1, <3>2, <3>3, PaidStays
    <3>. QED  BY <1>12, <1>15, <1>16, <1>19, <2>1, <3>4
  <2>. QED  BY <2>2, <2>3
<1>. QED  BY <1>20, <1>21

\* A tick that ends, or only goes on to another point, leaves what it owes.
LEMMA PaidGoto ==
    ASSUME Basics, Basics', RepeatsPaid, UNCHANGED <<told, repeats, visible, written, slot>>,
           faults' = faults \/ faults' = faults + 1, Writing => faults' = faults + 1,
           ~Suspended' => ~Suspended, InTick,
           \/ timer' = NoTimer
           \/ \E state \in TimerStates : /\ Goto(state) /\ state \notin {"saving", "inserted"}
                                         /\ state = "sent" => ~ActivityAfter(timer.cutoff)
                                         /\ ~Writing
    PROVE  RepeatsPaid'
<1>1. TypeOK /\ TypeOK' /\ timer \in Ticks
  BY DEF Basics, TypeOK, Ticks
<1>2. \A c \in Nat : ActivityAfter(c)' <=> ActivityAfter(c)
  BY DEF ActivityAfter
<1>3. Alike(slot', slot)
  BY DEF Alike
<1>4. CASE timer' = NoTimer
  <2>1. ~InTick' /\ timer'.pc # "sent"
    BY <1>4 DEF NoTimer, InTick
  <2>. QED  BY <1>1, <1>2, <1>3, <2>1, PaidQuietly
<1>5. ASSUME NEW state \in TimerStates, Goto(state), state \notin {"saving", "inserted"},
             state = "sent" => ~ActivityAfter(timer.cutoff), ~Writing
      PROVE  RepeatsPaid'
  <2>1. timer'.pc = state /\ timer'.slot = timer.slot /\ timer'.cutoff = timer.cutoff
    BY <1>1, <1>5 DEF Goto, Ticks
  <2>2. Memory' = timer.slot /\ Memory = timer.slot
    BY <1>5, <2>1 DEF Memory, Writing
  <2>3. Alike(Memory', Memory)
    BY <2>2 DEF Alike
  <2>. QED  BY <1>1, <1>2, <1>3, <1>5, <2>1, <2>3, PaidQuietly
<1>. QED  BY <1>4, <1>5

\* A tick that ends gives the table its memory.
LEMMA PaidSaved ==
    ASSUME Basics, Basics', RepeatsPaid, UNCHANGED <<told, repeats, visible, written, faults>>,
           Alike(slot', Memory), InTick, InTick' => Alike(Memory', Memory),
           timer'.pc # "sent"
    PROVE  RepeatsPaid'
<1>1. TypeOK /\ TypeOK'
  BY DEF Basics
<1>2. \A c \in Nat : ActivityAfter(c)' <=> ActivityAfter(c)
  BY DEF ActivityAfter
<1>. QED  BY <1>1, <1>2, PaidQuietly

\* The ticks of the timer stay paid.
LEMMA PaidTimer ==
    ASSUME Basics, Basics', RepeatsPaid, TimerStep
    PROVE  RepeatsPaid'
<1>. USE DEF convVars, customerVars, queueVars, history, timerOnly
<1>1. /\ TypeOK /\ TypeOK' /\ timer \in Ticks /\ timer.slot \in Slot /\ slot \in Slot
      /\ timer.cutoff \in Nat /\ latest.at \in Nat /\ timer.now \in Nat
  BY DEF Basics, TypeOK, Ticks
<1>2. UNCHANGED <<visible, written>> /\ (TimerInsertMessage \/ latest' = latest)
  BY TimerFrame
<1>3. \A c \in Nat : ActivityAfter(c)' <=> ActivityAfter(c)
  BY <1>2 DEF ActivityAfter
<1>4. CASE TimerStart
  <2>1. UNCHANGED <<told, repeats, slot, status, latest, faults>> /\ timer.pc = "idle"
        /\ timer'.pc = "started"
    BY <1>1, <1>4 DEF TimerStart, Ticks
  <2>2. Alike(slot', slot) /\ ~InTick' /\ (Suspended' <=> Suspended) /\ ~Writing
    BY <2>1 DEF Alike, InTick, Suspended, Writing
  <2>. QED  BY <1>1, <1>2, <1>3, <2>1, <2>2, PaidQuietly
<1>5. CASE TimerFetch
  <2>1. UNCHANGED <<told, repeats, slot, status, latest, faults>> /\ timer.pc = "started"
    BY <1>5 DEF TimerFetch
  <2>2. Alike(slot', slot) /\ (Suspended' <=> Suspended) /\ ~Writing
    BY <2>1 DEF Alike, Suspended, Writing
  <2>3. CASE ~Candidate
    <3>1. ~InTick' /\ timer'.pc # "sent"
      BY <1>5, <2>3 DEF TimerFetch, EndTick, NoTimer, InTick
    <3>. QED  BY <1>1, <1>2, <1>3, <2>1, <2>2, <3>1, PaidQuietly
  <2>4. CASE Candidate
    <3>1. timer'.pc = "fetched" /\ timer'.slot = slot
      BY <1>1, <1>5, <2>4 DEF TimerFetch, Ticks
    <3>2. Memory' = slot
      BY <3>1 DEF Memory, Writing
    <3>3. ~Suspended /\ Alike(Memory', slot)
      BY <2>4, <3>2 DEF Suspended, Candidate, Alike
    <3>. QED  BY <1>1, <1>2, <1>3, <2>1, <2>2, <3>1, <3>3, PaidQuietly
  <2>. QED  BY <2>3, <2>4
<1>6. CASE TimerExamine
  <2>1. UNCHANGED <<told, repeats, status, latest, faults>> /\ timer.pc = "fetched" /\ InTick
        /\ ~Writing
    BY <1>6 DEF TimerExamine, InTick, Writing
  <2>2. CASE latest.role # "assistant"
    <3>1. timer' = NoTimer /\ Suspended'
      BY <1>6, <2>1, <2>2 DEF TimerExamine, EndTick, Suspended
    <3>2. ~InTick' /\ timer'.pc # "sent"
      BY <3>1 DEF InTick, NoTimer
    <3>. QED  BY <1>1, <1>2, <1>3, <2>1, <3>1, <3>2, PaidQuietly
  <2>3. CASE latest.role = "assistant" /\ timer' = NoTimer
    <3>1. UNCHANGED slot /\ (Suspended' <=> Suspended)
      BY <1>6, <2>1, <2>3 DEF TimerExamine, Suspended
    <3>. QED  BY <1>2, <2>1, <2>3, <3>1, PaidGoto
  <2>4. CASE latest.role = "assistant" /\ timer' = [timer EXCEPT !.pc = "examined", !.cutoff = latest.at]
    <3>1. UNCHANGED slot /\ (Suspended' <=> Suspended)
      BY <1>6, <2>1, <2>4 DEF TimerExamine, Suspended
    <3>2. timer'.pc = "examined" /\ timer'.slot = timer.slot
      BY <1>1, <2>4 DEF Ticks
    <3>3. Memory' = timer.slot /\ Memory = timer.slot
      BY <2>1, <3>2 DEF Memory, Writing
    <3>4. Alike(Memory', Memory) /\ Alike(slot', slot)
      BY <3>1, <3>3 DEF Alike
    <3>. QED  BY <1>1, <1>2, <1>3, <2>1, <3>1, <3>2, <3>4, PaidQuietly
  <2>. QED  BY <1>6, <2>2, <2>3, <2>4 DEF TimerExamine, EndTick
<1>7. CASE TimerCheckFollowup
  <2>1. UNCHANGED <<told, repeats, status, latest, faults>> /\ timer.pc = "examined" /\ InTick
        /\ ~Writing /\ Memory = timer.slot
    BY <1>7 DEF TimerCheckFollowup, InTick, Writing, Memory
  <2>2. Suspended' <=> Suspended
    BY <2>1 DEF Suspended
  <2>3. timer'.pc = "checked" /\ Memory' = timer'.slot
    BY <1>1, <1>7, FollowupMoves DEF Ticks, Memory, Writing
  <2>4. CASE Restarts(timer.slot)
    <3>1. Forgotten(timer.slot) = told
      BY <2>4 DEF Forgotten
    <3>2. Paid(told, 0)
      BY <2>1, <3>1 DEF RepeatsPaid, TickPaid
    <3>. QED  BY <1>1, <1>2, <1>3, <2>1, <2>3, <3>2, PaidQuietly
  <2>5. CASE ~Restarts(timer.slot)
    <3>1. slot' = slot /\ timer'.slot = timer.slot
      BY <1>1, <1>7, <2>5, FollowupMoves DEF Ticks
    <3>2. Alike(slot', slot) /\ Alike(Memory', Memory)
      BY <2>1, <2>3, <3>1 DEF Alike
    <3>. QED  BY <1>1, <1>2, <1>3, <2>1, <2>2, <2>3, <3>2, PaidQuietly
  <2>. QED  BY <2>4, <2>5
<1>8. CASE TimerDecide
  <2>1. UNCHANGED <<told, repeats, slot, status, latest, faults>> /\ timer.pc = "checked" /\ InTick
        /\ ~Writing /\ Memory = timer.slot
    BY <1>8 DEF TimerDecide, InTick, Writing, Memory
  <2>2. Suspended' <=> Suspended
    BY <2>1 DEF Suspended
  <2>3. CASE timer' = NoTimer \/ Goto("closing") \/ Goto("mark_closed")
    <3>1. {"closing", "mark_closed"} \subseteq TimerStates \ {"saving", "inserted", "sent"}
      BY DEF TimerStates
    <3>. QED  BY <1>2, <2>1, <2>2, <2>3, <3>1, PaidGoto
  <2>4. CASE \/ timer' = [timer EXCEPT !.pc = "sending", !.text = "close"]
             \/ timer' = [timer EXCEPT !.pc = "sending", !.text = "followup", !.slot.base = timer.cutoff]
    <3>1. /\ timer'.pc = "sending"
          /\ \/ timer'.slot = timer.slot
             \/ timer'.slot = [timer.slot EXCEPT !.base = timer.cutoff]
      BY <1>1, <2>4 DEF Ticks
    <3>2. Alike(timer'.slot, timer.slot)
      BY <1>1, <3>1 DEF Alike, Slot
    <3>3. Memory' = timer'.slot /\ Alike(slot', slot)
      BY <2>1, <3>1 DEF Memory, Writing, Alike
    <3>. QED  BY <1>1, <1>2, <1>3, <2>1, <2>2, <3>1, <3>2, <3>3, PaidQuietly
  <2>. QED  BY <1>8, <2>3, <2>4 DEF TimerDecide, EndTick
<1>9. CASE TimerFinalize
  <2>1. UNCHANGED <<told, repeats, slot, status, latest, faults>> /\ timer.pc = "sending" /\ InTick
        /\ ~Writing
    BY <1>9 DEF TimerFinalize, InTick, Writing
  <2>2. Suspended' <=> Suspended
    BY <2>1 DEF Suspended
  <2>3. {"sent", "handing_off"} \subseteq TimerStates \ {"saving", "inserted"}
    BY DEF TimerStates
  <2>. QED  BY <1>2, <1>9, <2>1, <2>2, <2>3, PaidGoto DEF TimerFinalize, EndTick
<1>10. CASE TimerRequestHandoff
  <2>1. UNCHANGED <<told, repeats, latest, faults>> /\ timer.pc = "handing_off" /\ InTick
        /\ ~Writing /\ Memory = timer.slot
    BY <1>10 DEF TimerRequestHandoff, InTick, Writing, Memory
  <2>2. CASE status \in EligibleForHandoff
    <3>1. /\ status' = "HANDOFF_REQUESTED" /\ slot' = [slot EXCEPT !.failed = TRUE]
          /\ Goto("notice")
      BY <1>10, <2>2 DEF TimerRequestHandoff
    <3>2. timer'.pc = "notice" /\ timer'.slot = timer.slot
      BY <1>1, <3>1 DEF Goto, Ticks
    <3>3. Memory' = timer.slot /\ ~Writing'
      BY <3>2 DEF Memory, Writing
    <3>4. Alike(Memory', Memory) /\ Alike(slot', slot)
      BY <1>1, <2>1, <3>1, <3>3 DEF Alike, Slot
    <3>5. Suspended' <=> Suspended
      BY <2>1, <2>2, <3>1 DEF Suspended, EligibleForHandoff
    <3>. QED  BY <1>1, <1>2, <1>3, <2>1, <3>2, <3>4, <3>5, PaidQuietly
  <2>3. CASE status \notin EligibleForHandoff
    <3>1. timer' = NoTimer /\ UNCHANGED <<status, slot>>
      BY <1>10, <2>3 DEF TimerRequestHandoff, EndTick
    <3>2. Suspended' <=> Suspended
      BY <2>1, <3>1 DEF Suspended
    <3>. QED  BY <1>2, <2>1, <3>1, <3>2, PaidGoto
  <2>. QED  BY <2>2, <2>3
<1>11. CASE TimerNotice
  <2>1. UNCHANGED <<told, repeats, slot, status, latest, faults>> /\ timer.pc = "notice" /\ InTick
        /\ ~Writing /\ timer' = NoTimer
    BY <1>11 DEF TimerNotice, InTick, Writing, EndTick
  <2>. QED  BY <1>2, <2>1, PaidGoto DEF Suspended
<1>12. CASE TimerSend
  BY <1>12, PaidSend
<1>13. CASE TimerSendFails \/ TimerDeactivateFails \/ TimerDeactivate \/ TimerFinalCheck
  <2>1. /\ UNCHANGED <<told, repeats, slot, status, latest>>
        /\ timer.pc \in {"sent", "deactivating", "closing"}
        /\ \/ timer' = NoTimer
           \/ \E state \in {"mark_closed", "record_failure", "deactivating"} : Goto(state)
    BY <1>13 DEF TimerSendFails, TimerDeactivateFails, TimerDeactivate, TimerFinalCheck, EndTick
  <2>2. faults' = faults \/ faults' = faults + 1
    BY <1>13 DEF TimerSendFails, TimerDeactivateFails, TimerDeactivate, TimerFinalCheck, Fault
  <2>3. /\ {"mark_closed", "record_failure", "deactivating"}
             \subseteq TimerStates \ {"saving", "inserted", "sent"}
        /\ InTick /\ ~Writing
    BY <2>1 DEF TimerStates, InTick, Writing
  <2>4. Suspended' <=> Suspended
    BY <2>1 DEF Suspended
  <2>. QED  BY <1>2, <2>1, <2>2, <2>3, <2>4, PaidGoto
<1>14. CASE TimerInsertMessage
  <2>1. /\ UNCHANGED <<told, repeats, slot, status, faults>> /\ timer.pc = "saving" /\ InTick
        /\ Goto("inserted") /\ InsertMessage("assistant", timer.now)
    BY <1>14 DEF TimerInsertMessage, InTick
  <2>2. /\ timer'.pc = "inserted" /\ timer'.slot = timer.slot /\ timer'.text = timer.text
        /\ timer'.now = timer.now
    BY <1>1, <2>1 DEF Goto, Ticks
  <2>3. Memory' = Memory /\ Writing'
    BY <2>1, <2>2 DEF Memory, Writing
  <2>4. Alike(Memory', Memory) /\ Alike(slot', slot)
    BY <2>1, <2>3 DEF Alike
  <2>5. Suspended => Suspended'
    <3>1. latest.role # "assistant" => timer.now < latest.at
      BY <2>1 DEF Basics, TimesInOrder
    <3>2. latest.role # "assistant" => latest' = latest
      BY <1>1, <2>1, <3>1, InsertMoves
    <3>. QED  BY <2>1, <3>2 DEF Suspended
  <2>. QED  BY <1>1, <1>2, <1>3, <2>1, <2>2, <2>3, <2>4, <2>5, PaidQuietly
<1>15. CASE TimerSaveSlot
  <2>1. /\ UNCHANGED <<told, repeats, faults>> /\ timer.pc = "inserted" /\ InTick
        /\ slot' = Memory
        /\ \/ timer' = NoTimer
           \/ timer' = [timer EXCEPT !.pc = "closing", !.slot = Memory]
    BY <1>15 DEF TimerSaveSlot, InTick, Memory, Writing
  <2>2. CASE timer' = NoTimer
    <3>1. ~InTick' /\ timer'.pc # "sent" /\ Alike(slot', Memory)
      BY <2>1, <2>2 DEF NoTimer, InTick, Alike
    <3>. QED  BY <1>2, <2>1, <3>1, PaidSaved
  <2>3. CASE timer' = [timer EXCEPT !.pc = "closing", !.slot = Memory]
    <3>1. timer'.pc = "closing" /\ timer'.slot = Memory
      BY <1>1, <2>3 DEF Ticks
    <3>2. Memory' = Memory
      BY <3>1 DEF Memory, Writing
    <3>3. Alike(slot', Memory) /\ Alike(Memory', Memory)
      BY <2>1, <3>2 DEF Alike
    <3>. QED  BY <1>2, <2>1, <3>1, <3>3, PaidSaved
  <2>. QED  BY <2>1, <2>2, <2>3
<1>16. CASE TimerRecordFailure \/ TimerMarkClosed
  <2>1. /\ UNCHANGED <<told, repeats, faults>> /\ timer.pc \in {"record_failure", "mark_closed"}
        /\ slot' = timer.slot \/ slot' = [timer.slot EXCEPT !.closed = TRUE]
        /\ timer' = NoTimer
    BY <1>16 DEF TimerRecordFailure, TimerMarkClosed, EndTick
  <2>2. InTick /\ Memory = timer.slot /\ ~InTick' /\ timer'.pc # "sent"
    BY <2>1 DEF InTick, Memory, Writing, NoTimer
  <2>3. Alike(slot', Memory)
    BY <1>1, <2>1, <2>2 DEF Alike, Slot
  <2>. QED  BY <1>2, <2>1, <2>2, <2>3, PaidSaved
<1>17. CASE TimerCrash
  <2>1. /\ UNCHANGED <<told, repeats, slot, status, latest>> /\ timer' = NoTimer
        /\ faults' = faults + 1 /\ timer.pc # "idle"
    BY <1>17 DEF TimerCrash, EndTick, Fault
  <2>2. /\ ~InTick' /\ timer'.pc # "sent" /\ (Suspended' <=> Suspended) /\ Alike(slot', slot)
    BY <2>1 DEF InTick, NoTimer, Suspended, Alike
  <2>. QED  BY <1>1, <1>2, <1>3, <2>1, <2>2, PaidQuietly
<1>. QED
  BY <1>4, <1>5, <1>6, <1>7, <1>8, <1>9, <1>10, <1>11, <1>12, <1>13, <1>14, <1>15, <1>16, <1>17
     DEF TimerStep

-----------------------------------------------------------------------------
(* Closed only after warnings *)

\* Silence stays counted from a message that has been written.
LEMMA SilenceStays ==
    ASSUME Basics, SilenceInOrder,
           CustomerWrites \/ EventStored \/ GatewayLoad \/ GatewayCommit \/ SenderStep
           \/ WorkDone \/ HandoffDone \/ AgentReply \/ ThreadEnds \/ TimerStep
    PROVE  SilenceInOrder'
<1>. USE DEF convVars, customerVars, queueVars, history, timerOnly
<1>1. /\ clock \in Nat /\ silentSince \in Nat /\ latest.at \in Nat /\ timer.cutoff \in Nat
      /\ latest.at <= clock /\ timer \in Ticks
  BY DEF Basics, TypeOK, TimesInOrder, Ticks
<1>2. CASE TimerStep
  <2>1. clock' = clock
    BY <1>2, TimerFrame
  <2>2. CASE TimerExamine
    <3>1. silentSince' = silentSince
      BY <2>2 DEF TimerExamine
    <3>2. timer' = NoTimer \/ timer' = [timer EXCEPT !.pc = "examined", !.cutoff = latest.at]
      BY <2>2 DEF TimerExamine, EndTick
    <3>3. timer'.pc = "examined" => timer'.cutoff = latest.at
      <4>1. CASE timer' = NoTimer
        BY <4>1 DEF NoTimer
      <4>2. CASE timer' = [timer EXCEPT !.pc = "examined", !.cutoff = latest.at]
        BY <1>1, <4>2 DEF Ticks
      <4>. QED  BY <3>2, <4>1, <4>2
    <3>. QED  BY <1>1, <2>1, <3>1, <3>3 DEF SilenceInOrder
  <2>3. CASE TimerCheckFollowup
    <3>1. silentSince' \in {silentSince, timer.cutoff} /\ timer.pc = "examined"
      BY <2>3 DEF TimerCheckFollowup
    <3>2. timer'.pc = "checked"
      BY <1>1, <2>3, FollowupMoves DEF Ticks
    <3>. QED  BY <1>1, <2>1, <3>1, <3>2 DEF SilenceInOrder
  <2>4. CASE ~TimerExamine /\ ~TimerCheckFollowup
    <3>1. silentSince' = silentSince
      BY <1>2, <2>4
         DEF TimerStep, TimerStart, TimerFetch, TimerDecide, TimerFinalize, TimerRequestHandoff,
             TimerNotice, TimerSend, TimerSendFails, TimerInsertMessage, TimerSaveSlot,
             TimerRecordFailure, TimerFinalCheck, TimerDeactivate, TimerDeactivateFails,
             TimerMarkClosed, TimerCrash
    <3>2. timer'.pc # "examined"
      <4>1. CASE timer' = NoTimer
        BY <4>1 DEF NoTimer
      <4>2. CASE TimerStart
        BY <1>1, <4>2 DEF TimerStart, Ticks
      <4>3. CASE TimerFetch
        BY <1>1, <4>1, <4>3 DEF TimerFetch, EndTick, Ticks
      <4>4. CASE TimerDecide
        BY <1>1, <4>1, <4>4 DEF TimerDecide, EndTick, Goto, Ticks
      <4>5. CASE TimerSaveSlot
        BY <1>1, <4>1, <4>5 DEF TimerSaveSlot, Ticks
      <4>6. CASE \E state \in TimerStates \ {"examined"} : Goto(state)
        BY <1>1, <4>6 DEF Goto, Ticks
      <4>. QED
        BY <1>2, <2>4, <4>1, <4>2, <4>3, <4>4, <4>5, <4>6
           DEF TimerStep, TimerFinalize, TimerRequestHandoff, TimerNotice, TimerSend,
               TimerSendFails, TimerInsertMessage, TimerRecordFailure, TimerFinalCheck,
               TimerDeactivate, TimerDeactivateFails, TimerMarkClosed, TimerCrash, EndTick,
               TimerStates
    <3>. QED  BY <2>1, <3>1, <3>2 DEF SilenceInOrder
  <2>. QED  BY <2>2, <2>3, <2>4
<1>3. CASE ~TimerStep
  <2>1. timer' = timer
    BY <1>3 DEF CustomerWrites, EventStored, GatewayLoad, GatewayCommit, SenderStep, WorkDone,
                HandoffDone, AgentReply, ThreadEnds
  <2>2. \/ silentSince' = silentSince /\ clock' \in {clock, clock + 1}
        \/ silentSince' = clock + 1 /\ clock' = clock + 1
    BY <1>3 DEF CustomerWrites, EventStored, GatewayLoad, GatewayCommit, SenderStep, WorkDone,
                HandoffDone, AgentReply, ThreadEnds
  <2>. QED  BY <1>1, <2>1, <2>2 DEF SilenceInOrder
<1>. QED  BY <1>2, <1>3

\* Messages accumulate and the silence is counted from later and later: what is
\* anchored stays so, and what was received has been or is void.
LEMMA WarnsStays ==
    ASSUME TypeOK, TypeOK', silentSince' >= silentSince,
           \A m \in visible : m \in visible' /\ written'[m] = written[m],
           warned \subseteq warned' \/ \A c \in Nat : Anchored(c) => ActivityAfter(c)'
    PROVE  /\ \A c \in Nat : ActivityAfter(c) => ActivityAfter(c)'
           /\ \A c \in Nat : Anchored(c) => Anchored(c)'
           /\ \A c \in Nat, t \in Texts : Anchored(c) /\ (t \in warned \/ ActivityAfter(c))
                                             => t \in warned' \/ ActivityAfter(c)'
           /\ \A s \in Slot : Warns(s) => Warns(s)'
<1>1. \A c \in Nat : ActivityAfter(c) => ActivityAfter(c)'
  BY DEF ActivityAfter
<1>2. \A c \in Nat : Anchored(c) => Anchored(c)'
  BY <1>1 DEF Anchored, TypeOK
<1>3. ASSUME NEW c \in Nat, NEW t \in Texts, Anchored(c), t \in warned \/ ActivityAfter(c)
      PROVE  t \in warned' \/ ActivityAfter(c)'
  BY <1>1, <1>3
<1>4. ASSUME NEW s \in Slot, Warns(s) PROVE Warns(s)'
  <2>1. s.base \in Nat /\ Anchored(s.base) /\ Anchored(s.base)'
    BY <1>2, <1>4, SlotFields DEF Warns
  <2>2. \A t \in Texts : Knows(s, t)' <=> Knows(s, t)
    BY DEF Knows
  <2>3. ASSUME NEW t \in Texts, Knows(s, t) PROVE t \in warned' \/ ActivityAfter(s.base)'
    BY <1>3, <1>4, <2>1, <2>3 DEF Warns
  <2>. QED  BY <2>1, <2>2, <2>3 DEF Warns
<1>. QED  BY <1>1, <1>2, <1>3, <1>4

\* The warnings of the next state, told by the slot memories and times it has.
LEMMA WarningsThere ==
    ASSUME NEW r \in Slot, NEW g \in Slot, NEW s \in Slot, NEW c \in Nat, NEW l \in Nat,
           r = slot', g = gateway'.slot, s = timer'.slot, c = timer'.cutoff, l = latest'.at,
           Warns(r)', Warns(g)', Warns(s)',
           timer'.pc \in Late => Anchored(c)',
           timer'.pc = "examined" =>
              /\ Anchored(c)' \/ s.followup # Never
              /\ latest'.role = "assistant" => l = c \/ Anchored(l)',
           timer'.pc \in {"saving", "inserted"} => timer'.text \in warned' \/ ActivityAfter(c)',
           InTick' /\ timer'.pc # "inserted" /\ latest'.role = "assistant" =>
              Anchored(l)' \/ s.followup # Never,
           ~Suspended' /\ timer'.pc # "inserted" => Anchored(l)' \/ r.followup # Never,
           timer'.pc \in {"closing", "deactivating"} => s.close,
           timer'.pc # "record_failure"
    PROVE  Warnings'
<1>1. Warns(slot)' <=> Warns(r)'
  BY DEF Warns, Anchored, Knows, ActivityAfter
<1>2. Warns(gateway.slot)' <=> Warns(g)'
  BY DEF Warns, Anchored, Knows, ActivityAfter
<1>3. Warns(timer.slot)' <=> Warns(s)'
  BY DEF Warns, Anchored, Knows, ActivityAfter
<1>4. Anchored(timer.cutoff)' <=> Anchored(c)'
  BY DEF Anchored, ActivityAfter
<1>5. Anchored(latest.at)' <=> Anchored(l)'
  BY DEF Anchored, ActivityAfter
<1>6. ActivityAfter(timer.cutoff)' <=> ActivityAfter(c)'
  BY DEF ActivityAfter
<1>7. Writing' <=> timer'.pc \in {"saving", "inserted"}
  BY DEF Writing
<1>. QED  BY <1>1, <1>2, <1>3, <1>4, <1>5, <1>6, <1>7 DEF Warnings

\* Cleared slot memories tell of nothing.
LEMMA ClearedWarns ==
    ASSUME TypeOK, NEW s \in Slot, s.followup = Never, ~s.close, s.base = Never \/ Anchored(s.base)
    PROVE  Warns(s)
<1>1. Anchored(Never)
  BY DEF Anchored, Never, TypeOK
<1>. QED  BY <1>1 DEF Warns, Knows, Texts

\* The customer, the gateway and the others keep the warnings.
LEMMA WarningsWorld ==
    ASSUME Basics, Basics', SilenceInOrder, Warnings,
           CustomerWrites \/ EventStored \/ GatewayLoad \/ GatewayCommit \/ SenderStep
           \/ WorkDone \/ HandoffDone \/ AgentReply \/ ThreadEnds
    PROVE  Warnings'
<1>. USE DEF convVars, customerVars, queueVars, history
<1>1. TypeOK /\ TypeOK' /\ clock \in Nat /\ latest.at \in Nat /\ latest.at <= clock
      /\ silentSince \in Nat /\ timer.cutoff \in Nat /\ timer.text \in Texts /\ latest'.at \in Nat
      /\ latest \in [role : {"none", "customer", "assistant"}, at : Nat]
  BY DEF Basics, TypeOK, TimesInOrder
<1>2. slot \in Slot /\ gateway.slot \in Slot /\ timer.slot \in Slot /\ NoSlot \in Slot
  BY <1>1, MemoriesTyped, SlotsTyped
<1>3. Warns(slot) /\ Warns(gateway.slot) /\ Warns(timer.slot) /\ Warns(NoSlot)
  BY <1>1, <1>2, SlotFields, ClearedWarns DEF Warnings
<1>4. timer' = timer
  BY DEF CustomerWrites, EventStored, GatewayLoad, GatewayCommit, SenderStep, WorkDone,
         HandoffDone, AgentReply, ThreadEnds
<1>5. ASSUME silentSince' >= silentSince,
             \A m \in visible : m \in visible' /\ written'[m] = written[m],
             warned \subseteq warned' \/ \A c \in Nat : Anchored(c) => ActivityAfter(c)',
             slot' \in {slot, gateway.slot, NoSlot}, gateway'.slot \in {slot, gateway.slot, NoSlot},
             \/ latest' = latest
             \/ latest'.role # "assistant"
             \/ latest'.at <= silentSince',
             ~Suspended' => \/ ~Suspended /\ slot' = slot /\ latest' = latest
                            \/ latest'.at <= silentSince'
      PROVE  Warnings'
  <2>1. PICK r \in Slot : r = slot' /\ Warns(r)
    BY <1>2, <1>3, <1>5
  <2>2. PICK g \in Slot : g = gateway'.slot /\ Warns(g)
    BY <1>2, <1>3, <1>5
  <2>3. PICK s \in Slot : s = timer.slot /\ Warns(s)
    BY <1>2, <1>3
  <2>4. PICK c \in Nat : c = timer.cutoff
    BY <1>1
  <2>5. PICK l \in Nat : l = latest'.at
    BY <1>1
  <2>6. /\ \A d \in Nat : ActivityAfter(d) => ActivityAfter(d)'
        /\ \A d \in Nat : Anchored(d) => Anchored(d)'
        /\ \A d \in Nat, t \in Texts : Anchored(d) /\ (t \in warned \/ ActivityAfter(d))
                                          => t \in warned' \/ ActivityAfter(d)'
        /\ \A u \in Slot : Warns(u) => Warns(u)'
    BY <1>1, <1>5, WarnsStays
  <2>7. l <= silentSince' => Anchored(l)'
    BY DEF Anchored
  <2>8. timer'.pc \in Late => Anchored(c)'
    BY <1>4, <2>4, <2>6 DEF Warnings
  <2>9. timer'.pc = "examined" =>
           /\ Anchored(c)' \/ s.followup # Never
           /\ latest'.role = "assistant" => l = c \/ Anchored(l)'
    BY <1>1, <1>4, <1>5, <2>3, <2>4, <2>5, <2>6, <2>7 DEF Warnings
  <2>10. timer'.pc \in {"saving", "inserted"} => timer'.text \in warned' \/ ActivityAfter(c)'
    BY <1>1, <1>4, <2>4, <2>6 DEF Warnings, Writing, Late, TimerStates
  <2>11. InTick' /\ timer'.pc # "inserted" /\ latest'.role = "assistant" =>
            Anchored(l)' \/ s.followup # Never
    BY <1>1, <1>4, <1>5, <2>3, <2>5, <2>6, <2>7 DEF Warnings, InTick
  <2>12. ~Suspended' /\ timer'.pc # "inserted" => Anchored(l)' \/ r.followup # Never
    BY <1>1, <1>4, <1>5, <2>1, <2>5, <2>6, <2>7 DEF Warnings
  <2>13. /\ timer'.pc \in {"closing", "deactivating"} => s.close
         /\ timer'.pc # "record_failure"
    BY <1>4, <2>3 DEF Warnings
  <2>. QED
    BY <1>4, <2>1, <2>2, <2>3, <2>4, <2>5, <2>6, <2>8, <2>9, <2>10, <2>11, <2>12, <2>13,
       WarningsThere
<1>6. CASE CustomerWrites
  <2>1. \A m \in visible : written[m] # Never
    BY DEF Basics, TimesInOrder
  <2>2. \A m \in visible : written'[m] = written[m]
    BY <1>1, <1>6, <2>1 DEF CustomerWrites, TypeOK
  <2>3. UNCHANGED <<warned, silentSince, visible, slot, gateway, latest, status>>
    BY <1>6 DEF CustomerWrites
  <2>. QED  BY <1>1, <1>5, <2>2, <2>3 DEF Suspended
<1>7. CASE EventStored
  <2>1. PICK m \in Messages \ visible : /\ visible' = visible \cup {m}
                                        /\ \/ warned' = warned
                                           \/ warned' = {} /\ written[m] > silentSince
    BY <1>7 DEF EventStored
  <2>2. UNCHANGED <<silentSince, written, slot, gateway, latest, status>>
    BY <1>7 DEF EventStored
  <2>3. ASSUME NEW c \in Nat, Anchored(c), written[m] > silentSince PROVE ActivityAfter(c)'
    <3>1. CASE c <= silentSince
      BY <1>1, <2>1, <2>2, <2>3, <3>1 DEF ActivityAfter, TypeOK
    <3>2. CASE ActivityAfter(c)
      BY <2>1, <2>2, <3>2 DEF ActivityAfter
    <3>. QED  BY <2>3, <3>1, <3>2 DEF Anchored
  <2>4. warned \subseteq warned' \/ \A c \in Nat : Anchored(c) => ActivityAfter(c)'
    BY <2>1, <2>3
  <2>5. \A k \in visible : k \in visible' /\ written'[k] = written[k]
    BY <2>1, <2>2
  <2>. QED  BY <1>1, <1>5, <2>2, <2>4, <2>5 DEF Suspended
<1>8. CASE SenderStep
  <2>1. UNCHANGED <<visible, written, slot, status, gateway, warned>>
    BY <1>8 DEF SenderStep
  <2>2. CASE UNCHANGED <<silentSince, latest>>
    BY <1>1, <1>5, <2>1, <2>2 DEF Suspended
  <2>3. CASE silentSince' = clock + 1 /\ InsertMessage("assistant", clock + 1)
    <3>1. latest'.at <= silentSince'
      BY <1>1, <2>3 DEF InsertMessage
    <3>2. silentSince' >= silentSince
      BY <1>1, <2>3 DEF SilenceInOrder
    <3>. QED  BY <1>5, <2>1, <3>1, <3>2
  <2>. QED  BY <1>8, <2>2, <2>3 DEF SenderStep
<1>9. CASE GatewayCommit
  <2>1. /\ UNCHANGED <<silentSince, warned, visible, written>> /\ InsertMessage("customer", clock + 1)
        /\ slot' \in {slot, gateway.slot} /\ gateway'.slot = NoSlot
    BY <1>9 DEF GatewayCommit, NoGateway
  <2>2. latest' = [role |-> "customer", at |-> clock + 1]
    BY <1>1, <2>1 DEF InsertMessage
  <2>3. Suspended' /\ latest'.role # "assistant"
    BY <2>2 DEF Suspended
  <2>. QED  BY <1>1, <1>5, <2>1, <2>3
<1>10. CASE WorkDone
  <2>1. /\ UNCHANGED <<silentSince, warned, visible, written, slot, gateway, latest>>
        /\ status' = status \/ status \notin Locked
    BY <1>10, Zenon DEF WorkDone
  <2>2. ~Suspended' => ~Suspended
    BY <2>1 DEF Suspended, Locked
  <2>. QED  BY <1>1, <1>5, <2>1, <2>2
<1>11. CASE HandoffDone
  <2>1. /\ UNCHANGED <<silentSince, warned, visible, written, gateway, latest>>
        /\ UNCHANGED <<status, slot>> \/ (status' = "HUMAN_ACTIVE" /\ slot' = NoSlot)
    BY <1>11 DEF HandoffDone
  <2>2. ~Suspended' => ~Suspended /\ slot' = slot
    BY <2>1 DEF Suspended
  <2>. QED  BY <1>1, <1>5, <2>1, <2>2
<1>12. CASE GatewayLoad \/ AgentReply \/ ThreadEnds
  <2>1. /\ UNCHANGED <<silentSince, warned, visible, written, latest, slot>>
        /\ status' = status \/ status' = "HUMAN_ACTIVE"
        /\ gateway'.slot \in {slot, gateway.slot}
    BY <1>12 DEF GatewayLoad, AgentReply, ThreadEnds
  <2>2. ~Suspended' => ~Suspended
    BY <2>1 DEF Suspended
  <2>. QED  BY <1>1, <1>5, <2>1, <2>2
<1>. QED  BY <1>6, <1>7, <1>8, <1>9, <1>10, <1>11, <1>12

\* A tick that does not fail keeps the warnings.
LEMMA WarningsTimer ==
    ASSUME Basics, Basics', Warnings, TimerStep, faults' = faults
    PROVE  Warnings'
<1>. USE DEF convVars, customerVars, queueVars, history, timerOnly
<1>1. /\ TypeOK /\ TypeOK' /\ timer \in Ticks /\ latest.at \in Nat /\ latest'.at \in Nat
      /\ silentSince \in Nat /\ timer.cutoff \in Nat /\ timer'.cutoff \in Nat /\ timer.now \in Nat
      /\ timer.text \in Texts /\ gateway'.slot \in Slot /\ timer'.slot \in Slot /\ slot' \in Slot
      /\ faults \in Nat /\ SlotInOrder(timer.slot) /\ TickInOrder
  BY ConstantsAssumption DEF Basics, TypeOK, Ticks, SlotsInOrder
<1>2. slot \in Slot /\ gateway.slot \in Slot /\ timer.slot \in Slot /\ NoSlot \in Slot
  BY <1>1, MemoriesTyped, SlotsTyped
<1>3. /\ UNCHANGED <<visible, written, gateway>>
      /\ TimerInsertMessage \/ latest' = latest
  BY TimerFrame
<1>4. Warns(slot) /\ Warns(gateway.slot) /\ Warns(timer.slot) /\ Warns(NoSlot)
  BY <1>1, <1>2, SlotFields, ClearedWarns DEF Warnings
<1>5. silentSince' >= silentSince /\ warned \subseteq warned'
  <2>1. CASE TimerSend
    BY <1>1, <2>1 DEF TimerSend
  <2>2. CASE TimerCheckFollowup
    BY <1>1, <2>2, FollowupMoves DEF TimerCheckFollowup
  <2>3. CASE ~TimerSend /\ ~TimerCheckFollowup
    <3>1. silentSince' = silentSince /\ warned' = warned
      BY <2>3 DEF TimerStep, TimerStart, TimerFetch, TimerExamine, TimerDecide, TimerFinalize,
                  TimerRequestHandoff, TimerNotice, TimerSendFails, TimerInsertMessage,
                  TimerSaveSlot, TimerRecordFailure, TimerFinalCheck, TimerDeactivate,
                  TimerDeactivateFails, TimerMarkClosed, TimerCrash
    <3>. QED  BY <1>1, <3>1
  <2>. QED  BY <2>1, <2>2, <2>3
<1>6. /\ \A c \in Nat : ActivityAfter(c) => ActivityAfter(c)'
      /\ \A c \in Nat : Anchored(c) => Anchored(c)'
      /\ \A c \in Nat, t \in Texts : Anchored(c) /\ (t \in warned \/ ActivityAfter(c))
                                        => t \in warned' \/ ActivityAfter(c)'
      /\ \A s \in Slot : Warns(s) => Warns(s)'
  BY <1>1, <1>3, <1>5, WarnsStays
<1>7. \A c \in Nat : ActivityAfter(c)' <=> ActivityAfter(c)
  BY <1>3 DEF ActivityAfter
<1>8. PICK g \in Slot : g = gateway'.slot /\ Warns(g)'
  BY <1>2, <1>3, <1>4, <1>6
<1>9. PICK l \in Nat : l = latest'.at
  BY <1>1
<1>10. PICK o \in Nat : o = timer.cutoff
  BY <1>1

\* The tick ends.
<1>11. ASSUME timer' = NoTimer, latest' = latest, Warns(slot'),
              ~Suspended' => Anchored(latest.at) \/ slot'.followup # Never
       PROVE  Warnings'
  <2>1. /\ timer'.pc = "idle" /\ timer'.slot = NoSlot
    BY <1>11 DEF NoTimer
  <2>2. PICK r \in Slot : r = slot'
    BY <1>1
  <2>3. PICK s \in Slot : s = timer'.slot /\ s = NoSlot
    BY <1>2, <2>1
  <2>4. PICK c \in Nat : c = timer'.cutoff
    BY <1>1
  <2>5. Warns(r)' /\ Warns(s)'
    BY <1>4, <1>6, <1>11, <2>2, <2>3
  <2>6. ~Suspended' => Anchored(l)' \/ r.followup # Never
    BY <1>6, <1>9, <1>11, <2>2
  <2>7. timer'.pc \notin Late /\ ~InTick'
    BY <2>1 DEF Late, InTick
  <2>. QED  BY <1>8, <1>9, <2>1, <2>2, <2>3, <2>4, <2>5, <2>6, <2>7, WarningsThere

\* The tick goes on, past its check of the follow-up.
<1>12. ASSUME latest' = latest \/ timer'.pc = "inserted", Warns(slot'), timer'.pc \in Late,
              timer'.cutoff = timer.cutoff,
              Warns(timer'.slot), timer.pc \in Late,
              timer'.pc \in {"saving", "inserted"} =>
                 /\ timer'.text = timer.text
                 /\ timer.text \in warned' \/ ActivityAfter(timer.cutoff),
              timer'.pc # "inserted" /\ timer.pc = "inserted" =>
                 timer'.slot.followup # Never /\ slot'.followup # Never,
              timer.slot.followup # Never => timer'.slot.followup # Never,
              timer'.pc # "inserted" /\ timer.pc # "inserted" /\ ~Suspended' =>
                 /\ ~Suspended
                 /\ slot.followup # Never => slot'.followup # Never,
              timer'.pc \in {"closing", "deactivating"} => timer'.slot.close,
              timer'.pc # "record_failure"
       PROVE  Warnings'
  <2>1. PICK r \in Slot : r = slot'
    BY <1>1
  <2>2. PICK s \in Slot : s = timer'.slot
    BY <1>1
  <2>3. Warns(r)' /\ Warns(s)' /\ Anchored(o)'
    BY <1>6, <1>10, <1>12, <2>1, <2>2 DEF Warnings
  <2>4. timer'.pc # "examined" /\ InTick
    BY <1>12 DEF Late, InTick
  <2>5. timer'.pc \in {"saving", "inserted"} => timer'.text \in warned' \/ ActivityAfter(o)'
    BY <1>7, <1>10, <1>12
  <2>6. InTick' /\ timer'.pc # "inserted" /\ latest'.role = "assistant" =>
           Anchored(l)' \/ s.followup # Never
    BY <1>6, <1>9, <1>12, <2>2, <2>4 DEF Warnings
  <2>7. ~Suspended' /\ timer'.pc # "inserted" => Anchored(l)' \/ r.followup # Never
    BY <1>6, <1>9, <1>12, <2>1 DEF Warnings
  <2>. QED
    BY <1>8, <1>9, <1>10, <1>12, <2>1, <2>2, <2>3, <2>4, <2>5, <2>6, <2>7, WarningsThere

\* Only the point of the tick changes.
<1>13. ASSUME NEW state \in Late \ {"saving", "inserted", "record_failure"}, Goto(state),
              timer.pc \in Late \ {"saving", "inserted"}, latest' = latest, Warns(slot'),
              ~Suspended' => ~Suspended, slot.followup # Never => slot'.followup # Never,
              state \in {"closing", "deactivating"} => timer.slot.close
       PROVE  Warnings'
  <2>1. timer'.pc = state /\ timer'.slot = timer.slot /\ timer'.cutoff = timer.cutoff
    BY <1>1, <1>13 DEF Goto, Ticks
  <2>. QED  BY <1>4, <1>12, <1>13, <2>1
<1>14. CASE TimerStart
  <2>1. /\ UNCHANGED <<slot, status, latest>> /\ timer'.pc = "started" /\ timer'.slot = timer.slot
        /\ timer.pc = "idle"
    BY <1>1, <1>14 DEF TimerStart, Ticks
  <2>2. PICK r \in Slot : r = slot' /\ Warns(r)'
    BY <1>2, <1>4, <1>6, <2>1
  <2>3. PICK s \in Slot : s = timer'.slot /\ Warns(s)'
    BY <1>2, <1>4, <1>6, <2>1
  <2>4. PICK c \in Nat : c = timer'.cutoff
    BY <1>1
  <2>5. ~Suspended' => Anchored(l)' \/ r.followup # Never
    BY <1>6, <1>9, <2>1, <2>2 DEF Warnings, Suspended
  <2>6. timer'.pc \notin Late /\ ~InTick'
    BY <2>1 DEF Late, InTick
  <2>. QED  BY <1>8, <1>9, <2>1, <2>2, <2>3, <2>4, <2>5, <2>6, WarningsThere
<1>15. CASE TimerFetch
  <2>1. UNCHANGED <<slot, status, latest>> /\ timer.pc = "started"
    BY <1>15 DEF TimerFetch
  <2>2. (Suspended' <=> Suspended)
    BY <2>1 DEF Suspended
  <2>3. CASE ~Candidate
    <3>1. timer' = NoTimer
      BY <1>15, <2>3 DEF TimerFetch, EndTick
    <3>. QED  BY <1>4, <1>11, <2>1, <2>2, <3>1 DEF Warnings
  <2>4. CASE Candidate
    <3>1. timer'.pc = "fetched" /\ timer'.slot = slot
      BY <1>1, <1>15, <2>4 DEF TimerFetch, Ticks
    <3>2. PICK r \in Slot : r = slot' /\ Warns(r)' /\ r = slot
      BY <1>2, <1>4, <1>6, <2>1
    <3>3. r = timer'.slot
      BY <3>1, <3>2
    <3>4. PICK c \in Nat : c = timer'.cutoff
      BY <1>1
    <3>5. ~Suspended /\ timer'.pc \notin Late
      BY <2>4, <3>1 DEF Candidate, Suspended, Late
    <3>6. Anchored(l)' \/ r.followup # Never
      BY <1>6, <1>9, <2>1, <3>2, <3>5 DEF Warnings
    <3>. QED  BY <1>8, <1>9, <3>1, <3>2, <3>3, <3>4, <3>5, <3>6, WarningsThere
  <2>. QED  BY <2>3, <2>4
<1>16. CASE TimerExamine
  <2>1. UNCHANGED <<status, latest>> /\ timer.pc = "fetched" /\ InTick
    BY <1>16 DEF TimerExamine, InTick
  <2>2. (Suspended' <=> Suspended)
    BY <2>1 DEF Suspended
  <2>3. CASE latest.role # "assistant"
    <3>1. timer' = NoTimer /\ slot' \in {slot, ClearIdle(timer.slot)} /\ Suspended'
      BY <1>16, <2>1, <2>3 DEF TimerExamine, EndTick, Suspended
    <3>2. Warns(slot')
      BY <1>1, <1>2, <1>4, <3>1, SlotFields, SlotsTyped, ClearedWarns
    <3>. QED  BY <1>11, <2>1, <3>1, <3>2
  <2>4. CASE latest.role = "assistant" /\ timer' = NoTimer
    <3>1. slot' = slot
      BY <1>16, <2>4 DEF TimerExamine
    <3>. QED  BY <1>4, <1>11, <2>1, <2>2, <2>4, <3>1 DEF Warnings
  <2>5. CASE latest.role = "assistant" /\ timer' = [timer EXCEPT !.pc = "examined", !.cutoff = latest.at]
    <3>1. /\ slot' = slot /\ timer'.pc = "examined" /\ timer'.slot = timer.slot
          /\ timer'.cutoff = latest.at
      BY <1>1, <1>16, <2>5 DEF TimerExamine, Ticks
    <3>2. PICK r \in Slot : r = slot' /\ Warns(r)'
      BY <1>2, <1>4, <1>6, <3>1
    <3>3. PICK s \in Slot : s = timer'.slot /\ Warns(s)'
      BY <1>2, <1>4, <1>6, <3>1
    <3>4. l = timer'.cutoff /\ timer'.pc \notin Late
      BY <1>9, <2>1, <3>1 DEF Late
    <3>5. Anchored(l)' \/ s.followup # Never
      BY <1>6, <1>9, <2>1, <2>5, <3>1, <3>3 DEF Warnings
    <3>6. ~Suspended' => Anchored(l)' \/ r.followup # Never
      BY <1>6, <1>9, <2>1, <2>2, <3>1, <3>2 DEF Warnings
    <3>. QED  BY <1>8, <1>9, <3>1, <3>2, <3>3, <3>4, <3>5, <3>6, WarningsThere
  <2>. QED  BY <1>16, <2>3, <2>4, <2>5 DEF TimerExamine, EndTick
<1>17. CASE TimerCheckFollowup
  <2>1. UNCHANGED <<status, latest>> /\ timer.pc = "examined" /\ InTick
    BY <1>17 DEF TimerCheckFollowup, InTick
  <2>2. (Suspended' <=> Suspended) /\ (~Suspended => latest.role = "assistant")
    BY <2>1 DEF Suspended
  <2>3. CASE Restarts(timer.slot)
    <3>. DEFINE new == ClearIdle(timer.slot)
    <3>1. /\ new \in Slot /\ new.followup = Never /\ ~new.close /\ new.base = Never
      BY <1>2, SlotFields, SlotsTyped
    <3>2. /\ slot' = new /\ timer'.pc = "checked" /\ timer'.slot = new
          /\ timer'.cutoff = CycleCutoff(new, timer.cutoff) /\ silentSince' >= timer.cutoff
      <4>1. /\ slot' = new
            /\ timer' = [timer EXCEPT !.pc = "checked", !.slot = new,
                                      !.cutoff = CycleCutoff(new, timer.cutoff)]
            /\ silentSince' = IF timer.cutoff > silentSince THEN timer.cutoff ELSE silentSince
        BY <1>17, <2>3, FollowupMoves
      <4>2. silentSince' >= timer.cutoff
        BY <1>1, <4>1
      <4>. HIDE DEF new
      <4>. QED  BY <1>1, <4>1, <4>2 DEF Ticks
    <3>3. Warns(new)
      BY <1>1, <3>1, ClearedWarns
    <3>4. PICK r \in Slot : r = new /\ Warns(r)'
      BY <1>6, <3>1, <3>3
    <3>. HIDE DEF new
    <3>5. o = timer'.cutoff
      BY <1>10, <3>1, <3>2 DEF CycleCutoff
    <3>6. Anchored(o)'
      BY <1>10, <3>2 DEF Anchored
    <3>7. latest.role = "assistant" => Anchored(l)'
      BY <1>6, <1>9, <1>10, <2>1, <3>6 DEF Warnings
    <3>. QED  BY <1>8, <1>9, <2>1, <2>2, <3>2, <3>4, <3>5, <3>6, <3>7, WarningsThere
  <2>4. CASE ~Restarts(timer.slot)
    <3>1. /\ slot' = slot /\ timer'.pc = "checked" /\ timer'.slot = timer.slot
          /\ timer'.cutoff = CycleCutoff(timer.slot, timer.cutoff)
      BY <1>1, <1>17, <2>4, FollowupMoves DEF Ticks
    <3>2. PICK r \in Slot : r = slot' /\ Warns(r)'
      BY <1>2, <1>4, <1>6, <3>1
    <3>3. PICK s \in Slot : s = timer'.slot /\ s = timer.slot /\ Warns(s)'
      BY <1>2, <1>4, <1>6, <3>1
    <3>4. PICK c \in Nat : c = timer'.cutoff
      BY <1>1
    <3>5. Anchored(c)'
      <4>1. CASE s.followup # Never \/ s.close
        BY <3>1, <3>3, <3>4, <4>1 DEF CycleCutoff, Warns
      <4>2. CASE ~(s.followup # Never \/ s.close)
        <5>1. c = o
          BY <1>10, <3>1, <3>3, <3>4, <4>2 DEF CycleCutoff
        <5>2. Anchored(o)
          BY <1>10, <2>1, <3>3, <4>2 DEF Warnings
        <5>. QED  BY <1>6, <5>1, <5>2
      <4>. QED  BY <4>1, <4>2
    <3>6. latest.role = "assistant" => Anchored(l)' \/ s.followup # Never
      BY <1>6, <1>9, <2>1, <3>3 DEF Warnings
    <3>7. ~Suspended => Anchored(l)' \/ r.followup # Never
      BY <1>6, <1>9, <2>1, <2>2, <3>1, <3>2 DEF Warnings
    <3>. QED  BY <1>8, <1>9, <2>1, <2>2, <3>1, <3>2, <3>3, <3>4, <3>5, <3>6, <3>7, WarningsThere
  <2>. QED  BY <2>3, <2>4
<1>18. CASE TimerDecide
  <2>1. UNCHANGED <<status, slot, latest>> /\ timer.pc = "checked"
    BY <1>18 DEF TimerDecide
  <2>2. (Suspended' <=> Suspended) /\ timer.pc \in Late
    BY <2>1 DEF Suspended, Late, TimerStates
  <2>3. CASE timer' = NoTimer
    BY <1>4, <1>11, <2>1, <2>2, <2>3 DEF Warnings
  <2>4. CASE Goto("mark_closed") \/ (Goto("closing") /\ timer.slot.close)
    <3>1. {"mark_closed", "closing"} \subseteq Late \ {"saving", "inserted", "record_failure"}
      BY DEF Late, TimerStates
    <3>. QED  BY <1>4, <1>13, <2>1, <2>2, <2>4, <3>1
  <2>5. CASE timer' = [timer EXCEPT !.pc = "sending", !.text = "close"]
    <3>1. /\ timer'.pc = "sending" /\ timer'.slot = timer.slot /\ timer'.cutoff = timer.cutoff
          /\ timer'.pc \in Late
      BY <1>1, <2>5 DEF Ticks, Late, TimerStates
    <3>. QED  BY <1>4, <1>12, <2>1, <2>2, <3>1
  <2>6. CASE /\ timer' = [timer EXCEPT !.pc = "sending", !.text = "followup", !.slot.base = timer.cutoff]
             /\ ~timer.slot.close /\ timer.slot.followup = Never
    <3>1. /\ timer'.pc = "sending" /\ timer'.slot = [timer.slot EXCEPT !.base = timer.cutoff]
          /\ timer'.cutoff = timer.cutoff /\ timer'.pc \in Late
      BY <1>1, <2>6 DEF Ticks, Late, TimerStates
    <3>2. /\ timer'.slot.base = timer.cutoff /\ ~timer'.slot.close /\ timer'.slot.followup = Never
      BY <1>2, <2>6, <3>1 DEF Slot
    <3>3. Anchored(timer.cutoff)
      BY <2>2 DEF Warnings
    <3>4. Warns(timer'.slot)
      <4>1. PICK s \in Slot : s = timer'.slot
        BY <1>1
      <4>. QED  BY <1>1, <3>2, <3>3, <4>1, ClearedWarns
    <3>. QED  BY <1>4, <1>12, <2>1, <2>2, <2>6, <3>1, <3>2, <3>4
  <2>. QED  BY <1>18, <2>3, <2>4, <2>5, <2>6 DEF TimerDecide, EndTick
<1>19. CASE TimerFinalize
  <2>1. UNCHANGED <<status, slot, latest>> /\ timer.pc = "sending"
    BY <1>19 DEF TimerFinalize
  <2>2. /\ Suspended' <=> Suspended
        /\ timer.pc \in Late \ {"saving", "inserted"}
        /\ {"sent", "handing_off"} \subseteq Late \ {"saving", "inserted", "record_failure"}
    BY <2>1 DEF Suspended, Late, TimerStates
  <2>3. CASE timer' = NoTimer
    BY <1>4, <1>11, <2>1, <2>2, <2>3 DEF Warnings
  <2>4. CASE Goto("sent") \/ Goto("handing_off")
    BY <1>4, <1>13, <2>1, <2>2, <2>4
  <2>. QED  BY <1>19, <2>3, <2>4 DEF TimerFinalize, EndTick
<1>20. CASE TimerRequestHandoff
  <2>1. UNCHANGED latest /\ timer.pc = "handing_off"
    BY <1>20 DEF TimerRequestHandoff
  <2>2. /\ timer.pc \in Late \ {"saving", "inserted"}
        /\ "notice" \in Late \ {"saving", "inserted", "record_failure"}
    BY <2>1 DEF Late, TimerStates
  <2>3. CASE status \in EligibleForHandoff
    <3>1. /\ slot' = [slot EXCEPT !.failed = TRUE] /\ Goto("notice")
      BY <1>20, <2>3 DEF TimerRequestHandoff
    <3>2. slot'.base = slot.base /\ slot'.followup = slot.followup /\ slot'.close = slot.close
      BY <1>2, <3>1 DEF Slot
    <3>3. Warns(slot')
      BY <1>4, <3>2 DEF Warns, Knows
    <3>4. ~Suspended' => ~Suspended
      BY <2>1, <2>3 DEF Suspended, EligibleForHandoff
    <3>. QED  BY <1>13, <2>1, <2>2, <3>1, <3>2, <3>3, <3>4
  <2>4. CASE status \notin EligibleForHandoff
    <3>1. timer' = NoTimer /\ UNCHANGED <<status, slot>>
      BY <1>20, <2>4 DEF TimerRequestHandoff, EndTick
    <3>2. Suspended' <=> Suspended
      BY <2>1, <3>1 DEF Suspended
    <3>. QED  BY <1>4, <1>11, <2>1, <3>1, <3>2 DEF Warnings
  <2>. QED  BY <2>3, <2>4
<1>21. CASE TimerNotice
  <2>1. UNCHANGED <<status, slot, latest>> /\ timer.pc = "notice" /\ timer' = NoTimer
    BY <1>21 DEF TimerNotice, EndTick
  <2>. QED  BY <1>4, <1>11, <2>1 DEF Warnings, Suspended
<1>22. CASE TimerSend
  <2>1. /\ UNCHANGED <<status, slot, latest>> /\ timer.pc = "sent" /\ Goto("saving")
        /\ warned' = warned \cup {timer.text}
    BY <1>22 DEF TimerSend
  <2>2. /\ timer'.pc = "saving" /\ timer'.slot = timer.slot /\ timer'.cutoff = timer.cutoff
        /\ timer'.text = timer.text
    BY <1>1, <2>1 DEF Goto, Ticks
  <2>3. timer.pc \in Late /\ timer'.pc \in Late /\ (Suspended' <=> Suspended)
    BY <2>1, <2>2 DEF Late, TimerStates, Suspended
  <2>. QED  BY <1>4, <1>12, <2>1, <2>2, <2>3
<1>23. CASE TimerSendFails \/ TimerFinalCheck \/ TimerDeactivate
  <2>1. /\ UNCHANGED <<status, slot, latest>> /\ timer.pc \in {"sent", "closing", "deactivating"}
        /\ \/ timer' = NoTimer \/ Goto("mark_closed")
           \/ timer.pc = "closing" /\ Goto("deactivating")
    BY <1>1, <1>23 DEF TimerSendFails, TimerFinalCheck, TimerDeactivate, Fault, EndTick
  <2>2. /\ Suspended' <=> Suspended
        /\ timer.pc \in Late \ {"saving", "inserted"}
        /\ {"mark_closed", "deactivating"} \subseteq Late \ {"saving", "inserted", "record_failure"}
    BY <2>1 DEF Suspended, Late, TimerStates
  <2>3. CASE timer' = NoTimer
    BY <1>4, <1>11, <2>1, <2>2, <2>3 DEF Warnings
  <2>4. CASE Goto("mark_closed")
    BY <1>4, <1>13, <2>1, <2>2, <2>4
  <2>5. CASE timer.pc = "closing" /\ Goto("deactivating")
    <3>1. timer.slot.close
      BY <2>5 DEF Warnings
    <3>. QED  BY <1>4, <1>13, <2>1, <2>2, <2>5, <3>1
  <2>. QED  BY <2>1, <2>3, <2>4, <2>5
<1>24. CASE TimerDeactivateFails \/ TimerCrash
  BY <1>1, <1>24 DEF TimerDeactivateFails, TimerCrash, Fault
<1>25. CASE TimerInsertMessage
  <2>1. UNCHANGED <<status, slot>> /\ timer.pc = "saving" /\ Goto("inserted")
    BY <1>25 DEF TimerInsertMessage
  <2>2. /\ timer'.pc = "inserted" /\ timer'.slot = timer.slot /\ timer'.cutoff = timer.cutoff
        /\ timer'.text = timer.text
    BY <1>1, <2>1 DEF Goto, Ticks
  <2>3. /\ timer.pc \in Late /\ timer'.pc \in Late
        /\ timer.text \in warned' \/ ActivityAfter(timer.cutoff)
    BY <1>5, <2>1, <2>2 DEF Late, TimerStates, Warnings, Writing
  <2>. QED  BY <1>4, <1>12, <2>1, <2>2, <2>3
<1>26. CASE TimerSaveSlot
  <2>. DEFINE local == SentSlot(timer.slot, timer.text, timer.now)
  <2>1. /\ UNCHANGED <<status, latest>> /\ timer.pc = "inserted" /\ slot' = local
        /\ timer' = IF timer.text = "followup" THEN NoTimer
                    ELSE [timer EXCEPT !.pc = "closing", !.slot = local]
    BY <1>26 DEF TimerSaveSlot
  <2>2. /\ local.base = timer.slot.base
        /\ local.followup = IF timer.text = "followup" THEN timer.now ELSE timer.slot.followup
        /\ local.close <=> timer.text # "followup" \/ timer.slot.close
    BY <1>2 DEF SentSlot, Slot
  <2>3. /\ timer.cutoff = timer.slot.base /\ local.followup # Never
        /\ \A t \in Texts : Knows(local, t) => t = timer.text \/ Knows(timer.slot, t)
    <3>1. CASE timer.text = "followup"
      <4>1. timer.cutoff # Never /\ timer.cutoff <= timer.now /\ timer.cutoff = timer.slot.base
        BY <1>1, <2>1, <3>1 DEF TickInOrder, Composing
      <4>2. timer.now # Never
        BY <1>1, <4>1 DEF Never
      <4>. QED  BY <2>2, <3>1, <4>1, <4>2 DEF Knows, Texts
    <3>2. CASE timer.text = "close"
      <4>1. timer.slot.followup # Never /\ timer.cutoff = timer.slot.base
        BY <1>1, <2>1, <3>2 DEF TickInOrder, Composing, Late, TimerStates
      <4>. QED  BY <2>2, <3>2, <4>1 DEF Knows, Texts
    <3>. QED  BY <1>1, <3>1, <3>2 DEF Texts
  <2>4. Warns(local)
    <3>1. timer.text \in warned \/ ActivityAfter(timer.cutoff)
      BY <2>1 DEF Warnings, Writing
    <3>. QED  BY <1>4, <2>2, <2>3, <3>1 DEF Warns
  <2>. HIDE DEF local
  <2>5. CASE timer.text = "followup"
    BY <1>11, <2>1, <2>3, <2>4, <2>5
  <2>6. CASE timer.text # "followup"
    <3>1. /\ timer'.pc = "closing" /\ timer'.slot = local /\ timer'.cutoff = timer.cutoff
      BY <1>1, <2>1, <2>6 DEF Ticks
    <3>2. timer.pc \in Late /\ timer'.pc \in Late
      BY <2>1, <3>1 DEF Late, TimerStates
    <3>. QED  BY <1>12, <2>1, <2>2, <2>3, <2>4, <2>6, <3>1, <3>2
  <2>. QED  BY <2>5, <2>6
<1>27. CASE TimerRecordFailure
  BY <1>27 DEF TimerRecordFailure, Warnings
<1>28. CASE TimerMarkClosed
  <2>1. /\ UNCHANGED latest /\ timer.pc = "mark_closed" /\ timer' = NoTimer
        /\ slot' = [timer.slot EXCEPT !.closed = TRUE]
    BY <1>28 DEF TimerMarkClosed, EndTick
  <2>2. /\ slot'.base = timer.slot.base /\ slot'.followup = timer.slot.followup
        /\ slot'.close = timer.slot.close
    BY <1>2, <2>1 DEF Slot
  <2>3. Warns(slot')
    BY <1>4, <2>2 DEF Warns, Knows
  <2>4. ~Suspended' => Anchored(latest.at) \/ slot'.followup # Never
    BY <2>1, <2>2 DEF Warnings, Suspended, InTick
  <2>. QED  BY <1>11, <2>1, <2>3, <2>4
<1>. QED
  BY <1>14, <1>15, <1>16, <1>17, <1>18, <1>19, <1>20, <1>21, <1>22, <1>23, <1>24, <1>25, <1>26,
     <1>27, <1>28 DEF TimerStep

-----------------------------------------------------------------------------
(* When the texts were sent *)

\* The empty memory knows nothing.
LEMMA NothingSent ==
    ASSUME NEW s \in Slot, s.followup = Never, ~s.close, s.base <= clock
    PROVE  LastSent(s)
BY DEF LastSent, Knows, Texts

\* A cleared one knows of none.
LEMMA ClearedSent ==
    ASSUME NEW s \in Slot, clock \in Nat
    PROVE  ClearIdle(s) \in Slot /\ LastSent(ClearIdle(s))
<1>1. /\ ClearIdle(s) \in Slot /\ ClearIdle(s).followup = Never
      /\ ~ClearIdle(s).close /\ ClearIdle(s).base = Never
  BY SlotsTyped
<1>2. PICK c \in Slot : c = ClearIdle(s)
  BY <1>1
<1>3. c.followup = Never /\ ~c.close /\ c.base <= clock
  BY <1>1, <1>2 DEF Never
<1>. QED  BY <1>2, <1>3, NothingSent

\* A memory that knows the same texts of the same cycle.
LEMMA SameSent ==
    ASSUME NEW r \in Slot, NEW s \in Slot, LastSent(s),
           r.base = s.base, r.followup = s.followup, r.close = s.close
    PROVE  LastSent(r)
BY DEF LastSent, Knows

\* Texts are sent later and later.
LEMMA SentStays ==
    ASSUME TypeOK, TypeOK', clock <= clock', \A t \in Texts : sentAt[t] <= sentAt'[t],
           NEW s \in Slot, LastSent(s)
    PROVE  LastSent(s)'
<1>1. /\ clock \in Nat /\ clock' \in Nat /\ s.base \in Nat
      /\ \A t \in Texts : sentAt[t] \in Nat /\ sentAt'[t] \in Nat
  BY SlotFields DEF TypeOK
<1>. QED  BY <1>1 DEF LastSent, Knows

\* The sendings of the next state, told by the memories it has.
LEMMA SendingsThere ==
    ASSUME NEW p \in Slot, NEW g \in Slot, NEW s \in Slot,
           p = slot', g = gateway'.slot, s = timer'.slot,
           LastSent(p)', LastSent(g)', LastSent(s)',
           Writing' => s.base <= sentAt'[timer'.text],
           timer'.pc \in {"closing", "deactivating"} => s.close,
           timer'.pc = "deactivating" => \A m \in seen' : written'[m] <= timer'.cutoff,
           seen' \subseteq visible'
    PROVE  Sendings'
<1>1. /\ LastSent(slot)' <=> LastSent(p)'
      /\ LastSent(gateway.slot)' <=> LastSent(g)'
      /\ LastSent(timer.slot)' <=> LastSent(s)'
  BY DEF LastSent, Knows
<1>. QED  BY <1>1 DEF Sendings

\* The customer, the gateway and the others send no idle text.
LEMMA SendingsWorld ==
    ASSUME Basics, Basics', Sendings,
           CustomerWrites \/ EventStored \/ GatewayLoad \/ GatewayCommit \/ SenderStep
           \/ WorkDone \/ HandoffDone \/ AgentReply \/ ThreadEnds
    PROVE  Sendings'
<1>. USE DEF convVars, customerVars, queueVars, history
<1>1. TypeOK /\ TypeOK' /\ clock \in Nat /\ \A m \in visible : written[m] # Never /\ m \in Messages
  BY DEF Basics, TypeOK, TimesInOrder
<1>2. slot \in Slot /\ gateway.slot \in Slot /\ timer.slot \in Slot /\ NoSlot \in Slot
  BY <1>1, MemoriesTyped, SlotsTyped
<1>3. LastSent(slot) /\ LastSent(gateway.slot) /\ LastSent(timer.slot) /\ LastSent(NoSlot)
  BY <1>1, <1>2, SlotFields, NothingSent DEF Sendings, Never
<1>4. /\ timer' = timer /\ sentAt' = sentAt /\ seen' = seen
      /\ clock' \in {clock, clock + 1}
  BY DEF CustomerWrites, EventStored, GatewayLoad, GatewayCommit, SenderStep, WorkDone,
         HandoffDone, AgentReply, ThreadEnds
<1>5. slot' \in {slot, gateway.slot, NoSlot} /\ gateway'.slot \in {slot, gateway.slot, NoSlot}
  BY DEF CustomerWrites, EventStored, GatewayLoad, GatewayCommit, SenderStep, WorkDone,
         HandoffDone, AgentReply, ThreadEnds, NoGateway
<1>6. visible \subseteq visible'
  BY DEF CustomerWrites, EventStored, GatewayLoad, GatewayCommit, SenderStep, WorkDone,
         HandoffDone, AgentReply, ThreadEnds
<1>7. \A m \in visible : written'[m] = written[m]
  <2>1. CASE CustomerWrites
    BY <1>1, <2>1 DEF CustomerWrites, TypeOK
  <2>2. CASE ~CustomerWrites
    BY <2>2 DEF EventStored, GatewayLoad, GatewayCommit, SenderStep, WorkDone,
                HandoffDone, AgentReply, ThreadEnds
  <2>. QED  BY <2>1, <2>2
<1>8. ASSUME NEW s \in Slot, LastSent(s) PROVE LastSent(s)'
  <2>1. clock <= clock' /\ \A t \in Texts : sentAt[t] <= sentAt'[t]
    BY <1>1, <1>4 DEF TypeOK
  <2>. QED  BY <1>1, <1>8, <2>1, SentStays
<1>9. PICK p \in Slot : p = slot' /\ LastSent(p)'
  BY <1>2, <1>3, <1>5, <1>8
<1>10. PICK g \in Slot : g = gateway'.slot /\ LastSent(g)'
  BY <1>2, <1>3, <1>5, <1>8
<1>11. PICK s \in Slot : s = timer'.slot /\ s = timer.slot /\ LastSent(s)'
  BY <1>2, <1>3, <1>4, <1>8
<1>12. Writing' => s.base <= sentAt'[timer'.text]
  BY <1>4, <1>11 DEF Sendings, Writing
<1>13. timer'.pc \in {"closing", "deactivating"} => s.close
  BY <1>4, <1>11 DEF Sendings
<1>14. /\ timer'.pc = "deactivating" => \A m \in seen' : written'[m] <= timer'.cutoff
       /\ seen' \subseteq visible'
  BY <1>4, <1>6, <1>7 DEF Sendings
<1>. QED  BY <1>9, <1>10, <1>11, <1>12, <1>13, <1>14, SendingsThere

\* A tick sends after the base of the cycle, and its last look is at that base.
LEMMA SendingsTimer ==
    ASSUME Basics, Basics', Sendings, TimerStep
    PROVE  Sendings'
<1>. USE DEF convVars, customerVars, queueVars, history, timerOnly
<1>1. /\ TypeOK /\ TypeOK' /\ timer \in Ticks /\ clock \in Nat /\ timer.cutoff \in Nat
      /\ timer.now \in Nat /\ timer.now <= clock /\ timer.text \in Texts
      /\ sentAt \in [Texts -> Nat]
  BY DEF Basics, TypeOK, Ticks, TimesInOrder
<1>2. slot \in Slot /\ gateway.slot \in Slot /\ timer.slot \in Slot /\ NoSlot \in Slot
  BY <1>1, MemoriesTyped, SlotsTyped
<1>3. LastSent(slot) /\ LastSent(gateway.slot) /\ LastSent(timer.slot) /\ LastSent(NoSlot)
  BY <1>1, <1>2, SlotFields, NothingSent DEF Sendings, Never
<1>4. UNCHANGED <<clock, gateway, written, visible>>
  BY DEF TimerStep, TimerStart, TimerFetch, TimerExamine, TimerCheckFollowup, TimerDecide,
         TimerFinalize, TimerRequestHandoff, TimerNotice, TimerSend, TimerSendFails,
         TimerInsertMessage, TimerSaveSlot, TimerRecordFailure, TimerFinalCheck, TimerDeactivate,
         TimerDeactivateFails, TimerMarkClosed, TimerCrash
<1>5. CASE TimerSend
  <2>1. /\ timer.pc = "sent" /\ timer' = [timer EXCEPT !.pc = "saving"] /\ slot' = slot
        /\ sentAt' = [sentAt EXCEPT ![timer.text] = clock] /\ seen' = seen
    BY <1>5 DEF TimerSend, Goto
  <2>2. /\ timer'.pc = "saving" /\ timer'.slot = timer.slot /\ timer'.text = timer.text
    BY <1>1, <2>1 DEF Ticks
  <2>3. sentAt'[timer.text] = clock /\ \A t \in Texts : sentAt'[t] \in {sentAt[t], clock}
    BY <1>1, <2>1
  <2>4. ASSUME NEW s \in Slot, LastSent(s) PROVE LastSent(s)'
    <3>1. s.base <= clock
      BY <2>4 DEF LastSent
    <3>2. \A t \in Texts : Knows(s, t) => s.base <= sentAt'[t]
      BY <2>3, <2>4, <3>1 DEF LastSent
    <3>. QED  BY <1>4, <3>1, <3>2 DEF LastSent, Knows
  <2>5. PICK s \in Slot : s = timer'.slot /\ LastSent(s)' /\ s.base <= clock
    BY <1>2, <1>3, <2>2, <2>4 DEF LastSent
  <2>6. PICK p \in Slot : p = slot' /\ LastSent(p)'
    BY <1>2, <1>3, <2>1, <2>4
  <2>7. PICK g \in Slot : g = gateway'.slot /\ LastSent(g)'
    BY <1>2, <1>3, <1>4, <2>4
  <2>8. Writing' => s.base <= sentAt'[timer'.text]
    BY <2>2, <2>3, <2>5
  <2>. QED  BY <1>4, <2>1, <2>2, <2>5, <2>6, <2>7, <2>8, SendingsThere DEF Sendings
<1>6. ASSUME ~TimerSend PROVE sentAt' = sentAt
  BY <1>6
     DEF TimerStep, TimerStart, TimerFetch, TimerExamine, TimerCheckFollowup, TimerDecide,
         TimerFinalize, TimerRequestHandoff, TimerNotice, TimerSendFails,
         TimerInsertMessage, TimerSaveSlot, TimerRecordFailure, TimerFinalCheck, TimerDeactivate,
         TimerDeactivateFails, TimerMarkClosed, TimerCrash
<1>7. ASSUME sentAt' = sentAt, NEW p \in Slot, p = slot', LastSent(p),
             NEW s \in Slot, s = timer'.slot, LastSent(s),
             timer'.pc \in {"saving", "inserted"} =>
                timer.pc = "saving" /\ s = timer.slot /\ timer'.text = timer.text,
             timer'.pc \in {"closing", "deactivating"} => s.close,
             \/ timer'.pc # "deactivating" /\ seen' = seen
             \/ seen' = visible /\ \A m \in visible : written[m] <= timer'.cutoff
      PROVE  Sendings'
  <2>1. ASSUME NEW r \in Slot, LastSent(r) PROVE LastSent(r)'
    BY <1>1, <1>4, <1>7, <2>1, SentStays DEF TypeOK
  <2>2. PICK g \in Slot : g = gateway'.slot /\ LastSent(g)'
    BY <1>2, <1>3, <1>4, <2>1
  <2>3. Writing' => s.base <= sentAt'[timer'.text]
    BY <1>7 DEF Sendings, Writing
  <2>4. LastSent(p)' /\ LastSent(s)'
    BY <1>7, <2>1
  <2>. QED  BY <1>4, <1>7, <2>2, <2>3, <2>4, SendingsThere DEF Sendings
<1>8. ASSUME ~TimerSend, timer' = NoTimer, seen' = seen, NEW p \in Slot, p = slot', LastSent(p)
      PROVE  Sendings'
  <2>1. timer'.pc = "idle" /\ timer'.slot = NoSlot
    BY <1>8 DEF NoTimer
  <2>. QED  BY <1>2, <1>3, <1>6, <1>7, <1>8, <2>1
<1>9. ASSUME ~TimerSend, slot' = slot, seen' = seen, NEW state \in TimerStates, Goto(state),
             state \notin {"saving", "deactivating"}, state = "inserted" => timer.pc = "saving",
             state = "closing" => timer.slot.close
      PROVE  Sendings'
  <2>1. /\ timer'.pc = state /\ timer'.slot = timer.slot /\ timer'.text = timer.text
    BY <1>1, <1>9 DEF Goto, Ticks
  <2>. QED  BY <1>2, <1>3, <1>6, <1>7, <1>9, <2>1
<1>10. ~TimerSend \/ TimerSend
  OBVIOUS
<1>11. CASE TimerStart
  <2>1. /\ timer.pc = "idle" /\ timer'.pc = "started" /\ timer'.slot = timer.slot
        /\ slot' = slot /\ seen' = seen /\ sentAt' = sentAt
    BY <1>1, <1>11 DEF TimerStart, Ticks
  <2>. QED  BY <1>2, <1>3, <1>7, <2>1
<1>12. CASE TimerFetch
  <2>1. slot' = slot /\ seen' = seen /\ sentAt' = sentAt /\ ~TimerSend
    BY <1>12 DEF TimerFetch, TimerSend
  <2>2. \/ timer' = NoTimer
        \/ timer'.pc = "fetched" /\ timer'.slot = slot
    BY <1>1, <1>12 DEF TimerFetch, EndTick, Ticks
  <2>. QED  BY <1>2, <1>3, <1>7, <1>8, <2>1, <2>2
<1>13. CASE TimerExamine
  <2>1. /\ seen' = seen /\ sentAt' = sentAt /\ ~TimerSend
        /\ slot' = slot \/ slot' = ClearIdle(timer.slot)
    BY <1>13 DEF TimerExamine, TimerSend
  <2>2. \/ timer' = NoTimer
        \/ timer'.pc = "examined" /\ timer'.slot = timer.slot
    BY <1>1, <1>13 DEF TimerExamine, EndTick, Ticks
  <2>3. PICK p \in Slot : p = slot' /\ LastSent(p)
    <3>1. ClearIdle(timer.slot) \in Slot /\ LastSent(ClearIdle(timer.slot))
      BY <1>1, <1>2, ClearedSent
    <3>. QED  BY <1>2, <1>3, <2>1, <3>1
  <2>. QED  BY <1>2, <1>3, <1>7, <1>8, <2>1, <2>2, <2>3
<1>14. CASE TimerCheckFollowup
  <2>1. seen' = seen /\ sentAt' = sentAt /\ timer.pc = "examined"
    BY <1>14 DEF TimerCheckFollowup
  <2>2. PICK local \in {timer.slot, ClearIdle(timer.slot)} :
            /\ timer' = [timer EXCEPT !.pc = "checked", !.slot = local,
                                      !.cutoff = CycleCutoff(local, timer.cutoff)]
            /\ slot' \in {slot, local}
    BY <1>14, FollowupMoves
  <2>3. timer'.pc = "checked" /\ timer'.slot = local
    BY <1>1, <2>2 DEF Ticks
  <2>4. local \in Slot /\ LastSent(local)
    BY <1>1, <1>2, <1>3, <2>2, ClearedSent
  <2>. QED  BY <1>2, <1>3, <1>7, <2>1, <2>2, <2>3, <2>4
<1>15. CASE TimerDecide
  <2>1. slot' = slot /\ seen' = seen /\ sentAt' = sentAt /\ ~TimerSend
    BY <1>15 DEF TimerDecide, TimerSend
  <2>2. \/ timer' = NoTimer
        \/ Goto("closing") /\ timer.slot.close
        \/ Goto("mark_closed")
        \/ timer' = [timer EXCEPT !.pc = "sending", !.text = "close"]
        \/ /\ timer' = [timer EXCEPT !.pc = "sending", !.text = "followup",
                                     !.slot = [timer.slot EXCEPT !.base = timer.cutoff]]
           /\ timer.slot.followup = Never /\ ~timer.slot.close /\ timer.now >= timer.cutoff
    BY <1>15 DEF TimerDecide, EndTick
  <2>3. CASE timer' = [timer EXCEPT !.pc = "sending", !.text = "close"]
    <3>1. timer'.pc = "sending" /\ timer'.slot = timer.slot
      BY <1>1, <2>3 DEF Ticks
    <3>. QED  BY <1>2, <1>3, <1>7, <2>1, <3>1
  <2>4. CASE /\ timer' = [timer EXCEPT !.pc = "sending", !.text = "followup",
                                     !.slot = [timer.slot EXCEPT !.base = timer.cutoff]]
             /\ timer.slot.followup = Never /\ ~timer.slot.close /\ timer.now >= timer.cutoff
    <3>1. PICK s \in Slot : s = [timer.slot EXCEPT !.base = timer.cutoff]
      BY <1>1, <1>2, SlotsTyped
    <3>2. timer'.pc = "sending" /\ timer'.slot = s
      BY <1>1, <2>4, <3>1 DEF Ticks
    <3>3. s.base = timer.cutoff /\ s.followup = timer.slot.followup /\ s.close = timer.slot.close
      BY <1>2, <3>1 DEF Slot
    <3>4. s.base <= clock
      BY <1>1, <2>4, <3>3
    <3>5. LastSent(s)
      BY <2>4, <3>3, <3>4, NothingSent
    <3>. QED  BY <1>2, <1>3, <1>7, <2>1, <3>2, <3>5
  <2>. QED  BY <1>2, <1>3, <1>8, <1>9, <2>1, <2>2, <2>3, <2>4 DEF TimerStates
<1>16. CASE TimerFinalize
  <2>1. slot' = slot /\ seen' = seen /\ ~TimerSend
        /\ (timer' = NoTimer \/ Goto("sent") \/ Goto("handing_off"))
    BY <1>16 DEF TimerFinalize, EndTick, TimerSend
  <2>. QED  BY <1>2, <1>3, <1>8, <1>9, <2>1 DEF TimerStates
<1>17. CASE TimerRequestHandoff
  <2>1. /\ seen' = seen /\ sentAt' = sentAt /\ ~TimerSend
        /\ slot' = slot \/ slot' = [slot EXCEPT !.failed = TRUE]
    BY <1>17 DEF TimerRequestHandoff, TimerSend
  <2>2. \/ timer' = NoTimer
        \/ timer'.pc = "notice" /\ timer'.slot = timer.slot
    BY <1>1, <1>17 DEF TimerRequestHandoff, EndTick, Goto, Ticks
  <2>3. PICK p \in Slot : p = slot' /\ LastSent(p)
    <3>1. [slot EXCEPT !.failed = TRUE] \in Slot
      BY <1>2, SlotsTyped
    <3>2. /\ [slot EXCEPT !.failed = TRUE].base = slot.base
          /\ [slot EXCEPT !.failed = TRUE].followup = slot.followup
          /\ [slot EXCEPT !.failed = TRUE].close = slot.close
      BY <1>2 DEF Slot
    <3>3. LastSent([slot EXCEPT !.failed = TRUE])
      BY <1>2, <1>3, <3>1, <3>2, SameSent
    <3>. QED  BY <1>2, <1>3, <2>1, <3>1, <3>3
  <2>. QED  BY <1>2, <1>3, <1>7, <1>8, <2>1, <2>2, <2>3
<1>18. CASE TimerNotice \/ TimerCrash
  <2>1. slot' = slot /\ seen' = seen /\ timer' = NoTimer
    BY <1>18 DEF TimerNotice, TimerCrash, EndTick
  <2>2. ~TimerSend
    BY <1>18 DEF TimerNotice, TimerCrash, TimerSend, EndTick, NoTimer, Goto, Ticks, TypeOK, Fault
  <2>. QED  BY <1>2, <1>3, <1>8, <2>1, <2>2
<1>19. CASE TimerSendFails \/ TimerDeactivate \/ TimerDeactivateFails
  <2>1. /\ slot' = slot /\ seen' = seen
        /\ Goto("mark_closed") \/ Goto("record_failure")
    BY <1>19 DEF TimerSendFails, TimerDeactivate, TimerDeactivateFails
  <2>2. timer'.pc \in {"mark_closed", "record_failure"}
    BY <1>1, <2>1 DEF Goto, Ticks
  <2>3. ~TimerSend
    BY <1>1, <2>2 DEF TimerSend, Goto, Ticks
  <2>. QED  BY <1>9, <2>1, <2>3 DEF TimerStates
<1>20. CASE TimerInsertMessage
  <2>1. slot' = slot /\ seen' = seen /\ Goto("inserted") /\ timer.pc = "saving" /\ ~TimerSend
    BY <1>20 DEF TimerInsertMessage, TimerSend
  <2>. QED  BY <1>9, <2>1 DEF TimerStates
<1>21. CASE TimerSaveSlot
  <2>1. PICK local : local = SentSlot(timer.slot, timer.text, timer.now)
    OBVIOUS
  <2>2. /\ slot' = local /\ timer.pc = "inserted" /\ seen' = seen /\ sentAt' = sentAt /\ ~TimerSend
        /\ timer' = IF timer.text = "followup" THEN NoTimer
                    ELSE [timer EXCEPT !.pc = "closing", !.slot = local]
    BY <1>21, <2>1 DEF TimerSaveSlot, TimerSend
  <2>3. /\ local \in Slot /\ local.base = timer.slot.base
        /\ \A t \in Texts : Knows(local, t) => t = timer.text \/ Knows(timer.slot, t)
        /\ timer.text # "followup" => local.close
    <3>1. CASE timer.text = "followup"
      <4>1. local = [timer.slot EXCEPT !.followup = timer.now]
        BY <2>1, <3>1 DEF SentSlot
      <4>. QED  BY <1>1, <1>2, <3>1, <4>1 DEF Slot, Knows, Texts
    <3>2. CASE timer.text # "followup"
      <4>1. local = [timer.slot EXCEPT !.close = TRUE] /\ timer.text = "close"
        BY <1>1, <2>1, <3>2 DEF SentSlot, Texts
      <4>. QED  BY <1>1, <1>2, <4>1 DEF Slot, Knows, Texts
    <3>. QED  BY <3>1, <3>2
  <2>4. LastSent(local)
    <3>1. timer.slot.base <= clock /\ timer.slot.base <= sentAt[timer.text]
      BY <1>3, <2>2 DEF LastSent, Sendings, Writing
    <3>. QED  BY <1>3, <2>3, <3>1 DEF LastSent
  <2>5. CASE timer.text = "followup"
    BY <1>8, <2>2, <2>3, <2>4, <2>5
  <2>6. CASE timer.text # "followup"
    <3>1. timer'.pc = "closing" /\ timer'.slot = local
      BY <1>1, <2>2, <2>6 DEF Ticks
    <3>. QED  BY <1>7, <2>2, <2>3, <2>4, <2>6, <3>1
  <2>. QED  BY <2>5, <2>6
<1>22. CASE TimerRecordFailure
  <2>1. slot' = timer.slot /\ seen' = seen /\ timer' = NoTimer /\ timer.pc = "record_failure"
    BY <1>22 DEF TimerRecordFailure, EndTick
  <2>. QED  BY <1>2, <1>3, <1>8, <2>1 DEF TimerSend
<1>23. CASE TimerMarkClosed
  <2>1. /\ slot' = [timer.slot EXCEPT !.closed = TRUE] /\ seen' = seen /\ timer' = NoTimer
        /\ timer.pc = "mark_closed"
    BY <1>23 DEF TimerMarkClosed, EndTick
  <2>2. slot' \in Slot /\ slot'.base = timer.slot.base /\ slot'.followup = timer.slot.followup
        /\ slot'.close = timer.slot.close
    BY <1>2, <2>1 DEF Slot
  <2>3. PICK p \in Slot : p = slot' /\ LastSent(p)
    BY <1>2, <1>3, <2>2, SameSent
  <2>. QED  BY <1>8, <2>1, <2>3 DEF TimerSend
<1>24. CASE TimerFinalCheck
  <2>1. slot' = slot /\ sentAt' = sentAt /\ timer.pc = "closing" /\ ~TimerSend
    BY <1>24 DEF TimerFinalCheck, TimerSend
  <2>2. CASE ActivityAfter(timer.cutoff)
    BY <1>2, <1>3, <1>8, <1>24, <2>1, <2>2 DEF TimerFinalCheck, EndTick
  <2>3. CASE ~ActivityAfter(timer.cutoff)
    <3>1. seen' = visible /\ timer' = [timer EXCEPT !.pc = "deactivating"]
      BY <1>24, <2>3 DEF TimerFinalCheck, Goto
    <3>2. timer'.pc = "deactivating" /\ timer'.slot = timer.slot /\ timer'.cutoff = timer.cutoff
      BY <1>1, <3>1 DEF Ticks
    <3>3. \A m \in visible : written[m] <= timer.cutoff
      BY <1>1, <2>3 DEF ActivityAfter, TypeOK
    <3>4. timer.slot.close
      BY <2>1 DEF Sendings
    <3>. QED  BY <1>2, <1>3, <1>7, <2>1, <3>1, <3>2, <3>3, <3>4
  <2>. QED  BY <2>2, <2>3
<1>. QED
  BY <1>5, <1>11, <1>12, <1>13, <1>14, <1>15, <1>16, <1>17, <1>18, <1>19, <1>20, <1>21, <1>22,
     <1>23, <1>24 DEF TimerStep

\* At the last look the texts that the tick knows have been received in this
\* silence, both of them.
LEMMA ClosingWarned ==
    ASSUME Basics, Warnings, timer.pc = "closing", ~ActivityAfter(timer.cutoff)
    PROVE  warned = Texts
<1>1. /\ timer.slot.close /\ timer.slot.followup # Never
      /\ timer.cutoff = timer.slot.base /\ warned \subseteq Texts
  BY DEF Basics, Warnings, SlotsInOrder, SlotInOrder, TickInOrder, Late, TimerStates, TypeOK
<1>2. \A t \in Texts : Knows(timer.slot, t)
  BY <1>1 DEF Knows
<1>. QED  BY <1>1, <1>2 DEF Warnings, Warns

\* From the last look to the call of deactivate_chat the warnings stand.
LEMMA StillWarnedStays ==
    ASSUME Basics, Warnings, StillWarned, Next
    PROVE  StillWarned'
<1>. USE DEF convVars, customerVars, queueVars, history, timerOnly
<1>1. SUFFICES ASSUME timer'.pc = "deactivating" PROVE warned' = Texts
  BY DEF StillWarned
<1>2. timer \in Ticks
  BY DEF Basics, TypeOK, Ticks
<1>3. CASE CustomerWrites \/ EventStored \/ GatewayLoad \/ GatewayCommit \/ SenderStep
           \/ WorkDone \/ HandoffDone \/ AgentReply \/ ThreadEnds
  <2>1. timer' = timer
    BY <1>3 DEF CustomerWrites, EventStored, GatewayLoad, GatewayCommit, SenderStep, WorkDone,
                HandoffDone, AgentReply, ThreadEnds
  <2>2. timer.pc = "deactivating" /\ warned = Texts
    BY <1>1, <2>1 DEF StillWarned
  <2>3. warned' = warned
    BY <1>3, <2>2 DEF CustomerWrites, EventStored, GatewayLoad, GatewayCommit, SenderStep,
                WorkDone, HandoffDone, AgentReply, ThreadEnds
  <2>. QED  BY <2>2, <2>3
<1>4. CASE TimerFinalCheck
  <2>1. timer.pc = "closing" /\ ~ActivityAfter(timer.cutoff) /\ warned' = warned
    BY <1>1, <1>4 DEF TimerFinalCheck, EndTick, NoTimer
  <2>. QED  BY <2>1, ClosingWarned
<1>5. CASE TimerStep /\ ~TimerFinalCheck
  <2>1. timer' = NoTimer
        \/ \E state \in TimerStates \ {"deactivating"} : timer'.pc = state
    BY <1>2, <1>5 DEF Ticks, Goto, EndTick, TimerStep, TimerStart, TimerFetch, TimerExamine,
         TimerCheckFollowup, TimerDecide, TimerFinalize, TimerRequestHandoff, TimerNotice,
         TimerSend, TimerSendFails, TimerInsertMessage, TimerSaveSlot, TimerRecordFailure,
         TimerDeactivate, TimerDeactivateFails, TimerMarkClosed, TimerCrash, TimerStates
  <2>. QED  BY <1>1, <2>1 DEF NoTimer
<1>. QED  BY <1>3, <1>4, <1>5 DEF Next

-----------------------------------------------------------------------------
(* The invariant *)

\* Only the timer fails, once at a time.
LEMMA FaultsGrow ==
    ASSUME TypeOK, Next
    PROVE  faults' = faults \/ faults' # 0
<1>1. faults' = faults \/ faults' = faults + 1
  BY DEF Next, CustomerWrites, EventStored, GatewayLoad, GatewayCommit, SenderStep, WorkDone,
         HandoffDone, AgentReply, ThreadEnds, TimerStep, TimerStart, TimerFetch, TimerExamine,
         TimerCheckFollowup, TimerDecide, TimerFinalize, TimerRequestHandoff, TimerNotice,
         TimerSend, TimerSendFails, TimerInsertMessage, TimerSaveSlot, TimerRecordFailure,
         TimerFinalCheck, TimerDeactivate, TimerDeactivateFails, TimerMarkClosed, TimerCrash, Fault
<1>2. faults \in Nat
  BY Finite
<1>. QED  BY <1>1, <1>2

\* Initially nobody has written, and nothing is told or owed.
LEMMA InitInv == Init => Inv
<1>. SUFFICES ASSUME Init PROVE Inv
  OBVIOUS
<1>. USE DEF Init, NoTimer, NoGateway, Never
<1>1. TypeOK
  <2>1. /\ slot \in Slot /\ timer.slot \in Slot
        /\ gateway \in [pc : {"idle", "graph", "suspended"}, slot : Slot]
    BY SlotsTyped
  <2>2. timer \in Ticks
    BY SlotsTyped DEF Ticks, Statuses, TimerStates, Texts
  <2>3. processed \in 0 .. MaxMessages /\ faults \in 0 .. MaxFaults
    BY ConstantsAssumption
  <2>4. latest \in [role : {"none", "customer", "assistant"}, at : Nat] /\ written \in [Messages -> Nat]
    OBVIOUS
  <2>. QED  BY <2>1, <2>2, <2>3, <2>4 DEF TypeOK, Ticks, Statuses
<1>2. GatewayHasEvent /\ TimesInOrder /\ TickInOrder /\ SilenceInOrder
  BY DEF GatewayHasEvent, TimesInOrder, InTick, TickInOrder, Late, Composing, SilenceInOrder
<1>3. SlotInOrder(NoSlot) /\ NoSlot \in Slot /\ NoSlot.followup = Never /\ ~NoSlot.close
      /\ NoSlot.base = Never
  BY SlotFields, SlotsTyped
<1>4. SlotsInOrder
  BY <1>3 DEF SlotsInOrder, SlotInOrder
<1>5. RepeatsPaid
  <2>1. NoRepeatedText
    BY FS_EmptySet DEF NoRepeatedText
  <2>. QED  BY <2>1 DEF RepeatsPaid, TickPaid, TablePaid, LatecomerPaid, InTick, Suspended
<1>6. Warnings
  <2>1. Warns(NoSlot)
    BY <1>1, <1>3, ClearedWarns
  <2>. QED  BY <2>1 DEF Warnings, Late, InTick, Suspended, Writing
<1>7. Sendings
  <2>1. LastSent(NoSlot)
    BY <1>1, <1>3, NothingSent
  <2>. QED  BY <2>1 DEF Sendings, Writing
<1>8. StillWarned
  BY DEF StillWarned
<1>. QED  BY <1>1, <1>2, <1>4, <1>5, <1>6, <1>7, <1>8 DEF Inv

\* Every step keeps the invariant.
LEMMA NextInv == Inv /\ [Next]_vars => Inv'
<1>. SUFFICES ASSUME Inv, [Next]_vars PROVE Inv'
  OBVIOUS
<1>1. /\ Basics /\ RepeatsPaid /\ SilenceInOrder /\ Sendings /\ TypeOK
      /\ faults = 0 => Warnings /\ StillWarned
  BY DEF Inv, Basics
<1>2. ASSUME Basics', RepeatsPaid', SilenceInOrder', Sendings',
             (faults = 0 => Warnings /\ StillWarned)'
      PROVE  Inv'
  BY <1>2 DEF Inv, Basics
<1>3. CASE Next
  <2>1. faults' = faults \/ faults' # 0
    BY <1>1, <1>3, FaultsGrow
  <2>2. CASE TimerStep
    <3>1. Basics'
      BY <1>1, <2>2, BasicsTimer
    <3>2. RepeatsPaid'
      BY <1>1, <2>2, <3>1, PaidTimer
    <3>3. SilenceInOrder'
      BY <1>1, <2>2, SilenceStays
    <3>4. (faults = 0 => Warnings /\ StillWarned)'
      BY <1>1, <1>3, <2>1, <2>2, <3>1, WarningsTimer, StillWarnedStays
    <3>5. Sendings'
      BY <1>1, <2>2, <3>1, SendingsTimer
    <3>. QED  BY <1>2, <3>1, <3>2, <3>3, <3>4, <3>5
  <2>3. CASE CustomerWrites \/ EventStored \/ GatewayLoad \/ GatewayCommit \/ SenderStep
             \/ WorkDone \/ HandoffDone \/ AgentReply \/ ThreadEnds
    <3>1. Basics'
      BY <1>1, <2>3, BasicsWorld
    <3>2. RepeatsPaid'
      BY <1>1, <2>3, <3>1, PaidWorld
    <3>3. SilenceInOrder'
      BY <1>1, <2>3, SilenceStays
    <3>4. (faults = 0 => Warnings /\ StillWarned)'
      BY <1>1, <1>3, <2>1, <2>3, <3>1, WarningsWorld, StillWarnedStays
    <3>5. Sendings'
      BY <1>1, <2>3, <3>1, SendingsWorld
    <3>. QED  BY <1>2, <3>1, <3>2, <3>3, <3>4, <3>5
  <2>. QED  BY <1>3, <2>2, <2>3 DEF Next
<1>4. CASE UNCHANGED vars
  <2>. USE <1>4 DEF vars, convVars, customerVars, queueVars, history
  <2>1. TypeOK' /\ GatewayHasEvent' /\ TimesInOrder' /\ SlotsInOrder' /\ TickInOrder'
    BY <1>1 DEF Basics, TypeOK, GatewayHasEvent, TimesInOrder, InTick, SlotsInOrder, SlotInOrder,
                TickInOrder
  <2>2. SilenceInOrder'
    BY <1>1 DEF SilenceInOrder
  <2>3. Memory' = Memory /\ (Writing' <=> Writing) /\ (InTick' <=> InTick)
        /\ (Suspended' <=> Suspended)
    BY DEF Memory, Writing, InTick, Suspended
  <2>4. \A c \in Nat : ActivityAfter(c)' <=> ActivityAfter(c)
    BY DEF ActivityAfter
  <2>5. Alike(Memory', Memory) /\ Alike(slot', slot)
    BY <2>3 DEF Alike
  <2>6. RepeatsPaid'
    BY <1>1, <2>1, <2>3, <2>4, <2>5, PaidQuietly
  <2>7. Warnings' <=> Warnings
    <3>1. /\ \A s : Warns(s)' <=> Warns(s)
          /\ \A c : Anchored(c)' <=> Anchored(c)
          /\ \A c : ActivityAfter(c)' <=> ActivityAfter(c)
      BY DEF Warns, Anchored, Knows, ActivityAfter
    <3>2. /\ Warns(slot)' <=> Warns(slot)
          /\ Warns(gateway.slot)' <=> Warns(gateway.slot)
          /\ Warns(timer.slot)' <=> Warns(timer.slot)
          /\ Anchored(timer.cutoff)' <=> Anchored(timer.cutoff)
          /\ Anchored(latest.at)' <=> Anchored(latest.at)
          /\ ActivityAfter(timer.cutoff)' <=> ActivityAfter(timer.cutoff)
      BY <3>1 DEF Warns, Anchored, Knows, ActivityAfter
    <3>. QED  BY <2>3, <3>2 DEF Warnings
  <2>8. Sendings'
    <3>1. /\ LastSent(slot)' <=> LastSent(slot)
          /\ LastSent(gateway.slot)' <=> LastSent(gateway.slot)
          /\ LastSent(timer.slot)' <=> LastSent(timer.slot)
      BY DEF LastSent, Knows
    <3>. QED  BY <1>1, <2>3, <3>1 DEF Sendings
  <2>9. StillWarned' <=> StillWarned
    BY DEF StillWarned
  <2>. QED  BY <1>1, <1>2, <2>1, <2>2, <2>6, <2>7, <2>8, <2>9 DEF Basics
<1>. QED  BY <1>3, <1>4

\* The inductive invariant: the memories of the timer are in order, and
\* repetitions and warnings are accounted for in each of them.
THEOREM IdleTimerInvariant == Spec => []Inv
<1>. QED  BY InitInv, NextInv, PTL DEF Spec

\* Every variable has its type.
THEOREM TypeCorrect == Spec => []TypeOK
<1>1. Inv => TypeOK
  BY DEF Inv
<1>. QED  BY <1>1, IdleTimerInvariant, PTL

\* A silent customer is asked the same thing again only for a failure of the
\* timer or a message of theirs, however the gateway's and the timer's writes of
\* slot_memory overtake each other.
THEOREM RepetitionsPaid == Spec => []NoRepeatedText
<1>1. Inv => NoRepeatedText
  BY DEF Inv, RepeatsPaid
<1>. QED  BY <1>1, IdleTimerInvariant, PTL

\* Every message that the last look sees is older than the assistant message at
\* which the cycle began, and the texts the tick knows were sent after it.  Without a failure of the timer both were delivered in the
\* silence that was counted, and still stand as warnings at the call.
LEMMA DisconnectsWarned ==
    ASSUME Inv, Disconnects
    PROVE  /\ \A m \in seen, t \in Texts : sentAt[t] >= written[m]
           /\ faults = 0 => warned = Texts
<1>1. timer.pc = "deactivating" /\ timer.slot.close /\ timer.slot.followup # Never
  BY DEF Disconnects, Inv, Sendings, SlotsInOrder, SlotInOrder
<1>2. timer.cutoff = timer.slot.base
  BY <1>1 DEF Inv, TickInOrder, Late, TimerStates
<1>3. \A t \in Texts : timer.slot.base <= sentAt[t]
  BY <1>1 DEF Inv, Sendings, LastSent, Knows
<1>4. \A m \in seen : written[m] <= timer.slot.base
  BY <1>1, <1>2 DEF Inv, Sendings
<1>5. \A m \in seen, t \in Texts : written[m] \in Nat /\ sentAt[t] \in Nat
  BY DEF Inv, TypeOK
<1>6. timer.slot.base \in Nat
  BY <1>2 DEF Inv, TypeOK
<1>7. \A m \in seen, t \in Texts : sentAt[t] >= written[m]
  BY <1>3, <1>4, <1>5, <1>6
<1>8. faults = 0 => warned = Texts
  BY <1>1 DEF Inv, StillWarned
<1>. QED  BY <1>7, <1>8

\* deactivate_chat disconnects a customer only when both idle texts were sent after
\* they wrote the last of the messages the timer saw in its last look, whatever
\* failed; without a failure both were delivered in the silence counted and still
\* stand when the call is made.
THEOREM ClosedOnlyWarned == Spec => WarnedBeforeClosing
<1>1. Inv /\ [Next]_vars =>
        [Disconnects =>
            /\ \A m \in seen, t \in Texts : sentAt[t] >= written[m]
            /\ faults = 0 => warned = Texts]_vars
  BY DisconnectsWarned
<1>. QED  BY <1>1, IdleTimerInvariant, PTL DEF Spec, WarnedBeforeClosing

\* A conversation that waits for a human or has one never falls back.
LEMMA HandoffStays ==
    ASSUME Next
    PROVE  /\ status = "HUMAN_ACTIVE" => status' \in {"HUMAN_ACTIVE", "CLOSED"}
           /\ status = "HANDOFF_REQUESTED" =>
                 status' \in {"HANDOFF_REQUESTED", "HUMAN_ACTIVE", "CLOSED"}
<1>1. CASE WorkDone
  <2>1. status' = status \/ status \notin Locked
    BY <1>1, Zenon DEF WorkDone
  <2>. QED  BY <2>1 DEF Locked
<1>2. CASE ~WorkDone
  BY <1>2 DEF Next, CustomerWrites, EventStored, GatewayLoad, GatewayCommit, SenderStep,
         HandoffDone, AgentReply, ThreadEnds, TimerStep, TimerStart, TimerFetch, TimerExamine,
         TimerCheckFollowup, TimerDecide, TimerFinalize, TimerRequestHandoff, TimerNotice,
         TimerSend, TimerSendFails, TimerInsertMessage, TimerSaveSlot, TimerRecordFailure,
         TimerFinalCheck, TimerDeactivate, TimerDeactivateFails, TimerMarkClosed, TimerCrash,
         timerOnly, convVars, Locked, EligibleForHandoff
<1>. QED  BY <1>1, <1>2

\* Nothing but the timer's closing takes a conversation from whom it waits for.
THEOREM HandoffsKept == Spec => HandoffNotTakenBack
<1>1. [Next]_vars =>
        [/\ status = "HUMAN_ACTIVE" => status' \in {"HUMAN_ACTIVE", "CLOSED"}
         /\ status = "HANDOFF_REQUESTED" =>
               status' \in {"HANDOFF_REQUESTED", "HUMAN_ACTIVE", "CLOSED"}]_vars
  BY HandoffStays
<1>. QED  BY <1>1, PTL DEF Spec, HandoffNotTakenBack
=============================================================================
