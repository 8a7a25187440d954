------------------------- MODULE TelegramCase_proofs -------------------------
(***************************************************************************)
(* Proofs about TelegramCase for any number of workers, consumers, threads *)
(* and faults: the rows of a case agree with what the customer and the     *)
(* group have seen, and one consumer queues the answers in order.          *)
(***************************************************************************)
EXTENDS TelegramCase, WellFoundedInduction, SequenceTheorems, TLAPS

-----------------------------------------------------------------------------
(* The command workers *)

WorkerPoints == {"idle", "check", "card", "emit", "mark_sent", "reserve", "cancel", "route", "post",
                 "record", "uncertain", "retryable", "mark_uncertain", "mark_failed"}
Work == [pc : WorkerPoints, cmd : Threads, card : 0 .. MaxCards]
Commands == [st : RowStatuses, retry : Nat, locked : BOOLEAN, card : 0 .. MaxCards]
Busy(w) == worker[w].pc # "idle"
Reminding == {"reserve", "cancel", "route", "post", "record", "uncertain", "retryable"}

\* What a worker at work knows of its command.
AtWork(w) ==
    /\ command[worker[w].cmd].locked /\ command[worker[w].cmd].st # "none"
    /\ worker[w].pc \in {"card", "emit"} => worker[w].cmd = 1
    /\ worker[w].pc = "emit" => worker[w].card \in 1 .. cards
    /\ worker[w].cmd # 1 => worker[w].card \in Cards
    /\ worker[w].pc \in Reminding => worker[w].cmd # 1

\* A command has one worker, and a reminder its case.
WorkInOrder ==
    /\ worker \in [Workers -> Work]
    /\ \A w \in Workers : Busy(w) => AtWork(w)
    /\ \A v, w \in Workers : Busy(v) /\ Busy(w) /\ worker[v].cmd = worker[w].cmd => v = w
    /\ \A t \in Threads : t # 1 /\ command[t].st # "none" => command[t].card \in Cards

\* Where a reminder stands for the worker that posts it; it is out only when its
\* row says that it may be.
MaybeOut == {"sending", "sent", "delivery_uncertain"}
RemindersInOrder ==
    /\ \A t \in Threads :
          reminded[t] # 0 => reminded[t] = 1 /\ followup[t].st \in MaybeOut
    /\ \A w \in Workers :
          /\ worker[w].pc \in {"cancel", "route"} =>
                followup[worker[w].cmd].st \in {"reserved", "canceled"}
          /\ worker[w].pc \in {"post", "record", "uncertain", "retryable"} =>
                followup[worker[w].cmd].st = "sending"
          /\ worker[w].pc \in {"post", "retryable"} => reminded[worker[w].cmd] = 0

\* Numbers are bounded, so there is a greatest one.
NumbersBounded == \E bound \in Nat : \A t \in Threads : followup[t].number <= bound

-----------------------------------------------------------------------------
(* The reply consumers *)

Reading == [pc : {"idle", "fetch", "look", "insert", "deliver", "record", "save"}, update : Nat,
            last : Nat, card : 0 .. MaxCards, st : CaseStatuses, thread : Threads]
InBatch(c) == consumer[c].pc \notin {"idle", "fetch"}
Delivers(c, u) == consumer[c].pc = "deliver" /\ consumer[c].update = u

\* A consumer reads the updates of its batch, which have been posted.
ReadingInOrder ==
    /\ consumer \in [Consumers -> Reading]
    /\ Len(posted) <= setup.replies
    /\ \A c \in Consumers :
          /\ ~InBatch(c) => consumer[c].update = 0 /\ consumer[c].last = 0
          /\ InBatch(c) => consumer[c].update \in 1 .. consumer[c].last
          /\ consumer[c].last <= Len(posted)
          /\ consumer[c].pc \in {"insert", "deliver", "record"} => consumer[c].card \in Cards

\* The consumer that wrote the result row is the only one to deliver it, once.
AnswersInOrder ==
    /\ \A u \in Updates :
          /\ queued[u] # 0 => queued[u] = 1 /\ result[u].st # "none"
          /\ \A c \in Consumers : Delivers(c, u) => result[u].st # "none" /\ queued[u] = 0
    /\ \A u \in Updates : \A c, d \in Consumers : Delivers(c, u) /\ Delivers(d, u) => c = d

-----------------------------------------------------------------------------
(* The customer *)

Turns == [thread : 0 .. NThreads, confirms : BOOLEAN, card : 0 .. MaxCards, st : CaseStatuses]
TurnInOrder ==
    /\ turn \in Turns
    /\ turn # NoTurn => turn.thread \in Threads \ {1} /\ turn.card \in Cards

\* A dispute has its reminder, also where a consumer carries an older status.
AnyReminder == \E t \in Threads : t > 1 /\ command[t].st # "none"
Disputed ==
    \/ \E k \in Cards : case[k].st = "completion_disputed"
    \/ \E c \in Consumers : consumer[c].st = "completion_disputed"
DisputesInOrder == Disputed => AnyReminder

Shape == TypeOK /\ WorkInOrder /\ ReadingInOrder /\ TurnInOrder
Inv ==
    /\ Shape /\ RemindersInOrder /\ NumbersDistinct /\ NumbersBounded /\ AnswersInOrder
    /\ DisputesInOrder

-----------------------------------------------------------------------------
(* Types *)

\* Thread 1 exists.
LEMMA Numbers ==
    /\ NThreads \in Nat \ {0} /\ MaxCards \in Nat \ {0} /\ MaxReplies \in Nat
    /\ 1 \in Threads /\ Threads \subseteq Nat /\ Cards \subseteq Nat /\ Updates \subseteq Nat
    /\ 0 \notin Cards /\ 0 \in 0 .. MaxCards /\ Cards \subseteq 0 .. MaxCards
BY ConstantsAssumption DEF Threads, Cards, Updates

\* The greater of two numbers.
LEMMA MaxPair ==
    ASSUME NEW a \in Nat, NEW b \in Nat
    PROVE  Max({a, b}) = IF a >= b THEN a ELSE b
BY DEF Max

\* A worker that has nothing to do, and rows that are given back.
LEMMA RowsTyped ==
    /\ NoWork \in Work /\ NoWork.pc = "idle"
    /\ \A row \in Commands : /\ Failed(row) \in Commands /\ Failed(row).card = row.card
                             /\ Failed(row).st # "none"
    /\ \A row \in Commands, st \in RowStatuses :
          /\ Settled(row, st) \in Commands /\ Settled(row, st).card = row.card
          /\ Settled(row, st).st = st
<1>1. NoWork \in Work /\ NoWork.pc = "idle"
  BY Numbers DEF NoWork, Work, WorkerPoints
<1>2. ASSUME NEW row \in Commands
      PROVE  /\ Failed(row) \in Commands /\ Failed(row).card = row.card
             /\ Failed(row).st # "none"
  <2>1. row.retry \in Nat /\ row.card \in 0 .. MaxCards /\ row.st \in RowStatuses
    BY DEF Commands
  <2>2. /\ Failed(row).card = row.card /\ Failed(row).locked = FALSE
        /\ Failed(row).retry = row.retry + 1 /\ Failed(row).st \in {"FAILED", "PENDING"}
    BY <2>1 DEF Failed, Commands
  <2>3. Failed(row) \in Commands
    <3>. DEFINE next == IF row.retry + 2 >= MaxRetries THEN "FAILED" ELSE "PENDING"
    <3>1. Failed(row) = [row EXCEPT !.retry = @ + 1, !.locked = FALSE, !.st = next]
      BY DEF Failed
    <3>2. next \in RowStatuses
      BY DEF RowStatuses
    <3>. HIDE DEF next
    <3>3. Failed(row) = [st |-> next, retry |-> row.retry + 1, locked |-> FALSE, card |-> row.card]
      BY <3>1 DEF Commands
    <3>. QED  BY <2>1, <3>2, <3>3 DEF Commands
  <2>. QED  BY <2>2, <2>3
<1>3. ASSUME NEW row \in Commands, NEW st \in RowStatuses
      PROVE  /\ Settled(row, st) \in Commands /\ Settled(row, st).card = row.card
             /\ Settled(row, st).st = st
  BY DEF Settled, Commands
<1>. QED  BY <1>1, <1>2, <1>3

\* A worker that goes on with its command keeps the work in order.
LEMMA WorkGoesOn ==
    ASSUME Shape, NEW w \in Workers, NEW new \in Work, Busy(w), new.cmd = worker[w].cmd,
           worker' = [worker EXCEPT ![w] = new], command' = command,
           cards \in Nat, cards' \in Nat, cards' >= cards,
           new.pc \in {"card", "emit"} => new.cmd = 1,
           new.pc = "emit" => new.card \in 1 .. cards',
           new.card = worker[w].card \/ new.cmd = 1,
           new.pc \in Reminding => new.cmd # 1
    PROVE  WorkInOrder'
<1>1. worker \in [Workers -> Work] /\ worker' \in [Workers -> Work]
  BY DEF Shape, WorkInOrder
<1>2. ASSUME NEW v \in Workers, Busy(v)' PROVE AtWork(v)' /\ Busy(v) /\ worker'[v].cmd = worker[v].cmd
  <2>1. CASE v = w
    <3>1. worker'[v] = new
      BY <1>1, <2>1
    <3>. QED  BY <2>1, <3>1 DEF Shape, WorkInOrder, AtWork
  <2>2. CASE v # w
    <3>1. worker'[v] = worker[v]
      BY <1>1, <2>2
    <3>2. Busy(v) /\ AtWork(v)
      BY <1>2, <3>1 DEF Busy, Shape, WorkInOrder
    <3>. QED  BY <3>1, <3>2 DEF AtWork
  <2>. QED  BY <2>1, <2>2
<1>3. ASSUME NEW u \in Workers, NEW v \in Workers, Busy(u)', Busy(v)', worker'[u].cmd = worker'[v].cmd
      PROVE  u = v
  BY <1>2, <1>3 DEF Shape, WorkInOrder
<1>. QED  BY <1>1, <1>2, <1>3 DEF Shape, WorkInOrder

\* A worker that gives its command back keeps the work in order.
LEMMA WorkEnds ==
    ASSUME Shape, NEW w \in Workers, NEW t \in Threads, NEW row \in Commands, Busy(w),
           t = worker[w].cmd, row.st # "none", row.card = command[t].card,
           worker' = [worker EXCEPT ![w] = NoWork],
           command' = [command EXCEPT ![t] = row] \/ command' = command,
           cards \in Nat, cards' \in Nat, cards' >= cards
    PROVE  WorkInOrder'
<1>1. worker \in [Workers -> Work] /\ worker' \in [Workers -> Work]
  BY RowsTyped DEF Shape, WorkInOrder
<1>2. command \in [Threads -> Commands]
  BY DEF Shape, TypeOK, Commands
<1>3. ASSUME NEW v \in Workers, Busy(v)' PROVE AtWork(v)' /\ Busy(v) /\ worker'[v].cmd = worker[v].cmd
  <2>1. v # w
    BY <1>1, <1>3, RowsTyped DEF Busy
  <2>2. worker'[v] = worker[v]
    BY <1>1, <2>1
  <2>3. Busy(v) /\ AtWork(v) /\ worker[v].cmd # t
    BY <1>3, <2>1, <2>2 DEF Busy, Shape, WorkInOrder
  <2>4. worker[v].cmd \in Threads
    BY <1>1 DEF Work
  <2>5. command'[worker[v].cmd] = command[worker[v].cmd]
    BY <1>2, <2>3, <2>4
  <2>. QED  BY <2>2, <2>3, <2>5 DEF AtWork
<1>4. ASSUME NEW u \in Workers, NEW v \in Workers, Busy(u)', Busy(v)', worker'[u].cmd = worker'[v].cmd
      PROVE  u = v
  BY <1>3, <1>4 DEF Shape, WorkInOrder
<1>5. ASSUME NEW s \in Threads, s # 1, command'[s].st # "none" PROVE command'[s].card \in Cards
  <2>1. CASE s = t
    <3>1. command[s].card \in Cards
      BY <1>5, <2>1 DEF Shape, WorkInOrder, AtWork
    <3>. QED  BY <1>2, <2>1, <3>1
  <2>2. CASE s # t
    <3>1. command'[s] = command[s]
      BY <1>2, <2>2
    <3>. QED  BY <1>5, <3>1 DEF Shape, WorkInOrder
  <2>. QED  BY <2>1, <2>2
<1>. QED  BY <1>1, <1>3, <1>4, <1>5 DEF Shape, WorkInOrder

\* What the workers leave alone.
WorldFrame == UNCHANGED <<setup, posted, offset, consumer, result, queued, conv, opened, turn, turns>>

\* A worker's step that keeps its own types keeps all of them.
LEMMA ShapeFromWorker ==
    ASSUME Shape, WorldFrame, WorkInOrder', command' \in [Threads -> Commands],
           cards' \in 0 .. MaxCards, created' \subseteq 1 .. cards',
           case' \in [Cards -> [st : CaseStatuses, thread : Threads]],
           link' \in [Messages -> 0 .. MaxCards],
           followup' \in [Threads -> [st : FollowupStatuses, number : Nat]],
           reminded' \in [Threads -> Nat], faults' = faults \/ Fault
    PROVE  Shape'
<1>1. faults' \in 0 .. setup.faults
  <2>1. setup.faults \in Nat /\ faults \in 0 .. setup.faults
    BY ConstantsAssumption DEF Shape, TypeOK
  <2>. QED  BY <2>1 DEF Fault
<1>2. \A w \in Workers : worker'[w].cmd \in Threads /\ worker'[w].card \in 0 .. MaxCards
  BY DEF WorkInOrder, Work
<1>3. TypeOK'
  BY <1>1, <1>2 DEF Shape, WorldFrame, TypeOK, Commands
<1>4. ReadingInOrder' /\ TurnInOrder'
  BY DEF Shape, WorldFrame, ReadingInOrder, InBatch, TurnInOrder
<1>. QED  BY <1>3, <1>4 DEF Shape

\* The tables are typed.
LEMMA TablesTyped ==
    ASSUME Shape
    PROVE  /\ command \in [Threads -> Commands] /\ cards \in 0 .. MaxCards /\ cards \in Nat
           /\ created \subseteq 1 .. cards
           /\ case \in [Cards -> [st : CaseStatuses, thread : Threads]]
           /\ link \in [Messages -> 0 .. MaxCards]
           /\ followup \in [Threads -> [st : FollowupStatuses, number : Nat]]
           /\ reminded \in [Threads -> Nat] /\ worker \in [Workers -> Work]
           /\ setup \in Setups /\ setup.cards \in 1 .. MaxCards
BY ConstantsAssumption DEF Shape, TypeOK, Commands, WorkInOrder

\* The greatest number there is.
LEMMA GreatestNumber ==
    ASSUME Shape, NumbersBounded
    PROVE  /\ NextNumber \in Nat /\ NextNumber > 1
           /\ \A t \in Threads : followup[t].number < NextNumber
<1>. DEFINE S == {1} \cup {followup[t].number : t \in Threads}
            U == {n \in Nat : \A s \in S : s <= n}
<1>1. S \subseteq Nat /\ 1 \in S
  BY TablesTyped
<1>2. U # {}
  <2>1. PICK bound \in Nat : \A t \in Threads : followup[t].number <= bound
    BY DEF NumbersBounded
  <2>2. bound + 1 \in U
    BY <2>1, TablesTyped
  <2>. QED  BY <2>2
<1>3. U \subseteq Nat
  OBVIOUS
<1>4. PICK u \in U : \A v \in U : ~(<<v, u>> \in OpToRel(<, Nat))
  <2>. HIDE DEF U
  <2>. QED  BY <1>2, <1>3, NatLessThanWellFounded, WFMin, Zenon
<1>5. \A v \in U : v < u => <<v, u>> \in OpToRel(<, Nat)
  <2>. HIDE DEF U
  <2>. QED  BY <1>3 DEF OpToRel
<1>6. u \in Nat /\ \A s \in S : s <= u
  OBVIOUS
<1>7. u \in S
  <2>. SUFFICES ASSUME u \notin S PROVE FALSE
    OBVIOUS
  <2>1. u # 0 /\ u - 1 \in Nat /\ u - 1 < u
    BY <1>1, <1>6
  <2>2. \A s \in S : s <= u - 1
    <3>. HIDE DEF S, U
    <3>. QED  BY <1>1, <1>6, <2>1
  <2>3. u - 1 \in U
    BY <2>1, <2>2
  <2>. QED  BY <1>4, <1>5, <2>1, <2>3
<1>8. Max(S) = u
  <2>. DEFINE m == Max(S)
  <2>1. m \in S /\ \A s \in S : m >= s
    <3>. HIDE DEF S, U
    <3>1. \E x \in S : \A s \in S : x >= s
      BY <1>1, <1>6, <1>7
    <3>. QED  BY <3>1 DEF Max
  <2>. HIDE DEF m, S, U
  <2>2. m = u
    BY <1>1, <1>6, <1>7, <2>1
  <2>. QED  BY <2>2 DEF m
<1>9. NextNumber = u + 1
  BY <1>8 DEF NextNumber
<1>10. u >= 1 /\ \A t \in Threads : followup[t].number \in Nat /\ followup[t].number <= u
  BY <1>6, TablesTyped
<1>11. u \in Nat
  BY <1>6
<1>. HIDE DEF U
<1>. QED  BY <1>9, <1>10, <1>11

\* A worker that only goes to another point keeps the work in order.
LEMMA WorkGoto ==
    ASSUME Shape, NEW w \in Workers, NEW pc \in WorkerPoints \ {"emit"}, Busy(w), Goto(w, pc),
           command' = command, cards' = cards, pc = "card" => worker[w].cmd = 1,
           pc \in Reminding => worker[w].cmd # 1
    PROVE  WorkInOrder'
<1>. DEFINE new == [worker[w] EXCEPT !.pc = pc]
<1>1. worker \in [Workers -> Work] /\ worker[w] \in Work /\ cards \in Nat
  BY TablesTyped
<1>2. new \in Work /\ new.pc = pc /\ new.cmd = worker[w].cmd /\ new.card = worker[w].card
  BY <1>1 DEF Work
<1>3. worker' = [worker EXCEPT ![w] = new]
  BY <1>1 DEF Goto
<1>. HIDE DEF new
<1>4. /\ new.pc \in {"card", "emit"} => new.cmd = 1
      /\ new.pc = "emit" => new.card \in 1 .. cards'
      /\ new.card = worker[w].card \/ new.cmd = 1
      /\ new.pc \in Reminding => new.cmd # 1
      /\ cards' \in Nat /\ cards' >= cards
  BY <1>1, <1>2
<1>. QED  BY <1>1, <1>2, <1>3, <1>4, WorkGoesOn

\* A worker that finishes its command keeps the work in order.
LEMMA WorkFinish ==
    ASSUME Shape, NEW w \in Workers, Busy(w), NEW row, Finish(w, row),
           \/ row = Failed(command[worker[w].cmd])
           \/ \E st \in RowStatuses \ {"none"} : row = Settled(command[worker[w].cmd], st),
           cards' \in Nat, cards' >= cards
    PROVE  WorkInOrder' /\ command' \in [Threads -> Commands]
<1>1. /\ command \in [Threads -> Commands] /\ worker[w].cmd \in Threads /\ cards \in Nat
  BY TablesTyped DEF Work
<1>2. PICK t \in Threads : t = worker[w].cmd
  BY <1>1
<1>3. command[t] \in Commands
  BY <1>1
<1>4. row \in Commands /\ row.st # "none" /\ row.card = command[t].card
  BY <1>2, <1>3, RowsTyped
<1>5. command' = [command EXCEPT ![t] = row] /\ worker' = [worker EXCEPT ![w] = NoWork]
  BY <1>2 DEF Finish
<1>6. WorkInOrder'
  BY <1>1, <1>2, <1>4, <1>5, WorkEnds
<1>. QED  BY <1>1, <1>4, <1>5, <1>6

\* The workers keep the types, and the work in order.
LEMMA ShapeWorker ==
    ASSUME Shape, NumbersBounded, NEW w \in Workers, WorkerStep(w) \/ WorkerFault(w)
    PROVE  Shape' /\ WorldFrame
<1>. USE DEF replyVars, gatewayVars, telegramVars, WorldFrame
<1>1. /\ command \in [Threads -> Commands] /\ cards \in 0 .. MaxCards /\ cards \in Nat
      /\ created \subseteq 1 .. cards
      /\ case \in [Cards -> [st : CaseStatuses, thread : Threads]]
      /\ link \in [Messages -> 0 .. MaxCards]
      /\ followup \in [Threads -> [st : FollowupStatuses, number : Nat]]
      /\ reminded \in [Threads -> Nat] /\ worker \in [Workers -> Work]
      /\ setup.cards \in 1 .. MaxCards /\ MaxCards \in Nat
  BY TablesTyped, Numbers
<1>2. /\ worker[w] \in Work /\ worker[w].cmd \in Threads /\ worker[w].card \in 0 .. MaxCards
      /\ worker[w].pc \in WorkerPoints
      /\ Busy(w) => AtWork(w)
  BY <1>1 DEF Work, Shape, WorkInOrder
<1>3. CASE \E t \in Threads : CommandLease(w, t)
  <2>1. PICK t \in Threads : CommandLease(w, t)
    BY <1>3
  <2>. DEFINE new == [pc |-> "check", cmd |-> t, card |-> command[t].card]
              row == [command[t] EXCEPT !.locked = TRUE]
  <2>2. /\ command[t].st = "PENDING" /\ ~command[t].locked /\ ~Busy(w)
        /\ command' = [command EXCEPT ![t] = row] /\ worker' = [worker EXCEPT ![w] = new]
        /\ UNCHANGED <<followup, telegramVars, case, link, faults>> /\ WorldFrame
    BY <1>1, <2>1 DEF CommandLease, Busy
  <2>3. new \in Work /\ new.pc = "check" /\ new.cmd = t /\ new.card = command[t].card
    BY <1>1 DEF Work, WorkerPoints, Commands
  <2>4. /\ row \in Commands /\ row.locked /\ row.st = command[t].st /\ row.card = command[t].card
    BY <1>1 DEF Commands
  <2>. HIDE DEF new, row
  <2>5. command' \in [Threads -> Commands] /\ worker' \in [Workers -> Work]
    BY <1>1, <2>2, <2>3, <2>4
  <2>6. command'[t] = row /\ \A s \in Threads : s # t => command'[s] = command[s]
    BY <1>1, <2>2
  <2>7. ASSUME NEW v \in Workers, Busy(v)'
        PROVE  AtWork(v)' /\ (v # w => Busy(v) /\ worker'[v].cmd = worker[v].cmd /\ worker[v].cmd # t)
    <3>1. CASE v = w
      <4>1. worker'[v] = new
        BY <1>1, <2>2, <3>1
      <4>2. t # 1 => command[t].card \in Cards
        BY <2>2 DEF Shape, WorkInOrder
      <4>. QED  BY <2>2, <2>3, <2>4, <2>6, <3>1, <4>1, <4>2 DEF AtWork, Reminding
    <3>2. CASE v # w
      <4>1. worker'[v] = worker[v]
        BY <1>1, <2>2, <3>2
      <4>2. Busy(v) /\ AtWork(v)
        BY <2>7, <4>1 DEF Busy, Shape, WorkInOrder
      <4>3. worker[v].cmd # t /\ worker[v].cmd \in Threads
        BY <1>1, <2>2, <4>2 DEF AtWork, Work
      <4>. QED  BY <2>2, <2>6, <4>1, <4>2, <4>3 DEF AtWork
    <3>. QED  BY <3>1, <3>2
  <2>8. worker'[w].cmd = t
    BY <1>1, <2>2, <2>3
  <2>9. ASSUME NEW u \in Workers, NEW v \in Workers, Busy(u)', Busy(v)', worker'[u].cmd = worker'[v].cmd
        PROVE  u = v
    BY <2>7, <2>8, <2>9 DEF Shape, WorkInOrder
  <2>10. \A s \in Threads : s # 1 /\ command'[s].st # "none" => command'[s].card \in Cards
    BY <2>2, <2>4, <2>6 DEF Shape, WorkInOrder
  <2>11. WorkInOrder'
    BY <2>5, <2>7, <2>9, <2>10 DEF WorkInOrder
  <2>. QED  BY <1>1, <2>2, <2>5, <2>11, ShapeFromWorker
<1>4. CASE CommandCheck(w)
  <2>1. /\ Busy(w) /\ UNCHANGED <<followup, telegramVars, case, link, faults>> /\ WorldFrame
        /\ \/ Finish(w, Settled(command[worker[w].cmd], "SKIPPED"))
           \/ command' = command /\ worker[w].cmd = 1 /\ Goto(w, "card")
           \/ command' = command /\ worker[w].cmd # 1 /\ Goto(w, "reserve")
    BY <1>4 DEF CommandCheck, Busy
  <2>2. {"card", "reserve"} \subseteq WorkerPoints \ {"emit"}
        /\ "SKIPPED" \in RowStatuses \ {"none"} /\ "card" \notin Reminding
    BY DEF WorkerPoints, RowStatuses, Reminding
  <2>3. WorkInOrder' /\ command' \in [Threads -> Commands]
    BY <1>1, <2>1, <2>2, WorkGoto, WorkFinish
  <2>. QED  BY <1>1, <2>1, <2>3, ShapeFromWorker
<1>5. CASE PostCard(w)
  <2>. DEFINE new == [worker[w] EXCEPT !.pc = "emit", !.card = cards + 1]
  <2>1. /\ Busy(w) /\ worker[w].pc = "card" /\ cards' = cards + 1 /\ cards' \in 0 .. MaxCards
        /\ UNCHANGED <<command, followup, created, reminded, case, link, faults>> /\ WorldFrame
    BY <1>1, <1>5 DEF PostCard, Busy
  <2>9. worker' = [worker EXCEPT ![w] = new]
    BY <1>1, <1>5 DEF PostCard
  <2>2. new \in Work /\ new.pc = "emit" /\ new.cmd = worker[w].cmd /\ new.card = cards + 1
    BY <1>1, <1>2, <2>1 DEF Work, WorkerPoints
  <2>. HIDE DEF new
  <2>3. worker[w].cmd = 1 /\ new.card \in 1 .. cards' /\ created \subseteq 1 .. cards'
    BY <1>1, <1>2, <2>1, <2>2 DEF AtWork
  <2>4. /\ new.pc \in {"card", "emit"} => new.cmd = 1
        /\ new.pc = "emit" => new.card \in 1 .. cards'
        /\ new.card = worker[w].card \/ new.cmd = 1
        /\ new.pc \in Reminding => new.cmd # 1
        /\ cards' \in Nat /\ cards' >= cards
    BY <1>1, <2>1, <2>2, <2>3 DEF Reminding
  <2>5. WorkInOrder'
    BY <1>1, <2>1, <2>2, <2>4, <2>9, WorkGoesOn
  <2>. QED  BY <1>1, <2>1, <2>3, <2>5, ShapeFromWorker
<1>6. CASE PostCardFails(w)
  <2>1. /\ Busy(w) /\ worker[w].pc = "card" /\ Fault
        /\ cards' \in {cards, cards + 1} /\ cards' \in 0 .. MaxCards
        /\ \/ Finish(w, Failed(command[1]))
           \/ Finish(w, Settled(command[1], "FAILED"))
        /\ UNCHANGED <<followup, created, reminded, case, link>> /\ WorldFrame
    BY <1>1, <1>6 DEF PostCardFails, Busy
  <2>2. worker[w].cmd = 1 /\ created \subseteq 1 .. cards' /\ cards' >= cards /\ cards' \in Nat
    BY <1>1, <1>2, <2>1 DEF AtWork
  <2>3. "FAILED" \in RowStatuses \ {"none"}
    BY DEF RowStatuses
  <2>4. WorkInOrder' /\ command' \in [Threads -> Commands]
    BY <2>1, <2>2, <2>3, WorkFinish
  <2>. QED  BY <1>1, <2>1, <2>2, <2>4, ShapeFromWorker
<1>7. CASE EmitCreated(w)
  <2>1. /\ Busy(w) /\ worker[w].pc = "emit" /\ Goto(w, "mark_sent")
        /\ created' = created \cup {worker[w].card}
        /\ UNCHANGED <<command, followup, cards, reminded, case, link, faults>> /\ WorldFrame
    BY <1>7 DEF EmitCreated, Busy
  <2>2. created' \subseteq 1 .. cards'
    BY <1>1, <1>2, <2>1 DEF AtWork
  <2>3. WorkInOrder'
    BY <2>1, WorkGoto DEF WorkerPoints, Reminding
  <2>. QED  BY <1>1, <2>1, <2>2, <2>3, ShapeFromWorker
<1>8. CASE CommandMarkSent(w) \/ CommandMark(w)
  <2>1. /\ Busy(w) /\ UNCHANGED <<followup, telegramVars, case, link, faults>> /\ WorldFrame
        /\ \/ Finish(w, Failed(command[worker[w].cmd]))
           \/ \E st \in {"SENT", "UNCERTAIN"} : Finish(w, Settled(command[worker[w].cmd], st))
    BY <1>8 DEF CommandMarkSent, CommandMark, Busy
  <2>2. WorkInOrder' /\ command' \in [Threads -> Commands]
    BY <1>1, <2>1, WorkFinish DEF RowStatuses
  <2>. QED  BY <1>1, <2>1, <2>2, ShapeFromWorker
<1>9. CASE ReserveFollowup(w)
  <2>. DEFINE t == worker[w].cmd
  <2>1. /\ Busy(w) /\ worker[w].pc = "reserve"
        /\ \E pc \in {"mark_sent", "cancel", "route"} : Goto(w, pc)
        /\ \/ followup' = followup
           \/ followup' = [followup EXCEPT ![t] = [st |-> "reserved", number |-> NextNumber]]
        /\ UNCHANGED <<command, telegramVars, case, link, faults>> /\ WorldFrame
    BY <1>9 DEF ReserveFollowup, Busy
  <2>2. NextNumber \in Nat
    BY GreatestNumber
  <2>3. followup' \in [Threads -> [st : FollowupStatuses, number : Nat]]
    BY <1>1, <2>1, <2>2 DEF FollowupStatuses
  <2>4. worker[w].cmd # 1
    BY <1>2, <2>1 DEF AtWork, Reminding
  <2>5. WorkInOrder'
    BY <2>1, <2>4, WorkGoto DEF WorkerPoints
  <2>. QED  BY <1>1, <2>1, <2>3, <2>5, ShapeFromWorker
<1>10. CASE CancelFollowup(w) \/ MarkFollowupSending(w) \/ PostFollowup(w) \/ PostFollowupFails(w)
            \/ RecordFollowupSent(w) \/ MarkFollowup(w)
  <2>1. /\ Busy(w) /\ worker[w].pc \in Reminding
        /\ \E pc \in {"mark_sent", "post", "record", "retryable", "uncertain", "mark_uncertain",
                      "mark_failed"} : Goto(w, pc)
        /\ UNCHANGED <<command, cards, created>> /\ WorldFrame
    BY <1>10 DEF CancelFollowup, MarkFollowupSending, PostFollowup, PostFollowupFails,
                 RecordFollowupSent, MarkFollowup, Busy, Reminding
  <2>2. faults' = faults \/ Fault
    BY <1>10 DEF CancelFollowup, MarkFollowupSending, PostFollowup, PostFollowupFails,
                 RecordFollowupSent, MarkFollowup
  <2>3. \/ followup' = followup
        \/ \E st \in FollowupStatuses : followup' = [followup EXCEPT ![worker[w].cmd].st = st]
    BY <1>10 DEF CancelFollowup, MarkFollowupSending, PostFollowup, PostFollowupFails,
                 RecordFollowupSent, MarkFollowup, FollowupStatuses
  <2>4. followup' \in [Threads -> [st : FollowupStatuses, number : Nat]]
    <3>1. ASSUME NEW st \in FollowupStatuses,
                 followup' = [followup EXCEPT ![worker[w].cmd].st = st]
          PROVE  followup' \in [Threads -> [st : FollowupStatuses, number : Nat]]
      BY <1>1, <1>2, <3>1
    <3>. QED  BY <1>1, <2>3, <3>1
  <2>5. \/ case' = case
        \/ case' = [case EXCEPT ![worker[w].card].thread = worker[w].cmd]
    BY <1>10 DEF CancelFollowup, MarkFollowupSending, PostFollowup, PostFollowupFails,
                 RecordFollowupSent, MarkFollowup
  <2>6. case' \in [Cards -> [st : CaseStatuses, thread : Threads]]
    BY <1>1, <1>2, <2>5
  <2>7. \/ reminded' = reminded
        \/ reminded' = [reminded EXCEPT ![worker[w].cmd] = @ + 1]
        \/ reminded' = [reminded EXCEPT ![worker[w].cmd] = @]
    BY <1>10 DEF CancelFollowup, MarkFollowupSending, PostFollowup, PostFollowupFails,
                 RecordFollowupSent, MarkFollowup
  <2>8. reminded' \in [Threads -> Nat]
    BY <1>1, <1>2, <2>7
  <2>9. \/ link' = link
        \/ link' = [link EXCEPT ![<<"reminder", worker[w].cmd>>] = worker[w].card]
    BY <1>10 DEF CancelFollowup, MarkFollowupSending, PostFollowup, PostFollowupFails,
                 RecordFollowupSent, MarkFollowup
  <2>10. link' \in [Messages -> 0 .. MaxCards]
    BY <1>1, <1>2, <2>9
  <2>11. worker[w].cmd # 1
    BY <1>2, <2>1 DEF AtWork
  <2>12. WorkInOrder'
    BY <2>1, <2>11, WorkGoto DEF WorkerPoints
  <2>. QED  BY <1>1, <2>1, <2>2, <2>4, <2>6, <2>8, <2>10, <2>12, ShapeFromWorker
<1>11. CASE CommandFails(w) \/ CommandCrash(w)
  <2>1. /\ Busy(w) /\ Fault /\ UNCHANGED <<followup, telegramVars, case, link>> /\ WorldFrame
        /\ \/ worker[w].pc = "record" /\ Goto(w, "uncertain") /\ command' = command
           \/ Finish(w, Failed(command[worker[w].cmd]))
           \/ worker' = [worker EXCEPT ![w] = NoWork] /\ command' = command
    BY <1>11 DEF CommandFails, CommandCrash, Busy
  <2>2. CASE worker[w].pc = "record" /\ Goto(w, "uncertain") /\ command' = command
    <3>1. worker[w].cmd # 1
      BY <1>2, <2>1, <2>2 DEF AtWork, Reminding
    <3>2. WorkInOrder'
      BY <2>1, <2>2, <3>1, WorkGoto DEF WorkerPoints
    <3>. QED  BY <1>1, <2>1, <2>2, <3>2, ShapeFromWorker
  <2>3. CASE Finish(w, Failed(command[worker[w].cmd]))
    <3>1. WorkInOrder' /\ command' \in [Threads -> Commands]
      BY <1>1, <2>1, <2>3, WorkFinish
    <3>. QED  BY <1>1, <2>1, <3>1, ShapeFromWorker
  <2>4. CASE worker' = [worker EXCEPT ![w] = NoWork] /\ command' = command
    <3>1. PICK t \in Threads : t = worker[w].cmd
      BY <1>2
    <3>2. command[t] \in Commands /\ command[t].st # "none"
      BY <1>1, <1>2, <2>1, <3>1 DEF AtWork
    <3>3. PICK row \in Commands : row = command[t]
      BY <3>2
    <3>4. cards' = cards /\ cards' \in Nat /\ cards' >= cards
      BY <1>1, <2>1
    <3>5. row.st # "none" /\ row.card = command[t].card
      BY <3>2, <3>3
    <3>6. WorkInOrder'
      BY <1>1, <2>1, <2>4, <3>1, <3>4, <3>5, WorkEnds
    <3>. QED  BY <1>1, <2>1, <2>4, <3>6, ShapeFromWorker
  <2>. QED  BY <2>1, <2>2, <2>3, <2>4
<1>. QED
  BY <1>3, <1>4, <1>5, <1>6, <1>7, <1>8, <1>9, <1>10, <1>11 DEF WorkerStep, WorkerFault

-----------------------------------------------------------------------------
(* The types, outside the workers *)

Results == [st : {"none", "PENDING", "PROCESSED", "FAILED"}, retry : Nat, thread : Threads,
            leased : BOOLEAN]
Cases == [st : CaseStatuses, thread : Threads]

\* The replies are typed, and a consumer's update is one of them.
LEMMA RepliesTyped ==
    ASSUME Shape
    PROVE  /\ posted \in Seq([to : Messages, text : setup.texts]) /\ Len(posted) \in Nat
           /\ Len(posted) <= MaxReplies /\ Len(posted) <= setup.replies
           /\ setup.replies \in 0 .. MaxReplies
           /\ offset \in 0 .. Len(posted) /\ consumer \in [Consumers -> Reading]
           /\ result \in [Updates -> Results] /\ queued \in [Updates -> Nat]
           /\ conv \in [Threads -> ConvStatuses]
           /\ \A c \in Consumers : InBatch(c) =>
                 /\ consumer[c].update \in Updates /\ consumer[c].update \in 1 .. Len(posted)
                 /\ posted[consumer[c].update].to \in Messages
                 /\ posted[consumer[c].update].text \in setup.texts
<1>1. /\ setup \in Setups /\ setup.replies \in 0 .. MaxReplies /\ MaxReplies \in Nat
  BY ConstantsAssumption DEF Shape, TypeOK
<1>2. /\ posted \in Seq([to : Messages, text : setup.texts]) /\ Len(posted) \in Nat
      /\ Len(posted) <= setup.replies
      /\ offset \in 0 .. Len(posted) /\ consumer \in [Consumers -> Reading]
      /\ result \in [Updates -> Results] /\ queued \in [Updates -> Nat]
      /\ conv \in [Threads -> ConvStatuses]
  BY DEF Shape, TypeOK, ReadingInOrder, Results
<1>3. ASSUME NEW c \in Consumers, InBatch(c)
      PROVE  consumer[c].update \in 1 .. Len(posted)
  <2>1. consumer[c].update \in 1 .. consumer[c].last /\ consumer[c].last <= Len(posted)
        /\ consumer[c].last \in Nat
    BY <1>2, <1>3 DEF Shape, ReadingInOrder, Reading
  <2>. QED  BY <1>2, <2>1
<1>4. ASSUME NEW u \in 1 .. Len(posted)
      PROVE  u \in Updates /\ posted[u].to \in Messages /\ posted[u].text \in setup.texts
  <2>1. posted[u] \in [to : Messages, text : setup.texts]
    BY <1>2, <1>4, ElementOfSeq
  <2>2. u \in Updates
    BY <1>1, <1>2, <1>4 DEF Updates
  <2>. QED  BY <2>1, <2>2
<1>5. Len(posted) <= MaxReplies
  BY <1>1, <1>2
<1>. QED  BY <1>1, <1>2, <1>3, <1>4, <1>5

\* A consumer that goes on reads in order.
LEMMA ReadingGoesOn ==
    ASSUME Shape, NEW c \in Consumers, NEW new \in Reading,
           consumer' = [consumer EXCEPT ![c] = new], UNCHANGED <<setup, posted>>,
           new.pc \in {"idle", "fetch"} => new.update = 0 /\ new.last = 0,
           new.pc \notin {"idle", "fetch"} => new.update \in 1 .. new.last,
           new.last <= Len(posted),
           new.pc \in {"insert", "deliver", "record"} => new.card \in Cards
    PROVE  ReadingInOrder' /\ \A d \in Consumers : consumer'[d].update \in 0 .. Len(posted)
<1>1. consumer \in [Consumers -> Reading] /\ consumer' \in [Consumers -> Reading] /\ Len(posted) \in Nat
  BY RepliesTyped
<1>2. \A d \in Consumers : consumer'[d] = IF d = c THEN new ELSE consumer[d]
  BY <1>1
<1>3. new.update \in Nat /\ new.last \in Nat
  BY DEF Reading
<1>4. ReadingInOrder'
  BY <1>1, <1>2 DEF Shape, ReadingInOrder, InBatch
<1>5. ASSUME NEW d \in Consumers PROVE consumer'[d].update \in 0 .. Len(posted)
  <2>1. CASE d = c
    BY <1>1, <1>2, <1>3, <2>1
  <2>2. CASE d # c
    <3>1. /\ consumer'[d] = consumer[d]
          /\ ~InBatch(d) => consumer[d].update = 0
      BY <1>2, <2>2 DEF Shape, ReadingInOrder
    <3>2. InBatch(d) => consumer[d].update \in 1 .. Len(posted)
      BY RepliesTyped
    <3>. QED  BY <1>1, <3>1, <3>2
  <2>. QED  BY <2>1, <2>2
<1>. QED  BY <1>4, <1>5

\* The rest of the world while a consumer works.
CaseFrame == UNCHANGED <<setup, command, worker, followup, cards, created, reminded, posted,
                         opened, turn, turns>>

\* A consumer's step that keeps its own types keeps all of them.
LEMMA ShapeFromConsumer ==
    ASSUME Shape, CaseFrame, ReadingInOrder',
           \A d \in Consumers : consumer'[d].update \in 0 .. Len(posted),
           case' \in [Cards -> Cases], link' \in [Messages -> 0 .. MaxCards],
           result' \in [Updates -> Results], queued' \in [Updates -> Nat],
           conv' \in [Threads -> ConvStatuses], offset' \in 0 .. Len(posted),
           faults' = faults \/ Fault
    PROVE  Shape'
<1>1. faults' \in 0 .. setup.faults
  <2>1. setup.faults \in Nat /\ faults \in 0 .. setup.faults
    BY ConstantsAssumption DEF Shape, TypeOK
  <2>. QED  BY <2>1 DEF Fault
<1>2. \A d \in Consumers : consumer'[d].update \in 0 .. Len(posted) + 1 /\ consumer'[d].st \in CaseStatuses
  BY RepliesTyped DEF ReadingInOrder, Reading
<1>3. TypeOK'
  BY <1>1, <1>2 DEF Shape, CaseFrame, TypeOK, Cases, Results
<1>4. WorkInOrder' /\ TurnInOrder'
  BY DEF Shape, CaseFrame, WorkInOrder, Busy, AtWork, TurnInOrder
<1>. QED  BY <1>3, <1>4 DEF Shape

\* The consumers keep the types, and read in order.
LEMMA ShapeConsumer ==
    ASSUME Shape, NEW c \in Consumers, ConsumerStep(c) \/ ConsumerFails(c)
    PROVE  Shape' /\ CaseFrame
<1>. USE DEF workVars, gatewayVars, telegramVars, CaseFrame
<1>1. /\ consumer \in [Consumers -> Reading] /\ consumer[c] \in Reading
      /\ Len(posted) \in Nat /\ offset \in 0 .. Len(posted)
      /\ case \in [Cards -> Cases] /\ link \in [Messages -> 0 .. MaxCards]
      /\ result \in [Updates -> Results] /\ queued \in [Updates -> Nat]
      /\ conv \in [Threads -> ConvStatuses]
  BY TablesTyped, RepliesTyped DEF Cases
<1>2. /\ consumer[c].update \in Nat /\ consumer[c].last \in Nat /\ consumer[c].card \in 0 .. MaxCards
      /\ consumer[c].st \in CaseStatuses /\ consumer[c].thread \in Threads
      /\ consumer[c].last <= Len(posted)
      /\ ~InBatch(c) => consumer[c].update = 0 /\ consumer[c].last = 0
      /\ InBatch(c) => consumer[c].update \in 1 .. consumer[c].last
      /\ consumer[c].pc \in {"insert", "deliver", "record"} => consumer[c].card \in Cards
  BY <1>1 DEF Reading, Shape, ReadingInOrder
<1>3. InBatch(c) => /\ consumer[c].update \in Updates /\ posted[consumer[c].update].to \in Messages
                    /\ <<"staff", consumer[c].update>> \in Messages
  BY RepliesTyped DEF Messages
\* The consumer only goes to another point.
<1>4. ASSUME NEW pc \in {"fetch", "insert", "deliver", "record", "save"}, Step(c, pc),
             UNCHANGED <<setup, posted>>,
             pc = "fetch" <=> ~InBatch(c),
             pc \in {"insert", "deliver", "record"} => consumer[c].card \in Cards
      PROVE  ReadingInOrder' /\ \A d \in Consumers : consumer'[d].update \in 0 .. Len(posted)
  <2>. DEFINE new == [consumer[c] EXCEPT !.pc = pc]
  <2>1. /\ new \in Reading /\ new.pc = pc /\ new.update = consumer[c].update
        /\ new.last = consumer[c].last /\ new.card = consumer[c].card
    BY <1>1 DEF Reading
  <2>2. consumer' = [consumer EXCEPT ![c] = new]
    BY <1>1, <1>4 DEF Step
  <2>. HIDE DEF new
  <2>3. /\ new.pc \in {"idle", "fetch"} => new.update = 0 /\ new.last = 0
        /\ new.pc \notin {"idle", "fetch"} => new.update \in 1 .. new.last
        /\ new.last <= Len(posted)
        /\ new.pc \in {"insert", "deliver", "record"} => new.card \in Cards
    BY <1>2, <1>4, <2>1
  <2>. QED  BY <1>4, <2>1, <2>2, <2>3, ReadingGoesOn
\* The consumer looks at another update, or at none.
<1>5. NoUpdate \in Reading /\ NoUpdate.pc = "idle" /\ NoUpdate.update = 0 /\ NoUpdate.last = 0
  BY Numbers DEF NoUpdate, Reading, CaseStatuses
<1>6. ASSUME consumer' = [consumer EXCEPT ![c] = NoUpdate], UNCHANGED <<setup, posted>>
      PROVE  ReadingInOrder' /\ \A d \in Consumers : consumer'[d].update \in 0 .. Len(posted)
  <2>. DEFINE new == NoUpdate
  <2>1. new \in Reading /\ new.pc = "idle" /\ new.update = 0 /\ new.last = 0
        /\ consumer' = [consumer EXCEPT ![c] = new]
    BY <1>5, <1>6
  <2>. HIDE DEF new
  <2>2. /\ new.pc \in {"idle", "fetch"} => new.update = 0 /\ new.last = 0
        /\ new.pc \notin {"idle", "fetch"} => new.update \in 1 .. new.last
        /\ new.last <= Len(posted)
        /\ new.pc \in {"insert", "deliver", "record"} => new.card \in Cards
    BY <1>1, <2>1
  <2>. QED  BY <1>6, <2>1, <2>2, ReadingGoesOn
<1>7. ASSUME NEW update \in Nat, NEW last \in Nat, 1 <= update, update <= last, last <= Len(posted),
             consumer' = [consumer EXCEPT ![c] =
                 [NoUpdate EXCEPT !.pc = "look", !.update = update, !.last = last]],
             UNCHANGED <<setup, posted>>
      PROVE  ReadingInOrder' /\ \A d \in Consumers : consumer'[d].update \in 0 .. Len(posted)
  <2>. DEFINE new == [NoUpdate EXCEPT !.pc = "look", !.update = update, !.last = last]
  <2>1. /\ new \in Reading /\ new.pc = "look" /\ new.update = update /\ new.last = last
        /\ consumer' = [consumer EXCEPT ![c] = new]
    BY <1>5, <1>7 DEF NoUpdate, Reading
  <2>. HIDE DEF new
  <2>2. /\ new.pc \in {"idle", "fetch"} => new.update = 0 /\ new.last = 0
        /\ new.pc \notin {"idle", "fetch"} => new.update \in 1 .. new.last
        /\ new.last <= Len(posted)
        /\ new.pc \in {"insert", "deliver", "record"} => new.card \in Cards
    BY <1>7, <2>1
  <2>. QED  BY <1>7, <2>1, <2>2, ReadingGoesOn
<1>8. CASE SyncCases(c)
  <2>1. /\ Step(c, "fetch") /\ ~InBatch(c) /\ CaseFrame
        /\ UNCHANGED <<offset, result, queued, conv, faults>>
    BY <1>8 DEF SyncCases, InBatch
  <2>2. case' \in [Cards -> Cases]
    <3>1. case' = [k \in Cards |-> IF k \in created /\ case[k].st = "none"
                                   THEN [case[k] EXCEPT !.st = "awaiting_review"] ELSE case[k]]
      BY <1>8 DEF SyncCases
    <3>2. \A k \in Cards : case[k] \in Cases /\ [case[k] EXCEPT !.st = "awaiting_review"] \in Cases
      BY <1>1 DEF Cases, CaseStatuses
    <3>. QED  BY <3>1, <3>2
  <2>3. link' \in [Messages -> 0 .. MaxCards]
    <3>1. link' = [m \in Messages |-> IF m[1] = "card" /\ m[2] \in created THEN m[2] ELSE link[m]]
      BY <1>8 DEF SyncCases
    <3>2. created \subseteq 0 .. MaxCards
      BY TablesTyped, Numbers
    <3>. QED  BY <1>1, <3>1, <3>2
  <2>4. ReadingInOrder' /\ \A d \in Consumers : consumer'[d].update \in 0 .. Len(posted)
    BY <1>4, <2>1
  <2>. QED  BY <1>1, <2>1, <2>2, <2>3, <2>4, ShapeFromConsumer
<1>9. CASE FetchUpdates(c)
  <2>1. /\ CaseFrame /\ UNCHANGED <<case, link, offset, result, queued, conv, faults>>
        /\ \/ consumer' = [consumer EXCEPT ![c] = NoUpdate]
           \/ /\ offset # Len(posted)
              /\ consumer' = [consumer EXCEPT ![c] = [NoUpdate EXCEPT !.pc = "look",
                                   !.update = offset + 1, !.last = Len(posted)]]
    BY <1>9 DEF FetchUpdates
  <2>. DEFINE next == offset + 1
              last == Len(posted)
  <2>2. offset # Len(posted) => next \in Nat /\ last \in Nat /\ 1 <= next /\ next <= last
    BY <1>1
  <2>3. \/ consumer' = [consumer EXCEPT ![c] = NoUpdate]
        \/ /\ offset # Len(posted) /\ last <= Len(posted)
           /\ consumer' = [consumer EXCEPT ![c] =
                              [NoUpdate EXCEPT !.pc = "look", !.update = next, !.last = last]]
    BY <1>1, <2>1
  <2>. HIDE DEF next, last
  <2>4. ReadingInOrder' /\ \A d \in Consumers : consumer'[d].update \in 0 .. Len(posted)
    BY <1>6, <1>7, <2>1, <2>2, <2>3
  <2>. QED  BY <1>1, <2>1, <2>4, ShapeFromConsumer
<1>10. CASE LookUpCase(c)
  <2>. DEFINE k == link[posted[consumer[c].update].to]
              new == [consumer[c] EXCEPT !.pc = "insert", !.card = k, !.st = case[k].st,
                                         !.thread = case[k].thread]
  <2>1. /\ consumer[c].pc = "look" /\ InBatch(c) /\ CaseFrame
        /\ UNCHANGED <<case, link, offset, result, queued, conv, faults>>
    BY <1>10 DEF LookUpCase, InBatch
  <2>2. \/ consumer' = [consumer EXCEPT ![c] = [consumer[c] EXCEPT !.pc = "save"]]
        \/ k # 0 /\ consumer' = [consumer EXCEPT ![c] = new]
    BY <1>1, <1>10 DEF LookUpCase
  <2>3. CASE consumer' = [consumer EXCEPT ![c] = [consumer[c] EXCEPT !.pc = "save"]]
    <3>0. Step(c, "save")
      BY <1>1, <2>3 DEF Step
    <3>1. ReadingInOrder' /\ \A d \in Consumers : consumer'[d].update \in 0 .. Len(posted)
      BY <1>4, <2>1, <3>0
    <3>. QED  BY <1>1, <2>1, <3>1, ShapeFromConsumer
  <2>4. CASE k # 0 /\ consumer' = [consumer EXCEPT ![c] = new]
    <3>1. k \in 0 .. MaxCards
      BY <1>1, <1>3, <2>1
    <3>2. k \in Cards
      BY <2>4, <3>1 DEF Cards
    <3>3. case[k] \in Cases
      BY <1>1, <3>2
    <3>. HIDE DEF k
    <3>4. /\ new \in Reading /\ new.pc = "insert" /\ new.update = consumer[c].update
          /\ new.last = consumer[c].last /\ new.card = k
      BY <1>1, <3>1, <3>3 DEF Reading, Cases
    <3>. HIDE DEF new
    <3>5. /\ new.pc \in {"idle", "fetch"} => new.update = 0 /\ new.last = 0
          /\ new.pc \notin {"idle", "fetch"} => new.update \in 1 .. new.last
          /\ new.last <= Len(posted)
          /\ new.pc \in {"insert", "deliver", "record"} => new.card \in Cards
      BY <1>2, <2>1, <3>2, <3>4
    <3>6. ReadingInOrder' /\ \A d \in Consumers : consumer'[d].update \in 0 .. Len(posted)
      BY <2>1, <2>4, <3>4, <3>5, ReadingGoesOn
    <3>. QED  BY <1>1, <2>1, <3>6, ShapeFromConsumer
  <2>. QED  BY <2>2, <2>3, <2>4
<1>11. CASE InsertResult(c)
  <2>. DEFINE u == consumer[c].update
  <2>1. /\ consumer[c].pc = "insert" /\ InBatch(c) /\ CaseFrame
        /\ UNCHANGED <<case, link, offset, queued, conv, faults>>
        /\ Step(c, "deliver") \/ Step(c, "save")
        /\ \/ result' = result
           \/ result' = [result EXCEPT ![u].st = "PENDING", ![u].thread = consumer[c].thread]
    BY <1>11 DEF InsertResult, InBatch
  <2>2. result' \in [Updates -> Results]
    <3>. DEFINE row == [result[u] EXCEPT !.st = "PENDING", !.thread = consumer[c].thread]
    <3>1. u \in Updates
      BY <1>3, <2>1
    <3>2. row \in Results
      BY <1>1, <1>2, <3>1 DEF Results
    <3>3. result' = result \/ result' = [result EXCEPT ![u] = row]
      BY <1>1, <2>1, <3>1
    <3>. HIDE DEF row, u
    <3>. QED  BY <1>1, <3>1, <3>2, <3>3
  <2>3. ReadingInOrder' /\ \A d \in Consumers : consumer'[d].update \in 0 .. Len(posted)
    BY <1>2, <1>4, <2>1
  <2>. QED  BY <1>1, <2>1, <2>2, <2>3, ShapeFromConsumer
<1>12. CASE DeliverReply(c)
  <2>. DEFINE u == consumer[c].update
              k == consumer[c].card
              t == consumer[c].thread
              new == ConvAfter(posted[u].text, consumer[c].st)
              after == CaseAfter(posted[u].text, consumer[c].st, case[k].st)
  <2>1. /\ consumer[c].pc = "deliver" /\ InBatch(c) /\ CaseFrame
        /\ UNCHANGED <<link, offset, faults>> /\ Step(c, "record")
        /\ result' = [result EXCEPT ![u].st = "PROCESSED"]
        /\ \/ queued' = [queued EXCEPT ![u] = @]
           \/ queued' = [queued EXCEPT ![u] = @ + 1]
    BY <1>12 DEF DeliverReply, InBatch
  <2>2. \/ case' = [case EXCEPT ![k].st = @]
        \/ case' = [case EXCEPT ![k].st = after]
    BY <1>1, <1>2, <2>1, <1>12 DEF DeliverReply
  <2>3. \/ conv' = [conv EXCEPT ![t] = @]
        \/ conv' = [conv EXCEPT ![t] = new]
    BY <1>12 DEF DeliverReply
  <2>4. new \in ConvStatuses
    BY DEF ConvAfter, ConvStatuses
  <2>5. case[k].st \in CaseStatuses
    BY <1>1, <1>2, <2>1 DEF Cases
  <2>6. after \in CaseStatuses
    BY <1>2, <2>5 DEF CaseAfter, Classify, Sticky, CaseStatuses
  <2>. HIDE DEF new, after
  <2>7. case' \in [Cards -> Cases]
    BY <1>1, <1>2, <2>2, <2>6 DEF Cases
  <2>8. conv' \in [Threads -> ConvStatuses]
    BY <1>1, <1>2, <2>3, <2>4
  <2>9. result' \in [Updates -> Results] /\ queued' \in [Updates -> Nat]
    <3>. DEFINE row == [result[u] EXCEPT !.st = "PROCESSED"]
    <3>1. u \in Updates
      BY <1>3, <2>1
    <3>2. row \in Results
      BY <1>1, <3>1 DEF Results
    <3>3. result' = [result EXCEPT ![u] = row]
      BY <1>1, <2>1, <3>1
    <3>4. queued' = [queued EXCEPT ![u] = queued[u]] \/ queued' = [queued EXCEPT ![u] = queued[u] + 1]
      BY <2>1
    <3>. HIDE DEF row, u
    <3>5. queued[u] \in Nat /\ queued[u] + 1 \in Nat
      BY <1>1, <3>1
    <3>. QED  BY <1>1, <3>1, <3>2, <3>3, <3>4, <3>5
  <2>10. ReadingInOrder' /\ \A d \in Consumers : consumer'[d].update \in 0 .. Len(posted)
    BY <1>2, <1>4, <2>1
  <2>. QED  BY <1>1, <2>1, <2>7, <2>8, <2>9, <2>10, ShapeFromConsumer
<1>13. CASE RecordStaffReply(c)
  <2>1. /\ consumer[c].pc = "record" /\ InBatch(c) /\ CaseFrame
        /\ UNCHANGED <<case, offset, result, queued, conv, faults>> /\ Step(c, "save")
        /\ link' = [link EXCEPT ![<<"staff", consumer[c].update>>] = consumer[c].card]
    BY <1>13 DEF RecordStaffReply, InBatch
  <2>2. link' \in [Messages -> 0 .. MaxCards]
    BY <1>1, <1>2, <2>1
  <2>3. ReadingInOrder' /\ \A d \in Consumers : consumer'[d].update \in 0 .. Len(posted)
    BY <1>4, <2>1
  <2>. QED  BY <1>1, <2>1, <2>2, <2>3, ShapeFromConsumer
<1>14. CASE SaveOffset(c)
  <2>. DEFINE next == consumer[c].update + 1
              last == consumer[c].last
  <2>1. /\ consumer[c].pc = "save" /\ InBatch(c) /\ CaseFrame
        /\ UNCHANGED <<case, link, result, queued, conv, faults>>
        /\ offset' = Max({offset, consumer[c].update})
        /\ consumer' = [consumer EXCEPT ![c] = NextUpdate(c)]
    BY <1>14 DEF SaveOffset, InBatch
  <2>2. offset' \in 0 .. Len(posted)
    <3>. DEFINE update == consumer[c].update
    <3>1. /\ update \in Nat /\ offset \in Nat /\ update <= Len(posted) /\ offset <= Len(posted)
          /\ Len(posted) \in Nat
      BY <1>1, <1>2, <2>1
    <3>2. offset' = Max({offset, update})
      BY <2>1
    <3>. HIDE DEF update
    <3>3. offset' = IF offset >= update THEN offset ELSE update
      BY <3>1, <3>2, MaxPair
    <3>. QED  BY <3>1, <3>3
  <2>3. CASE consumer[c].update = consumer[c].last
    <3>1. consumer' = [consumer EXCEPT ![c] = NoUpdate]
      BY <2>1, <2>3 DEF NextUpdate
    <3>2. ReadingInOrder' /\ \A d \in Consumers : consumer'[d].update \in 0 .. Len(posted)
      BY <1>6, <2>1, <3>1
    <3>. QED  BY <1>1, <2>1, <2>2, <3>2, ShapeFromConsumer
  <2>4. CASE consumer[c].update # consumer[c].last
    <3>1. consumer' = [consumer EXCEPT ![c] =
                    [NoUpdate EXCEPT !.pc = "look", !.update = next, !.last = last]]
      BY <2>1, <2>4 DEF NextUpdate
    <3>2. next \in Nat /\ last \in Nat /\ 1 <= next /\ next <= last /\ last <= Len(posted)
      BY <1>2, <2>1, <2>4
    <3>. HIDE DEF next, last
    <3>3. ReadingInOrder' /\ \A d \in Consumers : consumer'[d].update \in 0 .. Len(posted)
      BY <1>7, <2>1, <3>1, <3>2
    <3>. QED  BY <1>1, <2>1, <2>2, <3>3, ShapeFromConsumer
  <2>. QED  BY <2>3, <2>4
<1>15. CASE ConsumerFails(c)
  <2>1. /\ InBatch(c) /\ Fault /\ CaseFrame /\ UNCHANGED <<case, link, offset, queued, conv>>
        /\ consumer' = [consumer EXCEPT ![c] = NoUpdate]
        /\ result' = result \/ result' = [result EXCEPT ![consumer[c].update].st = "FAILED"]
    BY <1>15 DEF ConsumerFails, InBatch
  <2>2. result' \in [Updates -> Results]
    <3>. DEFINE u == consumer[c].update
                row == [result[u] EXCEPT !.st = "FAILED"]
    <3>1. u \in Updates
      BY <1>3, <2>1
    <3>2. row \in Results
      BY <1>1, <3>1 DEF Results
    <3>3. result' = result \/ result' = [result EXCEPT ![u] = row]
      BY <1>1, <2>1, <3>1
    <3>. HIDE DEF row, u
    <3>. QED  BY <1>1, <3>1, <3>2, <3>3
  <2>3. ReadingInOrder' /\ \A d \in Consumers : consumer'[d].update \in 0 .. Len(posted)
    BY <1>6, <2>1
  <2>. QED  BY <1>1, <2>1, <2>2, <2>3, ShapeFromConsumer
<1>. QED
  BY <1>8, <1>9, <1>10, <1>11, <1>12, <1>13, <1>14, <1>15 DEF ConsumerStep

\* Commands that gain a row, or whose lease runs out, leave the work in order.
LEMMA WorkStays ==
    ASSUME Shape, NEW t \in Threads, NEW row \in Commands, worker' = worker, cards' = cards,
           command' = [command EXCEPT ![t] = row] \/ command' = command,
           \A w \in Workers : Busy(w) => worker[w].cmd # t,
           t # 1 /\ row.st # "none" => row.card \in Cards
    PROVE  WorkInOrder' /\ command' \in [Threads -> Commands]
<1>1. command \in [Threads -> Commands] /\ worker \in [Workers -> Work]
  BY TablesTyped
<1>2. ASSUME NEW w \in Workers, Busy(w) PROVE AtWork(w)'
  <2>1. worker[w].cmd \in Threads /\ worker[w].cmd # t /\ AtWork(w)
    BY <1>1, <1>2 DEF Work, Shape, WorkInOrder
  <2>2. command'[worker[w].cmd] = command[worker[w].cmd]
    BY <1>1, <2>1
  <2>. QED  BY <2>1, <2>2 DEF AtWork
<1>3. ASSUME NEW s \in Threads, s # 1, command'[s].st # "none" PROVE command'[s].card \in Cards
  <2>1. CASE s = t /\ command' # command
    BY <1>1, <1>3, <2>1
  <2>2. CASE s # t \/ command' = command
    <3>1. command'[s] = command[s]
      BY <1>1, <2>2
    <3>. QED  BY <1>3, <3>1 DEF Shape, WorkInOrder
  <2>. QED  BY <2>1, <2>2
<1>4. WorkInOrder'
  BY <1>1, <1>2, <1>3 DEF Shape, WorkInOrder, Busy
<1>. QED  BY <1>1, <1>4

\* Everybody else keeps the types.
LEMMA ShapeOthers ==
    ASSUME Shape,
           \/ \E t \in Threads : LeaseExpires(t)
           \/ \E u \in Updates : ResultLease(u) \/ ResultReject(u)
           \/ \E m \in Messages, text \in Texts : StaffReplies(m, text)
           \/ \E t \in Threads, confirms \in BOOLEAN, root \in 0 .. MaxCards :
                 GatewayDecides(t, confirms, root)
           \/ \E takenOver \in BOOLEAN : GatewayCommits(takenOver)
           \/ \E t \in Threads, st \in Locked : AgentTakesOver(t, st)
           \/ UNCHANGED vars
    PROVE  Shape'
<1>. USE DEF workVars, telegramVars, replyVars, gatewayVars
<1>1. /\ command \in [Threads -> Commands] /\ case \in [Cards -> Cases]
      /\ result \in [Updates -> Results] /\ conv \in [Threads -> ConvStatuses]
      /\ posted \in Seq([to : Messages, text : setup.texts]) /\ Len(posted) \in Nat
      /\ consumer \in [Consumers -> Reading]
  BY TablesTyped, RepliesTyped DEF Cases
<1>2. ASSUME NEW t \in Threads, LeaseExpires(t) PROVE Shape'
  <2>. DEFINE row == [command[t] EXCEPT !.locked = FALSE]
  <2>1. /\ command' = [command EXCEPT ![t] = row]
        /\ \A w \in Workers : Busy(w) => worker[w].cmd # t
        /\ UNCHANGED <<setup, worker, followup, telegramVars, case, link, replyVars, conv,
                       gatewayVars, faults>>
    BY <1>1, <1>2 DEF LeaseExpires, Busy
  <2>2. row \in Commands /\ row.st = command[t].st /\ row.card = command[t].card
    BY <1>1 DEF Commands
  <2>. HIDE DEF row
  <2>3. t # 1 /\ row.st # "none" => row.card \in Cards
    BY <2>2 DEF Shape, WorkInOrder
  <2>4. WorkInOrder' /\ command' \in [Threads -> Commands]
    BY <2>1, <2>2, <2>3, WorkStays
  <2>5. TypeOK'
    BY <2>1, <2>4 DEF Shape, TypeOK, Commands
  <2>6. ReadingInOrder' /\ TurnInOrder'
    BY <2>1 DEF Shape, ReadingInOrder, InBatch, TurnInOrder
  <2>. QED  BY <2>4, <2>5, <2>6 DEF Shape
<1>3. ASSUME NEW u \in Updates, ResultLease(u) \/ ResultReject(u) PROVE Shape'
  <2>1. UNCHANGED <<setup, workVars, telegramVars, case, link, posted, offset, consumer,
                    queued, conv, gatewayVars, faults>>
    BY <1>3 DEF ResultLease, ResultReject
  <2>2. result' \in [Updates -> Results]
    <3>1. result[u] \in Results /\ result[u].retry \in Nat /\ result[u].retry + 1 \in Nat
      BY <1>1 DEF Results
    <3>. DEFINE leased == [result[u] EXCEPT !.leased = TRUE]
                done == [result[u] EXCEPT !.leased = FALSE, !.st = "PROCESSED"]
                next == result[u].retry + 1
                failed == [result[u] EXCEPT !.leased = FALSE, !.retry = next, !.st = "FAILED"]
                again == [result[u] EXCEPT !.leased = FALSE, !.retry = next, !.st = "PENDING"]
    <3>2. \E row \in {leased, done, failed, again} : result' = [result EXCEPT ![u] = row]
      <4>1. CASE ResultLease(u)
        BY <1>1, <4>1 DEF ResultLease
      <4>2. CASE ResultReject(u)
        <5>1. CASE conv[result[u].thread] \in Locked
          <6>1. result' = [result EXCEPT ![u] = done]
            BY <4>2, <5>1 DEF ResultReject
          <6>. QED  BY <6>1
        <5>2. CASE conv[result[u].thread] \notin Locked
          <6>. DEFINE st == IF result[u].retry + 2 >= MaxRetries THEN "FAILED" ELSE "PENDING"
                      row == [result[u] EXCEPT !.leased = FALSE, !.retry = next, !.st = st]
          <6>1. result' = [result EXCEPT ![u] = row]
            BY <4>2, <5>2 DEF ResultReject
          <6>2. st \in {"FAILED", "PENDING"}
            OBVIOUS
          <6>. HIDE DEF st, next
          <6>. QED  BY <6>1, <6>2
        <5>. QED  BY <5>1, <5>2
      <4>. QED  BY <1>3, <4>1, <4>2
    <3>3. next \in Nat
      BY <3>1
    <3>. HIDE DEF next
    <3>4. leased \in Results /\ done \in Results /\ failed \in Results /\ again \in Results
      BY <3>1, <3>3 DEF Results
    <3>. HIDE DEF leased, done, failed, again
    <3>. QED  BY <1>1, <3>2, <3>4
  <2>3. TypeOK'
    BY <2>1, <2>2 DEF Shape, TypeOK, Results
  <2>4. WorkInOrder' /\ ReadingInOrder' /\ TurnInOrder'
    BY <2>1 DEF Shape, WorkInOrder, Busy, AtWork, ReadingInOrder, InBatch, TurnInOrder
  <2>. QED  BY <2>3, <2>4 DEF Shape
<1>4. ASSUME NEW m \in Messages, NEW text \in Texts, StaffReplies(m, text) PROVE Shape'
  <2>. DEFINE reply == [to |-> m, text |-> text]
  <2>1. /\ Len(posted) < setup.replies /\ text \in setup.texts /\ posted' = Append(posted, reply)
        /\ UNCHANGED <<setup, workVars, telegramVars, case, link, offset, consumer, result,
                       queued, conv, gatewayVars, faults>>
    BY <1>4 DEF StaffReplies
  <2>2. reply \in [to : Messages, text : setup.texts]
    BY <2>1
  <2>. HIDE DEF reply
  <2>3. posted' \in Seq([to : Messages, text : setup.texts]) /\ Len(posted') = Len(posted) + 1
    BY <1>1, <2>1, <2>2
  <2>4. /\ Len(posted') <= setup.replies /\ offset \in 0 .. Len(posted')
        /\ \A c \in Consumers : /\ consumer[c].update \in 0 .. Len(posted') + 1
                                /\ consumer[c].last <= Len(posted')
    <3>1. setup.replies \in Nat /\ offset \in 0 .. Len(posted)
      BY RepliesTyped
    <3>2. \A c \in Consumers : /\ consumer[c].update \in 0 .. Len(posted) + 1
                               /\ consumer[c].last \in Nat /\ consumer[c].last <= Len(posted)
      BY <1>1 DEF Shape, TypeOK, ReadingInOrder, Reading
    <3>. QED  BY <1>1, <2>1, <2>3, <3>1, <3>2
  <2>5. TypeOK'
    BY <2>1, <2>3, <2>4 DEF Shape, TypeOK
  <2>6. WorkInOrder' /\ ReadingInOrder' /\ TurnInOrder'
    BY <2>1, <2>4 DEF Shape, WorkInOrder, Busy, AtWork, ReadingInOrder, InBatch, TurnInOrder
  <2>. QED  BY <2>5, <2>6 DEF Shape
<1>5. ASSUME NEW t \in Threads, NEW confirms \in BOOLEAN, NEW root \in 0 .. MaxCards,
             GatewayDecides(t, confirms, root)
      PROVE  Shape'
  <2>1. /\ turns < setup.turns /\ turns' = turns + 1 /\ opened' = t /\ t \in 2 .. setup.threads
        /\ UNCHANGED <<setup, workVars, telegramVars, case, link, replyVars, conv, faults>>
    BY <1>5 DEF GatewayDecides
  <2>2. PICK k \in Matches(t, confirms, root) :
           turn' = [thread |-> t, confirms |-> confirms, card |-> k, st |-> case[k].st]
    BY <1>5 DEF GatewayDecides
  <2>3. k \in Cards
    BY <2>2 DEF Matches, Eligible
  <2>4. case[k].st \in CaseStatuses /\ k \in 0 .. MaxCards /\ t \in 0 .. NThreads /\ t # 1
    BY <1>1, <2>1, <2>3, Numbers DEF Cases, Threads
  <2>5. turn' \in Turns /\ turn'.thread = t /\ turn'.card = k
    BY <2>2, <2>4 DEF Turns
  <2>6. turns' \in 0 .. setup.turns
    <3>1. setup.turns \in Nat /\ turns \in 0 .. setup.turns
      BY ConstantsAssumption DEF Shape, TypeOK
    <3>. QED  BY <2>1, <3>1
  <2>7. TypeOK'
    BY <2>1, <2>6 DEF Shape, TypeOK
  <2>8. WorkInOrder' /\ ReadingInOrder' /\ TurnInOrder'
    BY <2>1, <2>3, <2>4, <2>5 DEF Shape, WorkInOrder, Busy, AtWork, ReadingInOrder, InBatch, TurnInOrder
  <2>. QED  BY <2>7, <2>8 DEF Shape
<1>6. ASSUME NEW takenOver \in BOOLEAN, GatewayCommits(takenOver) PROVE Shape'
  <2>. DEFINE row == [command[turn.thread] EXCEPT !.st = "PENDING", !.card = turn.card]
  <2>1. /\ turn # NoTurn /\ turn' = NoTurn
        /\ UNCHANGED <<setup, worker, followup, telegramVars, link, replyVars, conv, opened,
                       turns, faults>>
    BY <1>6 DEF GatewayCommits
  <2>2. turn.thread \in Threads /\ turn.thread # 1 /\ turn.card \in Cards /\ turn.card \in 0 .. MaxCards
    BY <2>1, Numbers DEF Shape, TurnInOrder
  <2>3. PICK t \in Threads : t = turn.thread
    BY <2>2
  <2>4. \/ command' = command
        \/ command[t].st = "none" /\ command' = [command EXCEPT ![t] = row]
    BY <1>1, <1>6, <2>3 DEF GatewayCommits
  <2>5. row \in Commands /\ row.card = turn.card
    BY <1>1, <2>2 DEF Commands, RowStatuses
  <2>. HIDE DEF row
  <2>6. command[t].st = "none" => \A w \in Workers : Busy(w) => worker[w].cmd # t
    BY DEF Shape, WorkInOrder, AtWork
  <2>7. WorkInOrder' /\ command' \in [Threads -> Commands]
    <3>1. CASE command' = command
      BY <1>1, <2>1, <3>1 DEF Shape, WorkInOrder, Busy, AtWork
    <3>2. CASE command[t].st = "none" /\ command' = [command EXCEPT ![t] = row]
      BY <2>1, <2>2, <2>5, <2>6, <3>2, WorkStays
    <3>. QED  BY <2>4, <3>1, <3>2
  <2>8. case' \in [Cards -> Cases]
    <3>1. \/ case' = case
          \/ case' = [case EXCEPT ![turn.card].st = "completed_confirmed_by_customer"]
          \/ case' = [case EXCEPT ![turn.card].st = "completion_disputed"]
      BY <1>6 DEF GatewayCommits
    <3>. QED  BY <1>1, <2>2, <3>1 DEF Cases, CaseStatuses
  <2>9. TypeOK'
    BY <2>1, <2>7, <2>8 DEF Shape, TypeOK, Commands, Cases
  <2>10. ReadingInOrder'
    BY <2>1 DEF Shape, ReadingInOrder, InBatch
  <2>11. TurnInOrder'
    BY <2>1, Numbers DEF TurnInOrder, Turns, NoTurn, CaseStatuses
  <2>. QED  BY <2>7, <2>9, <2>10, <2>11 DEF Shape
<1>7. ASSUME NEW t \in Threads, NEW st \in Locked, AgentTakesOver(t, st) PROVE Shape'
  <2>1. /\ conv' = [conv EXCEPT ![t] = st]
        /\ UNCHANGED <<setup, workVars, telegramVars, case, link, replyVars, gatewayVars, faults>>
    BY <1>7 DEF AgentTakesOver
  <2>2. conv' \in [Threads -> ConvStatuses]
    BY <1>1, <2>1 DEF Locked, ConvStatuses
  <2>3. TypeOK'
    BY <2>1, <2>2 DEF Shape, TypeOK
  <2>4. WorkInOrder' /\ ReadingInOrder' /\ TurnInOrder'
    BY <2>1 DEF Shape, WorkInOrder, Busy, AtWork, ReadingInOrder, InBatch, TurnInOrder
  <2>. QED  BY <2>3, <2>4 DEF Shape
<1>8. CASE UNCHANGED vars
  BY <1>8 DEF vars, Shape, TypeOK, WorkInOrder, Busy, AtWork, ReadingInOrder, InBatch, TurnInOrder
<1>. QED  BY <1>2, <1>3, <1>4, <1>5, <1>6, <1>7, <1>8

\* Every step keeps the types.
LEMMA ShapeKept ==
    ASSUME Shape, NumbersBounded, [Next]_vars
    PROVE  Shape'
<1>1. CASE \E w \in Workers : WorkerStep(w) \/ WorkerFault(w)
  BY <1>1, ShapeWorker
<1>2. CASE \E c \in Consumers : ConsumerStep(c) \/ ConsumerFails(c)
  BY <1>2, ShapeConsumer
<1>. QED  BY <1>1, <1>2, ShapeOthers DEF Next

-----------------------------------------------------------------------------
(* The reminders *)

\* The reminders depend on their rows, on the workers and on what the group sees.
LEMMA RemindersStay ==
    ASSUME RemindersInOrder, UNCHANGED <<followup, reminded>>,
           \A w \in Workers :
              \/ worker'[w] = worker[w]
              \/ worker'[w].pc \notin {"cancel", "route", "post", "record", "uncertain", "retryable"}
              \/ /\ worker'[w].cmd = worker[w].cmd
                 /\ worker[w].pc = "record" /\ worker'[w].pc = "uncertain"
    PROVE  RemindersInOrder'
<1>1. ASSUME NEW t \in Threads, reminded'[t] # 0
      PROVE  reminded'[t] = 1 /\ followup'[t].st \in MaybeOut
  BY <1>1 DEF RemindersInOrder
<1>2. ASSUME NEW w \in Workers
      PROVE  /\ worker'[w].pc \in {"cancel", "route"} =>
                   followup'[worker'[w].cmd].st \in {"reserved", "canceled"}
             /\ worker'[w].pc \in {"post", "record", "uncertain", "retryable"} =>
                   followup'[worker'[w].cmd].st = "sending"
             /\ worker'[w].pc \in {"post", "retryable"} => reminded'[worker'[w].cmd] = 0
  BY DEF RemindersInOrder
<1>. QED  BY <1>1, <1>2 DEF RemindersInOrder

\* A worker whose reminder changes is the only one that has it.
LEMMA RemindersGoOn ==
    ASSUME Shape, RemindersInOrder, NEW w \in Workers, Busy(w), worker[w].pc \in Reminding,
           NEW t \in Threads, t = worker[w].cmd, NEW pc \in WorkerPoints, Goto(w, pc),
           NEW st \in FollowupStatuses, NEW number \in Nat, NEW n \in Nat,
           followup' = [followup EXCEPT ![t] = [st |-> st, number |-> number]],
           reminded' = [reminded EXCEPT ![t] = n],
           n # 0 => n = 1 /\ st \in MaybeOut,
           pc \in {"cancel", "route"} => st \in {"reserved", "canceled"},
           pc \in {"post", "record", "uncertain", "retryable"} => st = "sending",
           pc \in {"post", "retryable"} => n = 0
    PROVE  RemindersInOrder'
<1>1. /\ worker \in [Workers -> Work] /\ reminded \in [Threads -> Nat]
      /\ followup \in [Threads -> [st : FollowupStatuses, number : Nat]]
  BY TablesTyped
<1>2. /\ followup'[t].st = st /\ reminded'[t] = n
      /\ \A s \in Threads : s # t => followup'[s] = followup[s] /\ reminded'[s] = reminded[s]
  BY <1>1
<1>3. \A s \in Threads : reminded'[s] # 0 => reminded'[s] = 1 /\ followup'[s].st \in MaybeOut
  BY <1>2 DEF RemindersInOrder
<1>4. ASSUME NEW v \in Workers
      PROVE  /\ worker'[v].pc \in {"cancel", "route"} =>
                   followup'[worker'[v].cmd].st \in {"reserved", "canceled"}
             /\ worker'[v].pc \in {"post", "record", "uncertain", "retryable"} =>
                   followup'[worker'[v].cmd].st = "sending"
             /\ worker'[v].pc \in {"post", "retryable"} => reminded'[worker'[v].cmd] = 0
  <2>1. CASE v = w
    <3>1. worker'[v].pc = pc /\ worker'[v].cmd = t
      BY <1>1, <2>1 DEF Goto, Work
    <3>. QED  BY <1>2, <3>1
  <2>2. CASE v # w
    <3>1. worker'[v] = worker[v]
      BY <1>1, <2>2 DEF Goto
    <3>2. CASE worker[v].pc = "idle"
      BY <3>1, <3>2
    <3>3. CASE worker[v].pc # "idle"
      <4>1. worker[v].cmd \in Threads /\ worker[v].cmd # t
        BY <1>1, <2>2, <3>3 DEF Shape, WorkInOrder, Busy, Work
      <4>. QED  BY <1>2, <3>1, <4>1 DEF RemindersInOrder
    <3>. QED  BY <3>2, <3>3
  <2>. QED  BY <2>1, <2>2
<1>. QED  BY <1>3, <1>4 DEF RemindersInOrder

\* The number of a thread's reminder is given once.
NumberGiven(t, st, number) ==
    \/ number = followup[t].number /\ (st # "none" => followup[t].st # "none")
    \/ followup[t].st = "none" /\ number = NextNumber

\* Numbers that are given once are distinct, and bounded.
LEMMA NumbersKept ==
    ASSUME Shape, NumbersDistinct, NumbersBounded, NEW t \in Threads,
           NEW st \in FollowupStatuses, NEW number \in Nat, NumberGiven(t, st, number),
           followup' = [followup EXCEPT ![t] = [st |-> st, number |-> number]]
    PROVE  NumbersDistinct' /\ NumbersBounded'
<1>. DEFINE next == NextNumber
<1>1. /\ followup \in [Threads -> [st : FollowupStatuses, number : Nat]]
      /\ next \in Nat /\ next > 1
      /\ \A s \in Threads : followup[s].number \in Nat /\ followup[s].number < next
  BY TablesTyped, GreatestNumber
<1>2. /\ followup'[t].st = st /\ followup'[t].number = number
      /\ \A s \in Threads : s # t => followup'[s] = followup[s]
  BY <1>1
<1>3. \/ number = followup[t].number /\ (st # "none" => followup[t].st # "none")
      \/ number = next
  BY DEF NumberGiven
<1>. HIDE DEF next
<1>4. NumbersBounded'
  <2>1. \A s \in Threads : followup'[s].number <= next
    BY <1>1, <1>2, <1>3
  <2>. QED  BY <1>1, <2>1 DEF NumbersBounded
<1>5. \A s \in Threads : followup'[s].st # "none" => followup'[s].number > 1
  BY <1>1, <1>2, <1>3 DEF NumbersDistinct
<1>6. \A s \in Threads : s # t /\ followup'[s].st # "none" /\ followup'[t].st # "none" =>
         followup'[s].number # followup'[t].number
  BY <1>1, <1>2, <1>3 DEF NumbersDistinct
<1>7. \A r, s \in Threads : r # t /\ s # t /\ r # s /\
         followup'[r].st # "none" /\ followup'[s].st # "none" =>
         followup'[r].number # followup'[s].number
  BY <1>2 DEF NumbersDistinct
<1>8. ASSUME NEW r \in Threads, NEW s \in Threads, r # s, followup'[r].st # "none",
             followup'[s].st # "none"
      PROVE  followup'[r].number # followup'[s].number
  <2>1. CASE r = t
    BY <1>6, <1>8, <2>1
  <2>2. CASE s = t
    BY <1>6, <1>8, <2>2
  <2>3. CASE r # t /\ s # t
    BY <1>7, <1>8, <2>3
  <2>. QED  BY <2>1, <2>2, <2>3
<1>. QED  BY <1>4, <1>5, <1>8 DEF NumbersDistinct

\* A worker takes the reminder of its thread one point further.
Moves(w, pc, st, number, n) ==
    /\ Busy(w) /\ worker[w].pc \in Reminding /\ Goto(w, pc)
    /\ followup' = [followup EXCEPT ![worker[w].cmd] = [st |-> st, number |-> number]]
    /\ reminded' = [reminded EXCEPT ![worker[w].cmd] = n]
    /\ n # 0 => n = 1 /\ st \in MaybeOut
    /\ pc \in {"cancel", "route"} => st \in {"reserved", "canceled"}
    /\ pc \in {"post", "record", "uncertain", "retryable"} => st = "sending"
    /\ pc \in {"post", "retryable"} => n = 0
    /\ NumberGiven(worker[w].cmd, st, number)

\* Each action of a reminder is such a move.
LEMMA ReminderMoves ==
    ASSUME Shape, RemindersInOrder, NumbersBounded, NEW w \in Workers,
           \/ ReserveFollowup(w) \/ CancelFollowup(w) \/ MarkFollowupSending(w)
           \/ PostFollowup(w) \/ PostFollowupFails(w) \/ RecordFollowupSent(w) \/ MarkFollowup(w)
    PROVE  \E pc \in WorkerPoints, st \in FollowupStatuses, number \in Nat, n \in Nat :
              Moves(w, pc, st, number, n)
<1>. USE DEF telegramVars
<1>1. PICK t \in Threads : t = worker[w].cmd
  BY TablesTyped DEF Work
<1>. DEFINE was == followup[t].st
            num == followup[t].number
            seen == reminded[t]
<1>2. /\ was \in FollowupStatuses /\ num \in Nat /\ seen \in Nat
      /\ followup = [followup EXCEPT ![t] = [st |-> was, number |-> num]]
      /\ reminded = [reminded EXCEPT ![t] = seen]
      /\ \A st \in FollowupStatuses :
            [followup EXCEPT ![t].st = st] = [followup EXCEPT ![t] = [st |-> st, number |-> num]]
  BY TablesTyped
<1>3. /\ seen # 0 => seen = 1 /\ was \in MaybeOut
      /\ worker[w].pc \in {"cancel", "route"} => was \in {"reserved", "canceled"}
      /\ worker[w].pc \in {"post", "record", "uncertain", "retryable"} => was = "sending"
      /\ worker[w].pc \in {"post", "retryable"} => seen = 0
  BY <1>1 DEF RemindersInOrder
<1>4. \A st : NumberGiven(t, st, num) \/ was = "none"
  BY DEF NumberGiven
<1>. HIDE DEF was, num, seen
<1>5. CASE ReserveFollowup(w)
  <2>. DEFINE next == NextNumber
  <2>1. /\ Busy(w) /\ worker[w].pc \in Reminding /\ reminded' = reminded
        /\ followup' = IF was = "none" THEN [followup EXCEPT ![t] = [st |-> "reserved", number |-> next]]
                       ELSE followup
        /\ \E pc \in {"mark_sent", "cancel", "route"} :
              Goto(w, pc) /\ (pc # "mark_sent" <=> was \notin {"sent", "delivery_uncertain", "sending"})
    BY <1>1, <1>5 DEF ReserveFollowup, Busy, Reminding, was
  <2>2. next \in Nat
    BY GreatestNumber
  <2>3. NumberGiven(t, "reserved", next) \/ was # "none"
    BY DEF NumberGiven, was
  <2>. HIDE DEF next
  <2>4. PICK pc \in {"mark_sent", "cancel", "route"} :
           Goto(w, pc) /\ (pc # "mark_sent" <=> was \notin {"sent", "delivery_uncertain", "sending"})
    BY <2>1
  <2>5. pc \in WorkerPoints /\ "reserved" \in FollowupStatuses
    BY DEF WorkerPoints, FollowupStatuses
  <2>6. CASE was = "none"
    <3>1. seen = 0 /\ pc # "mark_sent"
      BY <1>3, <2>4, <2>6 DEF MaybeOut
    <3>2. Moves(w, pc, "reserved", next, seen)
      BY <1>1, <1>2, <2>1, <2>3, <2>4, <2>6, <3>1 DEF Moves
    <3>. QED  BY <1>2, <2>2, <2>5, <3>2
  <2>7. CASE was # "none"
    <3>1. pc \in {"cancel", "route"} => was \in {"reserved", "canceled"}
      BY <1>2, <2>4, <2>7 DEF FollowupStatuses
    <3>2. Moves(w, pc, was, num, seen)
      BY <1>1, <1>2, <1>3, <1>4, <2>1, <2>4, <2>7, <3>1 DEF Moves
    <3>. QED  BY <1>2, <2>5, <3>2
  <2>. QED  BY <2>6, <2>7
<1>6. CASE CancelFollowup(w)
  <2>1. /\ Busy(w) /\ worker[w].pc = "cancel" /\ reminded' = reminded /\ Goto(w, "mark_sent")
        /\ followup' = [followup EXCEPT ![t].st = "canceled"]
    BY <1>1, <1>6 DEF CancelFollowup, Busy
  <2>2. seen = 0 /\ was # "none"
    BY <1>3, <2>1 DEF MaybeOut
  <2>3. "canceled" \in FollowupStatuses /\ "mark_sent" \in WorkerPoints /\ "cancel" \in Reminding
    BY DEF FollowupStatuses, WorkerPoints, Reminding
  <2>4. Moves(w, "mark_sent", "canceled", num, seen)
    BY <1>1, <1>2, <1>4, <2>1, <2>2, <2>3 DEF Moves
  <2>. QED  BY <1>2, <2>3, <2>4
<1>7. CASE MarkFollowupSending(w)
  <2>1. /\ Busy(w) /\ worker[w].pc = "route" /\ reminded' = reminded /\ Goto(w, "post")
        /\ followup' = [followup EXCEPT ![t].st = "sending"]
    BY <1>1, <1>7 DEF MarkFollowupSending, Busy
  <2>2. seen = 0 /\ was # "none"
    BY <1>3, <2>1 DEF MaybeOut
  <2>3. "sending" \in FollowupStatuses /\ "post" \in WorkerPoints /\ "route" \in Reminding
    BY DEF FollowupStatuses, WorkerPoints, Reminding
  <2>4. Moves(w, "post", "sending", num, seen)
    BY <1>1, <1>2, <1>4, <2>1, <2>2, <2>3 DEF Moves
  <2>. QED  BY <1>2, <2>3, <2>4
<1>8. CASE PostFollowup(w) \/ PostFollowupFails(w)
  <2>1. /\ Busy(w) /\ worker[w].pc = "post" /\ followup' = followup
        /\ \/ Goto(w, "record") /\ reminded' = [reminded EXCEPT ![t] = seen + 1]
           \/ Goto(w, "retryable") /\ reminded' = reminded
           \/ /\ Goto(w, "uncertain")
              /\ \E n \in {seen, seen + 1} : reminded' = [reminded EXCEPT ![t] = n]
    BY <1>1, <1>8 DEF PostFollowup, PostFollowupFails, Busy, seen
  <2>2. was = "sending" /\ seen = 0
    BY <1>3, <2>1
  <2>3. /\ {"record", "retryable", "uncertain"} \subseteq WorkerPoints
        /\ "post" \in Reminding /\ "sending" \in MaybeOut
    BY DEF WorkerPoints, Reminding, MaybeOut
  <2>4. \E pc \in {"record", "retryable", "uncertain"}, n \in {0, 1} :
           /\ Goto(w, pc) /\ reminded' = [reminded EXCEPT ![t] = n]
           /\ pc = "retryable" => n = 0
    BY <1>2, <2>1, <2>2
  <2>5. PICK pc \in {"record", "retryable", "uncertain"}, n \in {0, 1} :
           /\ Goto(w, pc) /\ reminded' = [reminded EXCEPT ![t] = n]
           /\ pc = "retryable" => n = 0
    BY <2>4
  <2>6. Moves(w, pc, was, num, n)
    BY <1>1, <1>2, <1>4, <2>1, <2>2, <2>3, <2>5 DEF Moves
  <2>. QED  BY <1>2, <2>3, <2>6
<1>9. CASE RecordFollowupSent(w)
  <2>1. /\ Busy(w) /\ worker[w].pc = "record" /\ reminded' = reminded /\ Goto(w, "mark_sent")
        /\ followup' = [followup EXCEPT ![t].st = "sent"]
    BY <1>1, <1>9 DEF RecordFollowupSent, Busy
  <2>2. was # "none"
    BY <1>3, <2>1
  <2>3. /\ "sent" \in FollowupStatuses /\ "mark_sent" \in WorkerPoints /\ "record" \in Reminding
        /\ "sent" \in MaybeOut
    BY DEF FollowupStatuses, WorkerPoints, Reminding, MaybeOut
  <2>4. Moves(w, "mark_sent", "sent", num, seen)
    BY <1>1, <1>2, <1>3, <1>4, <2>1, <2>2, <2>3 DEF Moves
  <2>. QED  BY <1>2, <2>3, <2>4
<1>10. CASE MarkFollowup(w)
  <2>1. /\ Busy(w) /\ reminded' = reminded
        /\ \/ /\ worker[w].pc = "uncertain" /\ Goto(w, "mark_uncertain")
              /\ followup' = [followup EXCEPT ![t].st = "delivery_uncertain"]
           \/ /\ worker[w].pc = "retryable" /\ Goto(w, "mark_failed")
              /\ followup' = [followup EXCEPT ![t].st = "reserved"]
    BY <1>1, <1>10 DEF MarkFollowup, Busy
  <2>2. was # "none" /\ (worker[w].pc = "retryable" => seen = 0)
    BY <1>3, <2>1
  <2>3. /\ {"delivery_uncertain", "reserved"} \subseteq FollowupStatuses
        /\ {"mark_uncertain", "mark_failed"} \subseteq WorkerPoints
        /\ {"uncertain", "retryable"} \subseteq Reminding /\ "delivery_uncertain" \in MaybeOut
    BY DEF FollowupStatuses, WorkerPoints, Reminding, MaybeOut
  <2>4. \/ Moves(w, "mark_uncertain", "delivery_uncertain", num, seen)
        \/ Moves(w, "mark_failed", "reserved", num, seen)
    BY <1>1, <1>2, <1>3, <1>4, <2>1, <2>2, <2>3 DEF Moves
  <2>. QED  BY <1>2, <2>3, <2>4
<1>. QED  BY <1>5, <1>6, <1>7, <1>8, <1>9, <1>10

\* Every step keeps the reminders and their numbers.
LEMMA RemindersKept ==
    ASSUME Shape, RemindersInOrder, NumbersDistinct, NumbersBounded, [Next]_vars
    PROVE  RemindersInOrder' /\ NumbersDistinct' /\ NumbersBounded'
<1>. USE DEF telegramVars, workVars, replyVars, gatewayVars
<1>1. followup' = followup => NumbersDistinct' /\ NumbersBounded'
  BY DEF NumbersDistinct, NumbersBounded
<1>2. worker \in [Workers -> Work]
  BY TablesTyped
<1>3. CASE UNCHANGED <<followup, reminded, worker>>
  BY <1>1, <1>3 DEF RemindersInOrder
<1>4. ASSUME NEW w \in Workers,
             \/ \E t \in Threads : CommandLease(w, t)
             \/ CommandCheck(w) \/ PostCard(w) \/ EmitCreated(w) \/ CommandMarkSent(w)
             \/ CommandMark(w) \/ PostCardFails(w) \/ CommandFails(w) \/ CommandCrash(w)
      PROVE  RemindersInOrder' /\ NumbersDistinct' /\ NumbersBounded'
  <2>. DEFINE Elsewhere == {"idle", "check", "card", "reserve", "emit", "mark_sent"}
  <2>1. UNCHANGED <<followup, reminded>>
    BY <1>4 DEF CommandLease, CommandCheck, PostCard, EmitCreated, CommandMarkSent, CommandMark,
                PostCardFails, CommandFails, CommandCrash
  <2>2. \/ worker[w].pc = "record" /\ Goto(w, "uncertain")
        \/ \E pc \in Elsewhere : Goto(w, pc)
        \/ \E new : new.pc \in Elsewhere /\ worker' = [worker EXCEPT ![w] = new]
    <3>1. CASE \E t \in Threads : CommandLease(w, t)
      <4>1. PICK t \in Threads : CommandLease(w, t)
        BY <3>1
      <4>. DEFINE leased == [pc |-> "check", cmd |-> t, card |-> command[t].card]
      <4>2. leased.pc \in Elsewhere /\ worker' = [worker EXCEPT ![w] = leased]
        BY <4>1 DEF CommandLease
      <4>. HIDE DEF leased, Elsewhere
      <4>. QED  BY <4>2, Zenon
    <3>2. CASE PostCard(w)
      <4>. DEFINE posts == [worker[w] EXCEPT !.pc = "emit", !.card = cards + 1]
      <4>1. posts.pc \in Elsewhere /\ worker' = [worker EXCEPT ![w] = posts]
        BY <1>2, <3>2 DEF PostCard, Work
      <4>. HIDE DEF posts, Elsewhere
      <4>. QED  BY <4>1, Zenon
    <3>3. CASE \/ CommandCheck(w) \/ EmitCreated(w) \/ CommandMarkSent(w)
               \/ CommandMark(w) \/ PostCardFails(w) \/ CommandFails(w) \/ CommandCrash(w)
      <4>1. \/ worker[w].pc = "record" /\ Goto(w, "uncertain")
            \/ \E pc \in Elsewhere : Goto(w, pc)
            \/ worker' = [worker EXCEPT ![w] = NoWork]
        BY <3>3 DEF CommandCheck, EmitCreated, CommandMarkSent, CommandMark, PostCardFails,
                    CommandFails, CommandCrash, Finish
      <4>2. NoWork.pc \in Elsewhere
        BY DEF NoWork
      <4>. QED  BY <4>1, <4>2
    <3>. QED  BY <1>4, <3>1, <3>2, <3>3
  <2>3. \A v \in Workers :
           \/ worker'[v] = worker[v]
           \/ worker'[v].pc \notin {"cancel", "route", "post", "record", "uncertain", "retryable"}
           \/ /\ worker'[v].cmd = worker[v].cmd
              /\ worker[v].pc = "record" /\ worker'[v].pc = "uncertain"
    BY <1>2, <2>2 DEF Goto, Work
  <2>4. RemindersInOrder'
    BY <2>1, <2>3, RemindersStay
  <2>. QED  BY <1>1, <2>1, <2>4
<1>5. ASSUME NEW w \in Workers,
             \/ ReserveFollowup(w) \/ CancelFollowup(w) \/ MarkFollowupSending(w)
             \/ PostFollowup(w) \/ PostFollowupFails(w) \/ RecordFollowupSent(w) \/ MarkFollowup(w)
      PROVE  RemindersInOrder' /\ NumbersDistinct' /\ NumbersBounded'
  <2>1. PICK pc \in WorkerPoints, st \in FollowupStatuses, number \in Nat, n \in Nat :
           Moves(w, pc, st, number, n)
    BY <1>5, ReminderMoves
  <2>2. PICK t \in Threads : t = worker[w].cmd
    BY <1>2 DEF Work
  <2>3. /\ Busy(w) /\ worker[w].pc \in Reminding /\ Goto(w, pc)
        /\ followup' = [followup EXCEPT ![t] = [st |-> st, number |-> number]]
        /\ reminded' = [reminded EXCEPT ![t] = n]
        /\ n # 0 => n = 1 /\ st \in MaybeOut
        /\ pc \in {"cancel", "route"} => st \in {"reserved", "canceled"}
        /\ pc \in {"post", "record", "uncertain", "retryable"} => st = "sending"
        /\ pc \in {"post", "retryable"} => n = 0
        /\ NumberGiven(t, st, number)
    BY <2>1, <2>2 DEF Moves
  <2>4. RemindersInOrder'
    BY <2>2, <2>3, RemindersGoOn
  <2>5. NumbersDistinct' /\ NumbersBounded'
    BY <2>3, NumbersKept
  <2>. QED  BY <2>4, <2>5
<1>6. CASE \E w \in Workers : WorkerStep(w) \/ WorkerFault(w)
  BY <1>4, <1>5, <1>6 DEF WorkerStep, WorkerFault
<1>7. CASE \E c \in Consumers : ConsumerStep(c) \/ ConsumerFails(c)
  <2>1. UNCHANGED <<followup, reminded, worker>>
    BY <1>7, ShapeConsumer DEF CaseFrame
  <2>. QED  BY <1>3, <2>1
<1>8. CASE \/ \E t \in Threads : LeaseExpires(t)
           \/ \E u \in Updates : ResultLease(u) \/ ResultReject(u)
           \/ \E m \in Messages, text \in Texts : StaffReplies(m, text)
           \/ \E t \in Threads, confirms \in BOOLEAN, root \in 0 .. MaxCards :
                 GatewayDecides(t, confirms, root)
           \/ \E takenOver \in BOOLEAN : GatewayCommits(takenOver)
           \/ \E t \in Threads, st \in Locked : AgentTakesOver(t, st)
           \/ UNCHANGED vars
  <2>1. UNCHANGED <<followup, reminded, worker>>
    BY <1>8 DEF LeaseExpires, ResultLease, ResultReject, StaffReplies, GatewayDecides,
                GatewayCommits, AgentTakesOver, vars
  <2>. QED  BY <1>3, <2>1
<1>. QED  BY <1>6, <1>7, <1>8 DEF Next

-----------------------------------------------------------------------------
(* The answers *)

\* A result row that exists is kept, and nobody else delivers its reply.
LEMMA AnswersStay ==
    ASSUME Shape, AnswersInOrder, UNCHANGED queued,
           \A u \in Updates : result[u].st # "none" => result'[u].st # "none",
           \A c \in Consumers, u \in Updates : Delivers(c, u)' => Delivers(c, u)
    PROVE  AnswersInOrder'
<1>1. ASSUME NEW u \in Updates
      PROVE  /\ queued'[u] # 0 => queued'[u] = 1 /\ result'[u].st # "none"
             /\ \A c \in Consumers : Delivers(c, u)' => result'[u].st # "none" /\ queued'[u] = 0
  BY DEF AnswersInOrder
<1>2. ASSUME NEW u \in Updates, NEW c \in Consumers, NEW d \in Consumers,
             Delivers(c, u)', Delivers(d, u)'
      PROVE  c = d
  BY <1>2 DEF AnswersInOrder
<1>. QED  BY <1>1, <1>2 DEF AnswersInOrder

\* Every step queues an answer at most once.
LEMMA AnswersKept ==
    ASSUME Shape, AnswersInOrder, [Next]_vars
    PROVE  AnswersInOrder'
<1>. USE DEF telegramVars, workVars, replyVars, gatewayVars
<1>1. /\ consumer \in [Consumers -> Reading] /\ result \in [Updates -> Results]
      /\ queued \in [Updates -> Nat]
  BY RepliesTyped
<1>2. CASE UNCHANGED <<queued, result, consumer>>
  BY <1>2 DEF AnswersInOrder, Delivers
<1>3. ASSUME NEW w \in Workers, WorkerStep(w) \/ WorkerFault(w) PROVE AnswersInOrder'
  <2>1. UNCHANGED <<queued, result, consumer>>
    BY <1>3 DEF WorkerStep, WorkerFault, CommandLease, CommandCheck, PostCard, EmitCreated,
                CommandMarkSent, CommandMark, ReserveFollowup, CancelFollowup, MarkFollowupSending,
                PostFollowup, RecordFollowupSent, MarkFollowup, PostCardFails, PostFollowupFails,
                CommandFails, CommandCrash
  <2>. QED  BY <1>2, <2>1
\* A consumer that does not deliver, and writes no row.
<1>4. ASSUME NEW c \in Consumers, NEW new, new.pc # "deliver",
             consumer' = [consumer EXCEPT ![c] = new]
      PROVE  \A d \in Consumers, u \in Updates : Delivers(d, u)' => d # c /\ Delivers(d, u)
  BY <1>1, <1>4 DEF Delivers
<1>5. ASSUME NEW c \in Consumers,
             \/ SyncCases(c) \/ FetchUpdates(c) \/ LookUpCase(c) \/ RecordStaffReply(c)
             \/ SaveOffset(c) \/ ConsumerFails(c)
      PROVE  AnswersInOrder'
  <2>1. UNCHANGED queued
    BY <1>5 DEF SyncCases, FetchUpdates, LookUpCase, RecordStaffReply, SaveOffset, ConsumerFails
  <2>2. result' = result \/ result' = [result EXCEPT ![consumer[c].update].st = "FAILED"]
    BY <1>5 DEF SyncCases, FetchUpdates, LookUpCase, RecordStaffReply, SaveOffset, ConsumerFails
  <2>3. \A u \in Updates : result[u].st # "none" => result'[u].st # "none"
    BY <1>1, <2>2 DEF Results
  <2>4. \E new : new.pc # "deliver" /\ consumer' = [consumer EXCEPT ![c] = new]
    <3>. DEFINE fetch == [consumer[c] EXCEPT !.pc = "fetch"]
                save == [consumer[c] EXCEPT !.pc = "save"]
                look == [NoUpdate EXCEPT !.pc = "look", !.update = offset + 1, !.last = Len(posted)]
                next == [NoUpdate EXCEPT !.pc = "look", !.update = consumer[c].update + 1,
                                         !.last = consumer[c].last]
                k == link[posted[consumer[c].update].to]
                insert == [consumer[c] EXCEPT !.pc = "insert", !.card = k, !.st = case[k].st,
                                              !.thread = case[k].thread]
    <3>1. \/ consumer' = [consumer EXCEPT ![c] = fetch]
          \/ consumer' = [consumer EXCEPT ![c] = save]
          \/ consumer' = [consumer EXCEPT ![c] = look]
          \/ consumer' = [consumer EXCEPT ![c] = next]
          \/ consumer' = [consumer EXCEPT ![c] = insert]
          \/ consumer' = [consumer EXCEPT ![c] = NoUpdate]
      BY <1>1, <1>5 DEF SyncCases, FetchUpdates, LookUpCase, RecordStaffReply, SaveOffset,
                        ConsumerFails, NextUpdate, Step
    <3>2. /\ fetch.pc = "fetch" /\ save.pc = "save" /\ look.pc = "look" /\ next.pc = "look"
          /\ insert.pc = "insert" /\ NoUpdate.pc = "idle"
      BY <1>1 DEF Reading, NoUpdate
    <3>. HIDE DEF fetch, save, look, next, insert
    <3>. QED  BY <3>1, <3>2
  <2>5. \A d \in Consumers, u \in Updates : Delivers(d, u)' => Delivers(d, u)
    BY <1>4, <2>4
  <2>. QED  BY <2>1, <2>3, <2>5, AnswersStay
\* The row is written once, by the consumer that goes on to deliver the reply.
<1>6. ASSUME NEW c \in Consumers, InsertResult(c) PROVE AnswersInOrder'
  <2>1. consumer[c].update \in Updates /\ UNCHANGED queued
    BY <1>6, RepliesTyped DEF InsertResult, InBatch
  <2>2. PICK u \in Updates : u = consumer[c].update
    BY <2>1
  <2>3. CASE result[u].st # "none"
    <3>1. result' = result /\ consumer' = [consumer EXCEPT ![c] = [consumer[c] EXCEPT !.pc = "save"]]
      BY <1>1, <1>6, <2>2, <2>3 DEF InsertResult, Step
    <3>. DEFINE new == [consumer[c] EXCEPT !.pc = "save"]
    <3>2. new.pc # "deliver" /\ consumer' = [consumer EXCEPT ![c] = new]
      BY <1>1, <3>1 DEF Reading
    <3>. HIDE DEF new
    <3>. QED  BY <1>4, <2>1, <3>1, <3>2, AnswersStay
  <2>4. CASE result[u].st = "none"
    <3>1. /\ result' = [result EXCEPT ![u].st = "PENDING", ![u].thread = consumer[c].thread]
          /\ consumer' = [consumer EXCEPT ![c].pc = "deliver"]
      BY <1>6, <2>2, <2>4 DEF InsertResult, Step
    <3>2. /\ result'[u].st = "PENDING"
          /\ \A v \in Updates : v # u => result'[v] = result[v]
      BY <1>1, <3>1 DEF Results
    <3>3. \A d \in Consumers, v \in Updates :
             Delivers(d, v)' => (d = c /\ v = u) \/ (d # c /\ Delivers(d, v))
      BY <1>1, <2>2, <3>1 DEF Delivers, Reading
    <3>4. queued[u] = 0 /\ \A d \in Consumers : ~Delivers(d, u)
      BY <2>4 DEF AnswersInOrder
    <3>5. ASSUME NEW v \in Updates
          PROVE  /\ queued'[v] # 0 => queued'[v] = 1 /\ result'[v].st # "none"
                 /\ \A d \in Consumers : Delivers(d, v)' => result'[v].st # "none" /\ queued'[v] = 0
      BY <2>1, <3>2, <3>3, <3>4 DEF AnswersInOrder
    <3>6. ASSUME NEW v \in Updates, NEW d \in Consumers, NEW e \in Consumers,
                 Delivers(d, v)', Delivers(e, v)'
          PROVE  d = e
      BY <3>3, <3>4, <3>6 DEF AnswersInOrder
    <3>. QED  BY <3>5, <3>6 DEF AnswersInOrder
  <2>. QED  BY <2>3, <2>4
\* Nobody else is delivering the reply that is queued.
<1>7. ASSUME NEW c \in Consumers, DeliverReply(c) PROVE AnswersInOrder'
  <2>1. consumer[c].update \in Updates /\ consumer[c].pc = "deliver"
    BY <1>7, RepliesTyped DEF DeliverReply, InBatch
  <2>2. PICK u \in Updates : u = consumer[c].update
    BY <2>1
  <2>3. /\ result' = [result EXCEPT ![u].st = "PROCESSED"]
        /\ consumer' = [consumer EXCEPT ![c].pc = "record"]
        /\ \/ queued' = [queued EXCEPT ![u] = queued[u]]
           \/ queued' = [queued EXCEPT ![u] = queued[u] + 1]
    BY <1>7, <2>2 DEF DeliverReply, Step
  <2>4. Delivers(c, u) /\ queued[u] = 0
    BY <2>1, <2>2 DEF AnswersInOrder, Delivers
  <2>5. /\ result'[u].st = "PROCESSED" /\ queued'[u] \in {0, 1}
        /\ \A v \in Updates : v # u => result'[v] = result[v] /\ queued'[v] = queued[v]
    BY <1>1, <2>3, <2>4 DEF Results
  <2>6. \A d \in Consumers, v \in Updates : Delivers(d, v)' => d # c /\ Delivers(d, v)
    BY <1>1, <2>3 DEF Delivers, Reading
  <2>7. \A d \in Consumers : ~Delivers(d, u)'
    BY <2>4, <2>6 DEF AnswersInOrder
  <2>8. ASSUME NEW v \in Updates
        PROVE  /\ queued'[v] # 0 => queued'[v] = 1 /\ result'[v].st # "none"
               /\ \A d \in Consumers : Delivers(d, v)' => result'[v].st # "none" /\ queued'[v] = 0
    BY <2>5, <2>6, <2>7 DEF AnswersInOrder
  <2>9. ASSUME NEW v \in Updates, NEW d \in Consumers, NEW e \in Consumers,
               Delivers(d, v)', Delivers(e, v)'
        PROVE  d = e
    BY <2>6, <2>9 DEF AnswersInOrder
  <2>. QED  BY <2>8, <2>9 DEF AnswersInOrder
<1>8. ASSUME NEW u \in Updates, ResultLease(u) \/ ResultReject(u) PROVE AnswersInOrder'
  <2>1. /\ UNCHANGED <<queued, consumer>>
        /\ \/ result[u].st = "PENDING" /\ result' = [result EXCEPT ![u].leased = TRUE]
           \/ \E row : row.st # "none" /\ result' = [result EXCEPT ![u] = row]
    <3>1. CASE ResultLease(u)
      BY <3>1 DEF ResultLease
    <3>2. CASE ResultReject(u)
      <4>. DEFINE st == IF result[u].retry + 2 >= MaxRetries THEN "FAILED" ELSE "PENDING"
                  done == [result[u] EXCEPT !.leased = FALSE, !.st = "PROCESSED"]
                  failed == [result[u] EXCEPT !.leased = FALSE, !.retry = result[u].retry + 1,
                                              !.st = st]
      <4>1. /\ UNCHANGED <<queued, consumer>>
            /\ result' = [result EXCEPT ![u] = IF conv[result[u].thread] \in Locked THEN done ELSE failed]
        BY <3>2 DEF ResultReject
      <4>2. st # "none"
        OBVIOUS
      <4>. HIDE DEF st
      <4>3. done.st # "none" /\ failed.st # "none"
        BY <1>1, <4>2 DEF Results
      <4>. HIDE DEF done, failed
      <4>. QED  BY <4>1, <4>3
    <3>. QED  BY <1>8, <3>1, <3>2
  <2>2. \A v \in Updates : result[v].st # "none" => result'[v].st # "none"
    BY <1>1, <2>1 DEF Results
  <2>3. \A d \in Consumers, v \in Updates : Delivers(d, v)' => Delivers(d, v)
    BY <2>1 DEF Delivers
  <2>. QED  BY <2>1, <2>2, <2>3, AnswersStay
<1>9. CASE \/ \E t \in Threads : LeaseExpires(t)
           \/ \E m \in Messages, text \in Texts : StaffReplies(m, text)
           \/ \E t \in Threads, confirms \in BOOLEAN, root \in 0 .. MaxCards :
                 GatewayDecides(t, confirms, root)
           \/ \E takenOver \in BOOLEAN : GatewayCommits(takenOver)
           \/ \E t \in Threads, st \in Locked : AgentTakesOver(t, st)
           \/ UNCHANGED vars
  <2>1. UNCHANGED <<queued, result, consumer>>
    BY <1>9 DEF LeaseExpires, StaffReplies, GatewayDecides, GatewayCommits, AgentTakesOver, vars
  <2>. QED  BY <1>2, <2>1
<1>. QED
  BY <1>3, <1>5, <1>6, <1>7, <1>8, <1>9 DEF Next, ConsumerStep

-----------------------------------------------------------------------------
(* The disputes *)

\* A command that has a row keeps one.
LEMMA RemindersRemain ==
    ASSUME Shape, AnyReminder, NEW t \in Threads, NEW row, row.st # "none",
           command' = command \/ command' = [command EXCEPT ![t] = row]
    PROVE  AnyReminder'
<1>1. command \in [Threads -> Commands]
  BY TablesTyped
<1>2. PICK s \in Threads : s > 1 /\ command[s].st # "none"
  BY DEF AnyReminder
<1>3. command'[s].st # "none"
  BY <1>1, <1>2
<1>. QED  BY <1>2, <1>3 DEF AnyReminder

\* The workers neither dispute a case nor forget its reminder.
LEMMA DisputesFromWorker ==
    ASSUME Shape, DisputesInOrder, NEW w \in Workers, WorkerStep(w) \/ WorkerFault(w)
    PROVE  DisputesInOrder'
<1>. USE DEF telegramVars, workVars, replyVars, gatewayVars
<1>1. /\ command \in [Threads -> Commands] /\ worker[w] \in Work /\ worker[w].cmd \in Threads
      /\ case \in [Cards -> [st : CaseStatuses, thread : Threads]]
  BY TablesTyped DEF Work
<1>2. PICK t \in Threads : t = worker[w].cmd
  BY <1>1
<1>3. AnyReminder => AnyReminder'
  <2>1. ASSUME AnyReminder, NEW row, Finish(w, row), row.st # "none" PROVE AnyReminder'
    BY <1>2, <2>1, RemindersRemain DEF Finish
  <2>2. \A st \in {"SKIPPED", "SENT", "UNCERTAIN", "FAILED"} :
           Settled(command[t], st).st # "none" /\ Settled(command[1], st).st # "none"
    BY <1>1, Numbers, RowsTyped DEF RowStatuses
  <2>3. Failed(command[t]).st # "none" /\ Failed(command[1]).st # "none"
    BY <1>1, Numbers, RowsTyped
  <2>4. CASE \E s \in Threads : CommandLease(w, s)
    <3>1. PICK s \in Threads : CommandLease(w, s)
      BY <2>4
    <3>. DEFINE row == [command[s] EXCEPT !.locked = TRUE]
    <3>2. row.st # "none" /\ command' = [command EXCEPT ![s] = row]
      BY <1>1, <3>1 DEF CommandLease, Commands
    <3>. HIDE DEF row
    <3>. QED  BY <3>2, RemindersRemain
  <2>5. CASE \/ CommandCheck(w) \/ CommandMarkSent(w) \/ CommandMark(w) \/ PostCardFails(w)
             \/ CommandFails(w) \/ CommandCrash(w)
    <3>1. \/ command' = command
          \/ Finish(w, Failed(command[t])) \/ Finish(w, Failed(command[1]))
          \/ \E st \in {"SKIPPED", "SENT", "UNCERTAIN", "FAILED"} :
                Finish(w, Settled(command[t], st)) \/ Finish(w, Settled(command[1], st))
      BY <1>2, <2>5 DEF CommandCheck, CommandMarkSent, CommandMark, PostCardFails, CommandFails,
                        CommandCrash
    <3>2. command' = command => (AnyReminder => AnyReminder')
      BY DEF AnyReminder
    <3>. QED  BY <2>1, <2>2, <2>3, <3>1, <3>2
  <2>6. CASE \/ PostCard(w) \/ EmitCreated(w) \/ ReserveFollowup(w) \/ CancelFollowup(w)
             \/ MarkFollowupSending(w) \/ PostFollowup(w) \/ RecordFollowupSent(w) \/ MarkFollowup(w)
             \/ PostFollowupFails(w)
    <3>1. command' = command
      BY <2>6 DEF PostCard, EmitCreated, ReserveFollowup, CancelFollowup, MarkFollowupSending,
                  PostFollowup, RecordFollowupSent, MarkFollowup, PostFollowupFails
    <3>. QED  BY <3>1 DEF AnyReminder
  <2>. QED  BY <2>4, <2>5, <2>6 DEF WorkerStep, WorkerFault
<1>4. consumer' = consumer
  BY DEF WorkerStep, WorkerFault, CommandLease, CommandCheck, PostCard, EmitCreated,
         CommandMarkSent, CommandMark, ReserveFollowup, CancelFollowup, MarkFollowupSending,
         PostFollowup, RecordFollowupSent, MarkFollowup, PostCardFails, PostFollowupFails,
         CommandFails, CommandCrash
<1>5. case' = case \/ case' = [case EXCEPT ![worker[w].card].thread = worker[w].cmd]
  BY DEF WorkerStep, WorkerFault, CommandLease, CommandCheck, PostCard, EmitCreated,
         CommandMarkSent, CommandMark, ReserveFollowup, CancelFollowup, MarkFollowupSending,
         PostFollowup, RecordFollowupSent, MarkFollowup, PostCardFails, PostFollowupFails,
         CommandFails, CommandCrash
<1>6. \A k \in Cards : case'[k].st = case[k].st
  BY <1>1, <1>5
<1>. QED  BY <1>3, <1>4, <1>6 DEF DisputesInOrder, Disputed

\* Every step keeps the disputes and their reminders.
LEMMA DisputesKept ==
    ASSUME Shape, DisputesInOrder, [Next]_vars
    PROVE  DisputesInOrder'
<1>. USE DEF telegramVars, workVars, replyVars, gatewayVars
<1>1. /\ command \in [Threads -> Commands] /\ case \in [Cards -> Cases]
      /\ consumer \in [Consumers -> Reading]
  BY TablesTyped, RepliesTyped DEF Cases
<1>2. CASE \E w \in Workers : WorkerStep(w) \/ WorkerFault(w)
  BY <1>2, DisputesFromWorker
<1>3. ASSUME NEW c \in Consumers, ConsumerStep(c) \/ ConsumerFails(c) PROVE DisputesInOrder'
  <2>1. command' = command
    BY <1>3, ShapeConsumer DEF CaseFrame
  <2>2. \A k \in Cards : case'[k].st = "completion_disputed" => Disputed
    <3>1. CASE \/ FetchUpdates(c) \/ LookUpCase(c) \/ InsertResult(c) \/ RecordStaffReply(c)
               \/ SaveOffset(c) \/ ConsumerFails(c)
      <4>1. case' = case
        BY <3>1 DEF FetchUpdates, LookUpCase, InsertResult, RecordStaffReply, SaveOffset, ConsumerFails
      <4>. QED  BY <4>1 DEF Disputed
    <3>2. CASE SyncCases(c)
      <4>1. case' = [k \in Cards |-> IF k \in created /\ case[k].st = "none"
                                     THEN [case[k] EXCEPT !.st = "awaiting_review"] ELSE case[k]]
        BY <3>2 DEF SyncCases
      <4>2. \A k \in Cards : case'[k].st = "awaiting_review" \/ case'[k] = case[k]
        BY <1>1, <4>1 DEF Cases
      <4>. QED  BY <4>2 DEF Disputed
    <3>3. CASE DeliverReply(c)
      <4>. DEFINE k == consumer[c].card
                  after == CaseAfter(posted[consumer[c].update].text, consumer[c].st, case[k].st)
      <4>1. k \in Cards
        BY <3>3 DEF DeliverReply, Shape, ReadingInOrder
      <4>2. case' = [case EXCEPT ![k].st = case[k].st] \/ case' = [case EXCEPT ![k].st = after]
        BY <1>1, <3>3, <4>1 DEF DeliverReply
      <4>3. after = "completion_disputed" =>
               case[k].st = "completion_disputed" \/ consumer[c].st = "completion_disputed"
        BY DEF CaseAfter, Classify, Sticky
      <4>. HIDE DEF k, after
      <4>4. \A j \in Cards : case'[j].st = case[j].st \/ (j = k /\ case'[j].st = after)
        BY <1>1, <4>1, <4>2 DEF Cases
      <4>. QED  BY <4>1, <4>3, <4>4 DEF Disputed
    <3>. QED  BY <1>3, <3>1, <3>2, <3>3 DEF ConsumerStep
  <2>3. \A d \in Consumers : consumer'[d].st = "completion_disputed" => Disputed
    <3>1. CASE LookUpCase(c)
      <4>. DEFINE k == link[posted[consumer[c].update].to]
                  save == [consumer[c] EXCEPT !.pc = "save"]
                  insert == [consumer[c] EXCEPT !.pc = "insert", !.card = k, !.st = case[k].st,
                                                !.thread = case[k].thread]
      <4>1. \/ consumer' = [consumer EXCEPT ![c] = save]
            \/ k # 0 /\ consumer' = [consumer EXCEPT ![c] = insert]
        BY <1>1, <3>1 DEF LookUpCase
      <4>2. k # 0 => k \in Cards
        <5>1. k \in 0 .. MaxCards
          BY <3>1, TablesTyped, RepliesTyped DEF LookUpCase, InBatch
        <5>. QED  BY <5>1 DEF Cards
      <4>3. save.st = consumer[c].st /\ insert.st = case[k].st
        BY <1>1 DEF Reading
      <4>. HIDE DEF k, save, insert
      <4>4. \A d \in Consumers : \/ consumer'[d] = consumer[d]
                                 \/ d = c /\ consumer'[d] = save
                                 \/ d = c /\ k # 0 /\ consumer'[d] = insert
        BY <1>1, <4>1
      <4>. QED  BY <4>2, <4>3, <4>4 DEF Disputed
    <3>2. CASE SyncCases(c) \/ InsertResult(c) \/ DeliverReply(c) \/ RecordStaffReply(c)
      <4>1. \E pc : Step(c, pc)
        BY <3>2 DEF SyncCases, InsertResult, DeliverReply, RecordStaffReply
      <4>2. \A d \in Consumers : consumer'[d].st = consumer[d].st
        BY <1>1, <4>1 DEF Step, Reading
      <4>. QED  BY <4>2 DEF Disputed
    <3>3. CASE FetchUpdates(c) \/ SaveOffset(c) \/ ConsumerFails(c)
      <4>. DEFINE look == [NoUpdate EXCEPT !.pc = "look", !.update = offset + 1, !.last = Len(posted)]
                  next == [NoUpdate EXCEPT !.pc = "look", !.update = consumer[c].update + 1,
                                           !.last = consumer[c].last]
      <4>1. \E new \in {NoUpdate, look, next} : consumer' = [consumer EXCEPT ![c] = new]
        BY <3>3 DEF FetchUpdates, SaveOffset, ConsumerFails, NextUpdate
      <4>2. NoUpdate.st = "none" /\ look.st = "none" /\ next.st = "none"
        BY DEF NoUpdate
      <4>. HIDE DEF look, next
      <4>3. \A d \in Consumers : consumer'[d] = consumer[d] \/ consumer'[d].st = "none"
        BY <1>1, <4>1, <4>2
      <4>. QED  BY <4>3 DEF Disputed
    <3>. QED  BY <1>3, <3>1, <3>2, <3>3 DEF ConsumerStep
  <2>4. Disputed' => Disputed
    BY <2>2, <2>3 DEF Disputed
  <2>. QED  BY <2>1, <2>4 DEF DisputesInOrder, AnyReminder
\* The dispute and its reminder are written in one transaction.
<1>4. ASSUME NEW takenOver \in BOOLEAN, GatewayCommits(takenOver) PROVE DisputesInOrder'
  <2>. DEFINE row == [command[turn.thread] EXCEPT !.st = "PENDING", !.card = turn.card]
  <2>1. turn # NoTurn /\ consumer' = consumer
    BY <1>4 DEF GatewayCommits
  <2>2. turn.thread \in Threads /\ turn.thread > 1 /\ turn.card \in Cards
    BY <2>1, Numbers DEF Shape, TurnInOrder, Threads
  <2>3. PICK t \in Threads : t = turn.thread
    BY <2>2
  <2>4. row.st = "PENDING"
    BY <1>1, <2>2 DEF Commands
  <2>5. command' = command \/ command' = [command EXCEPT ![t] = row]
    BY <1>1, <1>4, <2>3 DEF GatewayCommits
  <2>6. takenOver \/ turn.confirms \/ command[t].st # "none" \/ command' = [command EXCEPT ![t] = row]
    BY <1>1, <1>4, <2>3 DEF GatewayCommits
  <2>. HIDE DEF row
  <2>7. AnyReminder => AnyReminder'
    BY <2>4, <2>5, RemindersRemain
  <2>8. command'[t].st # "none" \/ takenOver \/ turn.confirms
    BY <1>1, <2>4, <2>5, <2>6
  <2>9. takenOver \/ turn.confirms => \A k \in Cards : case'[k].st = "completion_disputed" => Disputed
    <3>1. takenOver \/ turn.confirms =>
            case' = case \/ case' = [case EXCEPT ![turn.card].st = "completed_confirmed_by_customer"]
      BY <1>4 DEF GatewayCommits
    <3>. QED  BY <1>1, <2>2, <3>1 DEF Disputed, Cases
  <2>10. CASE takenOver \/ turn.confirms
    <3>1. Disputed' => Disputed
      BY <2>1, <2>9, <2>10 DEF Disputed
    <3>. QED  BY <2>7, <3>1 DEF DisputesInOrder
  <2>11. CASE command'[t].st # "none"
    <3>1. AnyReminder'
      BY <2>2, <2>3, <2>11 DEF AnyReminder
    <3>. QED  BY <3>1 DEF DisputesInOrder
  <2>. QED  BY <2>8, <2>10, <2>11
<1>5. CASE \E t \in Threads : LeaseExpires(t)
  <2>1. PICK t \in Threads : LeaseExpires(t)
    BY <1>5
  <2>2. /\ command' = [command EXCEPT ![t].locked = FALSE] /\ UNCHANGED <<case, consumer>>
    BY <2>1 DEF LeaseExpires
  <2>3. \A s \in Threads : command'[s].st = command[s].st
    BY <1>1, <2>2 DEF Commands
  <2>. QED  BY <2>2, <2>3 DEF DisputesInOrder, Disputed, AnyReminder
<1>6. CASE \/ \E u \in Updates : ResultLease(u) \/ ResultReject(u)
           \/ \E m \in Messages, text \in Texts : StaffReplies(m, text)
           \/ \E t \in Threads, confirms \in BOOLEAN, root \in 0 .. MaxCards :
                 GatewayDecides(t, confirms, root)
           \/ \E t \in Threads, st \in Locked : AgentTakesOver(t, st)
           \/ UNCHANGED vars
  <2>1. UNCHANGED <<command, case, consumer>>
    BY <1>6 DEF ResultLease, ResultReject, StaffReplies, GatewayDecides, AgentTakesOver, vars
  <2>. QED  BY <2>1 DEF DisputesInOrder, Disputed, AnyReminder
<1>. QED  BY <1>2, <1>3, <1>4, <1>5, <1>6 DEF Next

-----------------------------------------------------------------------------
(* The invariant, and the order of the answers *)

\* The card has just been queued: nothing is known, posted or answered.
LEMMA InitHolds == Init => Inv
<1>. SUFFICES ASSUME Init PROVE Inv
  OBVIOUS
<1>. USE DEF Init, NoWork, NoUpdate, NoTurn
<1>1. /\ setup.turns \in Nat /\ setup.faults \in Nat /\ setup.replies \in Nat /\ setup \in Setups
  BY ConstantsAssumption
<1>2. command \in [Threads -> Commands]
  BY Numbers DEF Commands, RowStatuses
<1>3. worker \in [Workers -> Work] /\ \A w \in Workers : ~Busy(w) /\ worker[w].pc = "idle"
  BY Numbers DEF Work, WorkerPoints, Busy
<1>4. /\ consumer \in [Consumers -> Reading]
      /\ \A c \in Consumers : ~InBatch(c) /\ consumer[c] = NoUpdate
  BY Numbers DEF Reading, InBatch, CaseStatuses
<1>5. /\ posted = <<>> /\ posted \in Seq([to : Messages, text : setup.texts]) /\ Len(posted) = 0
  OBVIOUS
<1>6. /\ case \in [Cards -> Cases] /\ link \in [Messages -> 0 .. MaxCards]
      /\ followup \in [Threads -> [st : FollowupStatuses, number : Nat]]
      /\ reminded \in [Threads -> Nat] /\ result \in [Updates -> Results]
      /\ queued \in [Updates -> Nat] /\ conv \in [Threads -> ConvStatuses]
  BY Numbers DEF Cases, CaseStatuses, FollowupStatuses, Results, ConvStatuses
<1>7. TypeOK
  <2>1. \A w \in Workers : worker[w].cmd \in Threads /\ worker[w].card \in 0 .. MaxCards
    BY <1>3 DEF Work
  <2>2. \A c \in Consumers : consumer[c].update \in 0 .. Len(posted) + 1 /\ consumer[c].st \in CaseStatuses
    BY <1>4, <1>5 DEF Reading
  <2>3. cards \in 0 .. MaxCards /\ created \subseteq 1 .. cards /\ offset \in 0 .. Len(posted)
        /\ opened \in Threads /\ turns \in 0 .. setup.turns /\ faults \in 0 .. setup.faults
    BY <1>1, <1>5, Numbers
  <2>. QED  BY <1>1, <1>2, <1>5, <1>6, <2>1, <2>2, <2>3 DEF TypeOK, Commands, Cases, Results
<1>8. WorkInOrder
  BY <1>3 DEF WorkInOrder
<1>9. ReadingInOrder
  BY <1>1, <1>4, <1>5 DEF ReadingInOrder
<1>10. TurnInOrder
  BY Numbers DEF TurnInOrder, Turns, CaseStatuses
<1>11. RemindersInOrder
  BY <1>3 DEF RemindersInOrder
<1>12. NumbersDistinct /\ NumbersBounded
  BY DEF NumbersDistinct, NumbersBounded
<1>13. AnswersInOrder
  BY <1>4 DEF AnswersInOrder, Delivers
<1>14. DisputesInOrder
  BY <1>4 DEF DisputesInOrder, Disputed
<1>. QED  BY <1>7, <1>8, <1>9, <1>10, <1>11, <1>12, <1>13, <1>14 DEF Inv, Shape

\* Every step keeps the invariant.
LEMMA InvKept == Inv /\ [Next]_vars => Inv'
BY ShapeKept, RemindersKept, AnswersKept, DisputesKept DEF Inv

\* The invariant holds in every run: a worker has its command and a reminder its
\* row, a reminder is out only when its row says it may be, and whoever wrote a
\* result row delivers its reply.
THEOREM CaseInvariant == Spec => []Inv
BY InitHolds, InvKept, PTL DEF Spec

\* A staff reply is queued once, a reminder is posted once under a number of its
\* own, and a dispute has its reminder, whatever fails and however often Telegram
\* returns an update.
THEOREM CaseIsSound == Spec => []CaseSound
<1>1. Inv => CaseSound
  <2>. SUFFICES ASSUME Inv PROVE CaseSound
    OBVIOUS
  <2>1. QueuedOnce
    BY RepliesTyped DEF Inv, AnswersInOrder, QueuedOnce
  <2>2. RemindedOnce
    BY TablesTyped DEF Inv, RemindersInOrder, RemindedOnce
  <2>3. DisputeHasReminder
    BY DEF Inv, DisputesInOrder, Disputed, AnyReminder, DisputeHasReminder
  <2>. QED  BY <2>1, <2>2, <2>3 DEF Inv, Shape, CaseSound
<1>. QED  BY <1>1, CaseInvariant, PTL

\* A consumer works on the update after the stored offset, and no later one has
\* been answered.
Ahead ==
    /\ \A c \in Consumers : InBatch(c) => consumer[c].update = offset + 1
    /\ \A u \in Updates : queued[u] # 0 => u <= offset + 1

\* One consumer keeps it that way.
LEMMA AheadKept ==
    ASSUME \A c, d \in Consumers : c = d
    PROVE  Shape /\ Ahead /\ [Next]_vars =>
             /\ Ahead'
             /\ \A u, v \in Updates : u < v /\ queued[v] > 0 => queued'[u] = queued[u]
<1>. SUFFICES ASSUME Shape, Ahead, [Next]_vars
              PROVE  /\ Ahead'
                     /\ \A u, v \in Updates : u < v /\ queued[v] > 0 => queued'[u] = queued[u]
  OBVIOUS
<1>. USE DEF telegramVars, workVars, replyVars, gatewayVars
<1>1. /\ offset \in Nat /\ consumer \in [Consumers -> Reading] /\ queued \in [Updates -> Nat]
      /\ Updates \subseteq Nat
  BY RepliesTyped, Numbers
<1>2. CASE UNCHANGED <<offset, consumer, queued>>
  BY <1>2 DEF Ahead, InBatch
<1>3. CASE \E w \in Workers : WorkerStep(w) \/ WorkerFault(w)
  <2>1. UNCHANGED <<offset, consumer, queued>>
    BY <1>3 DEF WorkerStep, WorkerFault, CommandLease, CommandCheck, PostCard, EmitCreated,
                CommandMarkSent, CommandMark, ReserveFollowup, CancelFollowup, MarkFollowupSending,
                PostFollowup, RecordFollowupSent, MarkFollowup, PostCardFails, PostFollowupFails,
                CommandFails, CommandCrash
  <2>. QED  BY <1>2, <2>1
\* A consumer that stays with its update, or leaves the batch.
<1>4. ASSUME NEW c \in Consumers, NEW new, consumer' = [consumer EXCEPT ![c] = new], offset' = offset,
             \/ new.pc \in {"idle", "fetch"} \/ new.update = offset + 1
      PROVE  \A d \in Consumers : InBatch(d)' => consumer'[d].update = offset' + 1
  BY <1>1, <1>4 DEF Ahead, InBatch
<1>5. ASSUME NEW c \in Consumers,
             \/ SyncCases(c) \/ FetchUpdates(c) \/ LookUpCase(c) \/ InsertResult(c)
             \/ RecordStaffReply(c) \/ ConsumerFails(c)
      PROVE  Ahead' /\ queued' = queued
  <2>1. UNCHANGED <<offset, queued>>
    BY <1>5 DEF SyncCases, FetchUpdates, LookUpCase, InsertResult, RecordStaffReply, ConsumerFails
  <2>. DEFINE look == [NoUpdate EXCEPT !.pc = "look", !.update = offset + 1, !.last = Len(posted)]
              k == link[posted[consumer[c].update].to]
              insert == [consumer[c] EXCEPT !.pc = "insert", !.card = k, !.st = case[k].st,
                                            !.thread = case[k].thread]
              fetch == [consumer[c] EXCEPT !.pc = "fetch"]
              deliver == [consumer[c] EXCEPT !.pc = "deliver"]
              save == [consumer[c] EXCEPT !.pc = "save"]
  <2>2. \/ consumer' = [consumer EXCEPT ![c] = fetch]
        \/ consumer' = [consumer EXCEPT ![c] = NoUpdate]
        \/ consumer' = [consumer EXCEPT ![c] = look]
        \/ InBatch(c) /\ \E new \in {insert, deliver, save} : consumer' = [consumer EXCEPT ![c] = new]
    BY <1>1, <1>5 DEF SyncCases, FetchUpdates, LookUpCase, InsertResult, RecordStaffReply,
                      ConsumerFails, Step, InBatch
  <2>3. /\ fetch.pc = "fetch" /\ NoUpdate.pc = "idle" /\ look.update = offset + 1
        /\ insert.update = consumer[c].update /\ deliver.update = consumer[c].update
        /\ save.update = consumer[c].update
    BY <1>1 DEF Reading, NoUpdate
  <2>4. InBatch(c) => consumer[c].update = offset + 1
    BY DEF Ahead
  <2>. HIDE DEF look, insert, fetch, deliver, save
  <2>5. \A d \in Consumers : InBatch(d)' => consumer'[d].update = offset' + 1
    BY <1>4, <2>1, <2>2, <2>3, <2>4
  <2>. QED  BY <2>1, <2>5 DEF Ahead
<1>6. ASSUME NEW c \in Consumers, DeliverReply(c)
      PROVE  /\ Ahead'
             /\ \A u, v \in Updates : u < v /\ queued[v] > 0 => queued'[u] = queued[u]
  <2>. DEFINE new == [consumer[c] EXCEPT !.pc = "record"]
              x == consumer[c].update
  <2>1. /\ InBatch(c) /\ offset' = offset /\ consumer' = [consumer EXCEPT ![c] = new]
        /\ queued' = [queued EXCEPT ![x] = queued[x]] \/ queued' = [queued EXCEPT ![x] = queued[x] + 1]
    BY <1>1, <1>6 DEF DeliverReply, Step, InBatch
  <2>2. new.update = offset + 1 /\ x = offset + 1
    BY <1>1, <2>1 DEF Ahead, Reading
  <2>. HIDE DEF new
  <2>3. \A d \in Consumers : InBatch(d)' => consumer'[d].update = offset' + 1
    BY <1>4, <2>1, <2>2
  <2>4. \A u \in Updates : u # offset + 1 => queued'[u] = queued[u]
    BY <1>1, <2>1, <2>2
  <2>5. \A u \in Updates : queued'[u] # 0 => u <= offset' + 1
    BY <1>1, <2>1, <2>4 DEF Ahead
  <2>6. \A v \in Updates : queued[v] > 0 => v <= offset + 1
    BY <1>1 DEF Ahead
  <2>7. \A u, v \in Updates : u < v /\ queued[v] > 0 => u # offset + 1
    BY <1>1, <2>6
  <2>. QED  BY <2>3, <2>4, <2>5, <2>7 DEF Ahead
\* The stored offset moves with the consumer, which is the only one.
<1>7. ASSUME NEW c \in Consumers, SaveOffset(c) PROVE Ahead' /\ queued' = queued
  <2>. DEFINE x == consumer[c].update
  <2>1. /\ InBatch(c) /\ queued' = queued /\ offset' = Max({offset, x})
        /\ consumer' = [consumer EXCEPT ![c] = NextUpdate(c)]
    BY <1>7 DEF SaveOffset, InBatch
  <2>2. x = offset + 1
    BY <2>1 DEF Ahead
  <2>3. offset' = offset + 1
    <3>. DEFINE next == offset + 1
    <3>1. next \in Nat /\ offset \in Nat /\ ~(offset >= next) /\ offset' = Max({offset, next})
      BY <1>1, <2>1, <2>2
    <3>. HIDE DEF next
    <3>2. offset' = next
      BY <3>1, MaxPair
    <3>. QED  BY <3>2 DEF next
  <2>4. NextUpdate(c).pc = "idle" \/ NextUpdate(c).update = x + 1
    BY DEF NextUpdate, NoUpdate
  <2>5. ASSUME NEW d \in Consumers, InBatch(d)' PROVE consumer'[d].update = offset' + 1
    <3>1. d = c /\ consumer'[d] = NextUpdate(c)
      BY <1>1, <2>1
    <3>2. NextUpdate(c).update = x + 1
      BY <2>4, <2>5, <3>1 DEF InBatch
    <3>. HIDE DEF x
    <3>. QED  BY <1>1, <2>2, <2>3, <3>1, <3>2
  <2>6. \A u \in Updates : queued[u] # 0 => u <= offset' + 1
    BY <1>1, <2>3 DEF Ahead
  <2>. QED  BY <2>1, <2>5, <2>6 DEF Ahead
<1>8. CASE \E c \in Consumers : ConsumerStep(c) \/ ConsumerFails(c)
  BY <1>5, <1>6, <1>7, <1>8 DEF ConsumerStep
<1>9. CASE \/ \E t \in Threads : LeaseExpires(t)
           \/ \E u \in Updates : ResultLease(u) \/ ResultReject(u)
           \/ \E m \in Messages, text \in Texts : StaffReplies(m, text)
           \/ \E t \in Threads, confirms \in BOOLEAN, root \in 0 .. MaxCards :
                 GatewayDecides(t, confirms, root)
           \/ \E takenOver \in BOOLEAN : GatewayCommits(takenOver)
           \/ \E t \in Threads, st \in Locked : AgentTakesOver(t, st)
           \/ UNCHANGED vars
  <2>1. UNCHANGED <<offset, consumer, queued>>
    BY <1>9 DEF LeaseExpires, ResultLease, ResultReject, StaffReplies, GatewayDecides,
                GatewayCommits, AgentTakesOver, vars
  <2>. QED  BY <1>2, <2>1
<1>. QED  BY <1>3, <1>8, <1>9 DEF Next

\* Where one consumer reads the staff's messages, their answers are queued in the
\* order in which they were written: a failed update ends the batch, and the next
\* batch begins with it.
THEOREM AnswersFollowStaff ==
    ASSUME \A c, d \in Consumers : c = d
    PROVE  Spec => RepliesInOrder
<1>1. Init => Ahead
  BY DEF Init, Ahead, InBatch, NoUpdate
<1>2. Shape /\ Ahead /\ [Next]_vars =>
         /\ Ahead'
         /\ \A u, v \in Updates : u < v /\ queued[v] > 0 => queued'[u] = queued[u]
  BY AheadKept
<1>3. Inv => Shape
  BY DEF Inv
<1>. QED  BY <1>1, <1>2, <1>3, CaseInvariant, PTL DEF Spec, RepliesInOrder
=============================================================================
