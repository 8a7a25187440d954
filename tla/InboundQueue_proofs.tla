------------------------ MODULE InboundQueue_proofs ------------------------
(***************************************************************************)
(* Proofs about InboundQueue for every number of chats, deliveries,        *)
(* workers, crashes and failures.  The last part is about the receivers,   *)
(* which fill the queue (LivechatIngress).                                 *)
(***************************************************************************)
EXTENDS InboundQueue, MCLivechatIngress, TLAPS

\* Every id a worker holds, under a live lease or a lost one, belongs to a
\* customer event whose predecessors in the chat are all processed.
HeldIdsAreHeads ==
    \A w \in Workers : \A i \in Holding(w) :
        /\ ~IsIgnored(i)
        /\ \A j \in Ids : j < i /\ Chat(j) = Chat(i) /\ ~IsIgnored(j)
                            => inbound[j].processed

\* The inductive invariant that does not depend on leases.
QueueInv == TypeOK /\ HeldIdsAreHeads /\ ProcessedInOrder /\ NoEventDropped

USE DEF Ids, Row, Attempt, Chat, IsIgnored, LoadedBase

\* What appending to a sequence does to its length and its elements.
LEMMA AppendFacts ==
    ASSUME NEW S, NEW s \in Seq(S), NEW e \in S
    PROVE  /\ Len(s) \in Nat
           /\ Len(Append(s, e)) = Len(s) + 1
           /\ \A n \in 1 .. Len(s) : Append(s, e)[n] = s[n]
           /\ Append(s, e)[Len(s) + 1] = e
OBVIOUS

\* The elements of a sequence, and functions that are sequences.
LEMMA SeqElement ==
    ASSUME NEW S, NEW s \in Seq(S), NEW n \in 1 .. Len(s)
    PROVE  s[n] \in S
OBVIOUS

\* A function whose domain is an initial segment is a sequence.
LEMMA FunctionIsSeq ==
    ASSUME NEW S, NEW m \in Nat, NEW f \in [1 .. m -> S]
    PROVE  f \in Seq(S) /\ Len(f) = m
<1>1. f \in Seq(S)
    OBVIOUS
<1> QED BY <1>1

\* The ids a worker holds are ids of rows.
LEMMA HoldingType ==
    ASSUME TypeOK, NEW w \in Workers
    PROVE  Holding(w) \subseteq Ids
BY DEF TypeOK, Holding

\* The initial state satisfies the lease-independent invariant.
LEMMA QueueInvInit == Init => QueueInv
<1> SUFFICES ASSUME Init PROVE QueueInv
    OBVIOUS
<1> USE ConstantsAssumption
<1>1. TypeOK
    BY DEF Init, TypeOK
<1>2. \A w \in Workers : Holding(w) = {}
    BY DEF Init, Holding
<1>3. HeldIdsAreHeads
    BY <1>2 DEF HeldIdsAreHeads
<1>4. ProcessedInOrder /\ NoEventDropped
    BY DEF Init, ProcessedInOrder, NoEventDropped
<1> QED BY <1>1, <1>3, <1>4 DEF QueueInv

\* Every step of the queue keeps its variables in their types.
LEMMA TypeStep == TypeOK /\ [Next]_vars => TypeOK'
<1> SUFFICES ASSUME TypeOK, [Next]_vars PROVE TypeOK'
    OBVIOUS
<1> USE ConstantsAssumption DEF TypeOK
<1>1. ASSUME NEW k \in Keys, Insert(k) PROVE TypeOK'
    BY <1>1 DEF Insert, NewRow
<1>2. ASSUME NEW k \in Keys, InsertDuplicate(k) PROVE TypeOK'
    BY <1>2 DEF InsertDuplicate, vars
<1>3. ASSUME NEW w \in Workers, LeaseUnprocessed(w) PROVE TypeOK'
    <2> DEFINE batch == FirstOf(Leasable, BatchLimit)
    <2>1. batch \subseteq Ids
        BY DEF FirstOf, Leasable
    <2> HIDE DEF batch
    <2>2. /\ inbound' = [i \in Ids |->
                 IF i \in batch
                 THEN [inbound[i] EXCEPT !.locked_by = w, !.lease_expired = FALSE]
                 ELSE inbound[i]]
          /\ waiting' = [waiting EXCEPT ![w] = batch]
          /\ UNCHANGED <<lastId, running, applied, crashes, failures>>
        BY <1>3 DEF LeaseUnprocessed, batch
    <2> QED BY <2>1, <2>2
<1>4. ASSUME NEW w \in Workers, NEW i \in waiting[w], LoadConversation(w, i)
      PROVE  TypeOK'
    <2>1. i \in Ids /\ Chat(i) \in Chats
        OBVIOUS
    <2>2. Len(applied[Chat(i)]) \in Nat
        BY <2>1
    <2> QED BY <1>4, <2>1, <2>2 DEF LoadConversation
<1>5. ASSUME NEW w \in Workers, NEW a \in running[w], CommitEvent(w, a)
      PROVE  TypeOK'
    <2>1. a \in [id : Ids, base : Nat] /\ a \in Attempt /\ Chat(a.id) \in Chats
        OBVIOUS
    <2>2. applied' \in [Chats -> Seq(Attempt)]
        BY <1>5, <2>1 DEF CommitEvent
    <2>3. inbound' \in [Ids -> Row]
        BY <1>5, <2>1 DEF CommitEvent, Released
    <2> QED BY <1>5, <2>2, <2>3 DEF CommitEvent
<1>6. ASSUME NEW w \in Workers, NEW a \in running[w], FailEvent(w, a)
      PROVE  TypeOK'
    <2>1. a.id \in Ids /\ failures' \in Nat
        BY <1>6 DEF FailEvent
    <2>2. Released(inbound[a.id]) \in Row
        BY <2>1 DEF Released
    <2> QED BY <1>6, <2>1, <2>2 DEF FailEvent
<1>7. ASSUME NEW w \in Workers, Crash(w) PROVE TypeOK'
    BY <1>7 DEF Crash
<1>8. ASSUME NEW i \in Ids, LeaseExpires(i) PROVE TypeOK'
    BY <1>8 DEF LeaseExpires
<1>9. ASSUME RecoverExpiredLeases PROVE TypeOK'
    BY <1>9 DEF RecoverExpiredLeases, Released
<1>10. ASSUME UNCHANGED vars PROVE TypeOK'
    BY <1>10 DEF vars
<1> QED BY <1>1, <1>2, <1>3, <1>4, <1>5, <1>6, <1>7, <1>8, <1>9, <1>10 DEF Next

\* What a lease does: it takes a batch of leasable rows and changes nothing
\* but their owner.
LEMMA LeaseEffect ==
    ASSUME TypeOK, NEW w \in Workers, LeaseUnprocessed(w)
    PROVE  \E batch \in SUBSET Leasable :
              /\ Holding(w) = {}
              /\ waiting' = [waiting EXCEPT ![w] = batch]
              /\ UNCHANGED <<lastId, running, applied>>
              /\ \A i \in Ids :
                    /\ inbound'[i].key = inbound[i].key
                    /\ inbound'[i].processed = inbound[i].processed
              /\ \A i \in batch : inbound'[i].locked_by = w /\ ~inbound'[i].lease_expired
              /\ \A i \in Ids \ batch : inbound'[i] = inbound[i]
<1> DEFINE batch == FirstOf(Leasable, BatchLimit)
<1>1. batch \subseteq Leasable /\ Leasable \subseteq Ids
    BY DEF FirstOf, Leasable
<1> HIDE DEF batch
<1>2. /\ Holding(w) = {}
      /\ inbound' = [i \in Ids |->
             IF i \in batch
             THEN [inbound[i] EXCEPT !.locked_by = w, !.lease_expired = FALSE]
             ELSE inbound[i]]
      /\ waiting' = [waiting EXCEPT ![w] = batch]
      /\ UNCHANGED <<lastId, running, applied>>
    BY DEF LeaseUnprocessed, batch
<1>3. ASSUME NEW i \in Ids
      PROVE  /\ inbound'[i].key = inbound[i].key
             /\ inbound'[i].processed = inbound[i].processed
             /\ i \in batch => inbound'[i].locked_by = w /\ ~inbound'[i].lease_expired
             /\ i \notin batch => inbound'[i] = inbound[i]
    <2>1. inbound[i] \in Row
        BY DEF TypeOK
    <2>2. CASE i \in batch
        BY <1>2, <2>1, <2>2
    <2>3. CASE i \notin batch
        BY <1>2, <2>1, <2>3
    <2> QED BY <2>2, <2>3
<1> QED BY <1>1, <1>2, <1>3

\* What recovery does: it releases rows whose lease has run out.
LEMMA RecoverEffect ==
    ASSUME TypeOK, RecoverExpiredLeases
    PROVE  /\ UNCHANGED <<lastId, waiting, running, applied>>
           /\ \A i \in Ids :
                 /\ inbound'[i].key = inbound[i].key
                 /\ inbound'[i].processed = inbound[i].processed
                 /\ ~inbound[i].lease_expired => inbound'[i] = inbound[i]
<1>1. ASSUME NEW i \in Ids
      PROVE  /\ inbound'[i].key = inbound[i].key
             /\ inbound'[i].processed = inbound[i].processed
             /\ ~inbound[i].lease_expired => inbound'[i] = inbound[i]
    <2>1. inbound[i] \in Row
        BY DEF TypeOK
    <2>2. inbound'[i] = IF IsRecoverable(i) THEN Released(inbound[i]) ELSE inbound[i]
        BY DEF RecoverExpiredLeases
    <2> QED BY <2>1, <2>2 DEF Released, IsRecoverable
<1> QED BY <1>1 DEF RecoverExpiredLeases

\* No step drops a row, unmarks it or changes its delivery.
RowsKept ==
    /\ lastId' >= lastId
    /\ \A i \in Ids :
          /\ inbound'[i].key = inbound[i].key
          /\ inbound[i].processed => inbound'[i].processed
    /\ \A i \in Ids' \ Ids : ~inbound'[i].processed

\* No step removes a row, changes its key or takes its processed mark back.
LEMMA RowsKeptStep == TypeOK /\ [Next]_vars => RowsKept
<1> SUFFICES ASSUME TypeOK, [Next]_vars PROVE RowsKept
    OBVIOUS
<1>0. ASSUME RecoverExpiredLeases
      PROVE  /\ lastId' = lastId
             /\ \A i \in Ids :
                   /\ inbound'[i].key = inbound[i].key
                   /\ inbound'[i].processed = inbound[i].processed
    BY <1>0, RecoverEffect
<1> USE ConstantsAssumption DEF TypeOK, RowsKept
<1>1. ASSUME NEW k \in Keys, Insert(k) PROVE RowsKept
    <2>1. /\ lastId' = lastId + 1
          /\ \A i \in Ids : inbound'[i] = inbound[i]
          /\ ~inbound'[lastId + 1].processed
        BY <1>1 DEF Insert, NewRow
    <2>2. Ids' \ Ids = {lastId + 1}
        BY <2>1
    <2> QED BY <2>1, <2>2
<1>2. ASSUME NEW k \in Keys, InsertDuplicate(k) PROVE RowsKept
    BY <1>2 DEF InsertDuplicate, vars
<1>3. ASSUME NEW w \in Workers, LeaseUnprocessed(w) PROVE RowsKept
    BY <1>3, LeaseEffect
<1>4. ASSUME NEW w \in Workers, NEW i \in waiting[w], LoadConversation(w, i)
      PROVE  RowsKept
    BY <1>4 DEF LoadConversation
<1>5. ASSUME NEW w \in Workers, NEW a \in running[w], CommitEvent(w, a)
      PROVE  RowsKept
    <2>1. a.id \in Ids
        OBVIOUS
    <2>2. [Released(inbound[a.id]) EXCEPT !.processed = TRUE].key = inbound[a.id].key
        BY <2>1 DEF Released
    <2> QED BY <1>5, <2>1, <2>2 DEF CommitEvent, Released
<1>6. ASSUME NEW w \in Workers, NEW a \in running[w], FailEvent(w, a)
      PROVE  RowsKept
    <2>1. a.id \in Ids
        OBVIOUS
    <2>2. /\ Released(inbound[a.id]).key = inbound[a.id].key
          /\ Released(inbound[a.id]).processed = inbound[a.id].processed
        BY <2>1 DEF Released
    <2> QED BY <1>6, <2>1, <2>2 DEF FailEvent
<1>7. ASSUME NEW w \in Workers, Crash(w) PROVE RowsKept
    BY <1>7 DEF Crash
<1>8. ASSUME NEW i \in Ids, LeaseExpires(i) PROVE RowsKept
    BY <1>8 DEF LeaseExpires
<1>9. ASSUME RecoverExpiredLeases PROVE RowsKept
    BY <1>9, <1>0
<1>10. ASSUME UNCHANGED vars PROVE RowsKept
    BY <1>10 DEF vars
<1> QED BY <1>1, <1>2, <1>3, <1>4, <1>5, <1>6, <1>7, <1>8, <1>9, <1>10 DEF Next

\* What workers hold after a step: what they held before, or rows that were
\* leasable.
HeldOrLeased ==
    \A w \in Workers : \A i \in Holding(w)' : i \in Holding(w) \/ i \in Leasable

\* What a worker holds after a step it held before or has just leased.
LEMMA HeldOrLeasedStep == TypeOK /\ [Next]_vars => HeldOrLeased
<1> SUFFICES ASSUME TypeOK, [Next]_vars PROVE HeldOrLeased
    OBVIOUS
<1>3. ASSUME NEW v \in Workers, LeaseUnprocessed(v) PROVE HeldOrLeased
    <2>1. PICK batch \in SUBSET Leasable :
             waiting' = [waiting EXCEPT ![v] = batch] /\ UNCHANGED running
        BY <1>3, LeaseEffect
    <2>2. waiting \in [Workers -> SUBSET Ids]
        BY DEF TypeOK
    <2> QED BY <2>1, <2>2 DEF HeldOrLeased, Holding
<1>9. RecoverExpiredLeases => UNCHANGED <<waiting, running>>
    BY DEF RecoverExpiredLeases
<1> USE DEF TypeOK, HeldOrLeased, Holding
<1>1. ASSUME NEW k \in Keys, Insert(k) PROVE HeldOrLeased
    BY <1>1 DEF Insert
<1>2. ASSUME NEW k \in Keys, InsertDuplicate(k) PROVE HeldOrLeased
    BY <1>2 DEF InsertDuplicate, vars
<1>4. ASSUME NEW w \in Workers, NEW i \in waiting[w], LoadConversation(w, i)
      PROVE  HeldOrLeased
    BY <1>4 DEF LoadConversation
<1>5. ASSUME NEW w \in Workers, NEW a \in running[w], CommitEvent(w, a)
      PROVE  HeldOrLeased
    BY <1>5 DEF CommitEvent
<1>6. ASSUME NEW w \in Workers, NEW a \in running[w], FailEvent(w, a)
      PROVE  HeldOrLeased
    BY <1>6 DEF FailEvent
<1>7. ASSUME NEW w \in Workers, Crash(w) PROVE HeldOrLeased
    BY <1>7 DEF Crash
<1>8. ASSUME NEW i \in Ids, LeaseExpires(i) PROVE HeldOrLeased
    BY <1>8 DEF LeaseExpires
<1>10. ASSUME UNCHANGED vars PROVE HeldOrLeased
    BY <1>10 DEF vars
<1> QED BY <1>1, <1>2, <1>3, <1>4, <1>5, <1>6, <1>7, <1>8, <1>9, <1>10 DEF Next

\* The predecessors of a held row stay processed, and a newly leased row has
\* none that is pending.
LEMMA HeadsStep ==
    ASSUME TypeOK, HeldIdsAreHeads, [Next]_vars
    PROVE  HeldIdsAreHeads'
<1> SUFFICES ASSUME NEW w \in Workers, NEW i \in Holding(w)'
             PROVE  /\ ~IsIgnored(i)'
                    /\ \A j \in Ids' : j < i /\ Chat(j)' = Chat(i)' /\ ~IsIgnored(j)'
                                         => inbound'[j].processed
    BY DEF HeldIdsAreHeads
<1>1. RowsKept /\ HeldOrLeased /\ TypeOK'
    BY RowsKeptStep, HeldOrLeasedStep, TypeStep
<1>2. i \in Holding(w) \/ i \in Leasable
    BY <1>1 DEF HeldOrLeased
<1>3. /\ i \in Ids
      /\ ~IsIgnored(i)
      /\ \A j \in Ids : j < i /\ Chat(j) = Chat(i) /\ ~IsIgnored(j)
                          => inbound[j].processed
    <2>1. CASE i \in Holding(w)
        BY <2>1, HoldingType DEF HeldIdsAreHeads
    <2>2. CASE i \in Leasable
        BY <2>2 DEF Leasable, IsPending, IsChatHead
    <2> QED BY <1>2, <2>1, <2>2
<1>4. ASSUME NEW j \in Ids', j < i PROVE j \in Ids
    BY <1>1, <1>3, <1>4 DEF TypeOK
<1> QED BY <1>1, <1>3, <1>4 DEF RowsKept

\* A row becomes processed only while it is held, and with its transaction.
NewlyProcessedIsHeld ==
    \A i \in Ids : ~inbound[i].processed /\ inbound'[i].processed =>
        /\ \E w \in Workers : i \in Holding(w)
        /\ \E n \in 1 .. Len(applied'[Chat(i)]) : applied'[Chat(i)][n].id = i

\* The gateway log of a chat only grows.
LogGrows ==
    \A c \in Chats : /\ Len(applied'[c]) >= Len(applied[c])
                     /\ \A n \in 1 .. Len(applied[c]) : applied'[c][n] = applied[c][n]

\* What a commit writes: one mark and one entry at the end of the log.
LEMMA CommitFacts ==
    ASSUME TypeOK, NEW w \in Workers, NEW a \in running[w], CommitEvent(w, a)
    PROVE  /\ a.id \in Ids /\ a.id \in Holding(w) /\ Chat(a.id) \in Chats
           /\ lastId' = lastId /\ waiting' = waiting
           /\ running' = [running EXCEPT ![w] = @ \ {a}]
           /\ inbound'[a.id].processed /\ inbound'[a.id].key = inbound[a.id].key
           /\ \A i \in Ids \ {a.id} : inbound'[i] = inbound[i]
           /\ applied'[Chat(a.id)] = Append(applied[Chat(a.id)], a)
           /\ \A c \in Chats \ {Chat(a.id)} : applied'[c] = applied[c]
<1>1. a.id \in Ids /\ a.id \in Holding(w)
    BY DEF TypeOK, Holding
<1>2. Chat(a.id) \in Chats
    BY <1>1, ConstantsAssumption DEF TypeOK
<1>3. inbound'[a.id] = [Released(inbound[a.id]) EXCEPT !.processed = TRUE]
    BY <1>1 DEF TypeOK, CommitEvent
<1>4. inbound[a.id] \in Row
    BY <1>1 DEF TypeOK
<1>5. inbound'[a.id].processed /\ inbound'[a.id].key = inbound[a.id].key
    BY <1>3, <1>4 DEF Released
<1>6. \A i \in Ids \ {a.id} : inbound'[i] = inbound[i]
    BY <1>1 DEF TypeOK, CommitEvent
<1>7. /\ applied'[Chat(a.id)] = Append(applied[Chat(a.id)], a)
      /\ \A c \in Chats \ {Chat(a.id)} : applied'[c] = applied[c]
    BY <1>2 DEF TypeOK, CommitEvent
<1> QED BY <1>1, <1>2, <1>5, <1>6, <1>7 DEF CommitEvent

\* Only a commit marks rows or extends a log.
LEMMA OnlyCommits ==
    ASSUME TypeOK, [Next]_vars,
           ~ \E w \in Workers : \E a \in running[w] : CommitEvent(w, a)
    PROVE  /\ UNCHANGED applied
           /\ \A i \in Ids : inbound'[i].processed = inbound[i].processed
<1> DEFINE Goal == /\ UNCHANGED applied
                   /\ \A i \in Ids : inbound'[i].processed = inbound[i].processed
<1>3. ASSUME NEW w \in Workers, LeaseUnprocessed(w) PROVE Goal
    BY <1>3, LeaseEffect
<1>9. ASSUME RecoverExpiredLeases PROVE Goal
    BY <1>9, RecoverEffect
<1> USE DEF TypeOK
<1>1. ASSUME NEW k \in Keys, Insert(k) PROVE Goal
    BY <1>1 DEF Insert
<1>2. ASSUME NEW k \in Keys, InsertDuplicate(k) PROVE Goal
    BY <1>2 DEF InsertDuplicate, vars
<1>4. ASSUME NEW w \in Workers, NEW i \in waiting[w], LoadConversation(w, i)
      PROVE  Goal
    BY <1>4 DEF LoadConversation
<1>6. ASSUME NEW w \in Workers, NEW a \in running[w], FailEvent(w, a)
      PROVE  Goal
    <2>1. a.id \in Ids /\ inbound[a.id] \in Row
        OBVIOUS
    <2>2. Released(inbound[a.id]).processed = inbound[a.id].processed
        BY <2>1 DEF Released
    <2> QED BY <1>6, <2>1, <2>2 DEF FailEvent
<1>7. ASSUME NEW w \in Workers, Crash(w) PROVE Goal
    BY <1>7 DEF Crash
<1>8. ASSUME NEW i \in Ids, LeaseExpires(i) PROVE Goal
    BY <1>8 DEF LeaseExpires
<1>10. ASSUME UNCHANGED vars PROVE Goal
    BY <1>10 DEF vars
<1> QED BY <1>1, <1>2, <1>3, <1>4, <1>6, <1>7, <1>8, <1>9, <1>10 DEF Next

\* Every step leaves each log alone or appends to it.
LEMMA LogGrowsStep == ASSUME TypeOK, [Next]_vars PROVE LogGrows
<1>1. CASE \E w \in Workers : \E a \in running[w] : CommitEvent(w, a)
    <2>0. PICK w \in Workers : \E a \in running[w] : CommitEvent(w, a)
        BY <1>1
    <2>1. PICK a \in running[w] : CommitEvent(w, a)
        BY <2>0
    <2>2. /\ Chat(a.id) \in Chats
          /\ applied'[Chat(a.id)] = Append(applied[Chat(a.id)], a)
          /\ \A c \in Chats \ {Chat(a.id)} : applied'[c] = applied[c]
        BY <2>1, CommitFacts
    <2>3. a \in Attempt /\ \A c \in Chats : applied[c] \in Seq(Attempt)
        BY <2>1 DEF TypeOK
    <2>4. ASSUME NEW c \in Chats
          PROVE  /\ Len(applied'[c]) >= Len(applied[c])
                 /\ \A n \in 1 .. Len(applied[c]) : applied'[c][n] = applied[c][n]
        <3>1. CASE c = Chat(a.id)
            <4>1. applied'[c] = Append(applied[c], a)
                BY <2>2, <3>1
            <4>2. applied[c] \in Seq(Attempt)
                BY <2>3
            <4>3. /\ Len(applied[c]) \in Nat
                  /\ Len(Append(applied[c], a)) = Len(applied[c]) + 1
                  /\ \A n \in 1 .. Len(applied[c]) :
                        Append(applied[c], a)[n] = applied[c][n]
                BY <2>3, <4>2, AppendFacts
            <4> QED BY <4>1, <4>3
        <3>2. CASE c # Chat(a.id)
            BY <2>2, <2>3, <3>2
        <3> QED BY <3>1, <3>2
    <2> QED BY <2>4 DEF LogGrows
<1>2. CASE ~ \E w \in Workers : \E a \in running[w] : CommitEvent(w, a)
    <2>1. UNCHANGED applied
        BY <1>2, OnlyCommits
    <2>2. \A c \in Chats : applied[c] \in Seq(Attempt)
        BY DEF TypeOK
    <2> QED BY <2>1, <2>2 DEF LogGrows
<1> QED BY <1>1, <1>2

\* A row becomes processed only by a commit of a worker that holds it.
LEMMA NewlyProcessedStep == ASSUME TypeOK, [Next]_vars PROVE NewlyProcessedIsHeld
<1>1. CASE \E w \in Workers : \E a \in running[w] : CommitEvent(w, a)
    <2>0. PICK w \in Workers : \E a \in running[w] : CommitEvent(w, a)
        BY <1>1
    <2>1. PICK a \in running[w] : CommitEvent(w, a)
        BY <2>0
    <2>2. /\ Chat(a.id) \in Chats /\ a.id \in Holding(w) /\ a.id \in Ids
          /\ applied'[Chat(a.id)] = Append(applied[Chat(a.id)], a)
          /\ \A i \in Ids \ {a.id} : inbound'[i] = inbound[i]
        BY <2>1, CommitFacts
    <2>3. a \in Attempt /\ applied[Chat(a.id)] \in Seq(Attempt)
        BY <2>1, <2>2 DEF TypeOK
    <2>4. /\ Len(applied'[Chat(a.id)]) \in 1 .. Len(applied'[Chat(a.id)])
          /\ applied'[Chat(a.id)][Len(applied'[Chat(a.id)])] = a
        BY <2>2, <2>3, AppendFacts
    <2>5. ASSUME NEW i \in Ids, ~inbound[i].processed, inbound'[i].processed
          PROVE  i = a.id
        BY <2>2, <2>5
    <2>6. \E n \in 1 .. Len(applied'[Chat(a.id)]) : applied'[Chat(a.id)][n].id = a.id
        BY <2>4
    <2> QED BY <2>2, <2>5, <2>6 DEF NewlyProcessedIsHeld
<1>2. CASE ~ \E w \in Workers : \E a \in running[w] : CommitEvent(w, a)
    <2>1. \A i \in Ids : inbound'[i].processed = inbound[i].processed
        BY <1>2, OnlyCommits
    <2> QED BY <2>1 DEF NewlyProcessedIsHeld
<1> QED BY <1>1, <1>2

\* The order of processing survives a step: a held row has no pending predecessor.
LEMMA OrderStep ==
    ASSUME QueueInv, [Next]_vars
    PROVE  ProcessedInOrder'
<1> SUFFICES ASSUME NEW i \in Ids', NEW j \in Ids', i < j,
                    Chat(i)' = Chat(j)', ~IsIgnored(i)', inbound'[j].processed
             PROVE  inbound'[i].processed
    BY DEF ProcessedInOrder
<1>1. TypeOK /\ TypeOK' /\ RowsKept /\ NewlyProcessedIsHeld
    BY TypeStep, RowsKeptStep, NewlyProcessedStep DEF QueueInv
<1>2. j \in Ids /\ i \in Ids
    BY <1>1 DEF RowsKept, TypeOK
<1>3. Chat(i) = Chat(j) /\ ~IsIgnored(i)
    BY <1>1, <1>2 DEF RowsKept
<1>4. inbound[i].processed
    <2>1. CASE inbound[j].processed
        BY <2>1, <1>2, <1>3 DEF QueueInv, ProcessedInOrder
    <2>2. CASE ~inbound[j].processed
        <3>1. PICK w \in Workers : j \in Holding(w)
            BY <2>2, <1>1, <1>2 DEF NewlyProcessedIsHeld
        <3> QED BY <3>1, <1>2, <1>3 DEF QueueInv, HeldIdsAreHeads
    <2> QED BY <2>1, <2>2
<1> QED BY <1>1, <1>2, <1>4 DEF RowsKept

\* A processed row stays in its log, and a newly processed one is entered there.
LEMMA DroppedStep ==
    ASSUME QueueInv, [Next]_vars
    PROVE  NoEventDropped'
<1> SUFFICES ASSUME NEW i \in Ids', inbound'[i].processed
             PROVE  \E n \in 1 .. Len(applied'[Chat(i)']) : applied'[Chat(i)'][n].id = i
    BY DEF NoEventDropped
<1>1. /\ TypeOK /\ TypeOK' /\ RowsKept /\ NewlyProcessedIsHeld /\ LogGrows
    BY TypeStep, RowsKeptStep, NewlyProcessedStep, LogGrowsStep DEF QueueInv
<1>2. i \in Ids
    BY <1>1 DEF RowsKept, TypeOK
<1>3. Chat(i)' = Chat(i) /\ Chat(i) \in Chats
    BY <1>1, <1>2, ConstantsAssumption DEF RowsKept, TypeOK
<1>4. CASE inbound[i].processed
    <2>1. PICK n \in 1 .. Len(applied[Chat(i)]) : applied[Chat(i)][n].id = i
        BY <1>2, <1>4 DEF QueueInv, NoEventDropped
    <2>2. applied[Chat(i)] \in Seq(Attempt) /\ applied'[Chat(i)] \in Seq(Attempt)
        BY <1>1, <1>3 DEF TypeOK
    <2>3. /\ Len(applied'[Chat(i)]) >= Len(applied[Chat(i)])
          /\ applied'[Chat(i)][n] = applied[Chat(i)][n]
        BY <1>1, <1>3, <2>1 DEF LogGrows
    <2>4. n \in 1 .. Len(applied'[Chat(i)])
        BY <2>1, <2>2, <2>3
    <2> QED BY <1>3, <2>1, <2>3, <2>4
<1>5. CASE ~inbound[i].processed
    BY <1>1, <1>2, <1>3, <1>5 DEF NewlyProcessedIsHeld
<1> QED BY <1>4, <1>5

\* Every step preserves the lease-independent invariant.
LEMMA QueueInvStep == QueueInv /\ [Next]_vars => QueueInv'
<1> SUFFICES ASSUME QueueInv, [Next]_vars PROVE QueueInv'
    OBVIOUS
<1>1. TypeOK'
    BY TypeStep DEF QueueInv
<1>2. HeldIdsAreHeads'
    BY HeadsStep DEF QueueInv
<1> QED BY <1>1, <1>2, OrderStep, DroppedStep DEF QueueInv

\* The variables of the queue keep their types in every behaviour.
THEOREM TypeCorrect == Spec => []TypeOK
<1>1. Init => QueueInv
    BY QueueInvInit
<1>2. QueueInv /\ [Next]_vars => QueueInv'
    BY QueueInvStep
<1>3. QueueInv => TypeOK
    BY DEF QueueInv
<1> QED BY <1>1, <1>2, <1>3, PTL DEF Spec

\* Each chat is processed first in, first out, whatever happens to leases.
THEOREM FifoPerChat == Spec => []ProcessedInOrder
<1>1. Init => QueueInv
    BY QueueInvInit
<1>2. QueueInv /\ [Next]_vars => QueueInv'
    BY QueueInvStep
<1>3. QueueInv => ProcessedInOrder
    BY DEF QueueInv
<1> QED BY <1>1, <1>2, <1>3, PTL DEF Spec

\* No event is marked processed without its gateway transaction, whatever
\* happens to leases.
THEOREM NothingDropped == Spec => []NoEventDropped
<1>1. Init => QueueInv
    BY QueueInvInit
<1>2. QueueInv /\ [Next]_vars => QueueInv'
    BY QueueInvStep
<1>3. QueueInv => NoEventDropped
    BY DEF QueueInv
<1> QED BY <1>1, <1>2, <1>3, PTL DEF Spec

-----------------------------------------------------------------------------
(* What holds while leases outlive the work done under them *)

\* A worker has at most one attempt at a row.
HeldOnce ==
    \A w \in Workers :
        /\ \A a \in running[w] : a.id \notin waiting[w]
        /\ \A a, b \in running[w] : a.id = b.id => a = b

\* Whatever a worker holds is still leased to it and still unprocessed.
HeldUnderLease ==
    \A w \in Workers : \A i \in Holding(w) :
        /\ inbound[i].locked_by = w
        /\ ~inbound[i].lease_expired
        /\ ~inbound[i].processed

\* The log of a chat holds customer events of that chat that are processed.
DoneIds(c) == {i \in Ids : Chat(i) = c /\ ~IsIgnored(i) /\ inbound[i].processed}
LogIsProcessed ==
    \A c \in Chats : \A n \in 1 .. Len(applied[c]) : applied[c][n].id \in DoneIds(c)

LeaseInv ==
    /\ QueueInv
    /\ HeldOnce
    /\ LogIsProcessed
    /\ LeaseOutlivesWork => HeldUnderLease
    /\ SnapshotIsCurrent

\* The initial state satisfies the lease-dependent invariant.
LEMMA LeaseInvInit == Init => LeaseInv
<1> SUFFICES ASSUME Init PROVE LeaseInv
    OBVIOUS
<1>1. QueueInv
    BY QueueInvInit
<1>2. \A w \in Workers : Holding(w) = {} /\ running[w] = {}
    BY DEF Init, Holding
<1>3. HeldOnce /\ HeldUnderLease /\ SnapshotIsCurrent
    BY <1>2 DEF HeldOnce, HeldUnderLease, SnapshotIsCurrent
<1>4. LogIsProcessed
    BY DEF Init, LogIsProcessed
<1> QED BY <1>1, <1>3, <1>4 DEF LeaseInv

\* A worker never holds an id twice.
LEMMA HeldOnceStep == ASSUME TypeOK, HeldOnce, [Next]_vars PROVE HeldOnce'
<1>3. ASSUME NEW v \in Workers, LeaseUnprocessed(v) PROVE HeldOnce'
    <2>1. PICK batch \in SUBSET Leasable :
             /\ Holding(v) = {}
             /\ waiting' = [waiting EXCEPT ![v] = batch]
             /\ UNCHANGED running
        BY <1>3, LeaseEffect
    <2>2. waiting \in [Workers -> SUBSET Ids]
        BY DEF TypeOK
    <2>3. running[v] = {}
        BY <2>1 DEF Holding
    <2> QED BY <2>1, <2>2, <2>3 DEF HeldOnce
<1>9. ASSUME RecoverExpiredLeases PROVE HeldOnce'
    BY <1>9 DEF RecoverExpiredLeases, HeldOnce
<1> USE DEF TypeOK, HeldOnce
<1>1. ASSUME NEW k \in Keys, Insert(k) PROVE HeldOnce'
    BY <1>1 DEF Insert
<1>2. ASSUME NEW k \in Keys, InsertDuplicate(k) PROVE HeldOnce'
    BY <1>2 DEF InsertDuplicate, vars
<1>4. ASSUME NEW w \in Workers, NEW i \in waiting[w], LoadConversation(w, i)
      PROVE  HeldOnce'
    <2> DEFINE new == [id |-> i, base |-> Len(applied[Chat(i)])]
    <2>1. new.id = i
        OBVIOUS
    <2>2. /\ waiting' = [waiting EXCEPT ![w] = @ \ {i}]
          /\ running' = [running EXCEPT ![w] = @ \cup {new}]
        BY <1>4 DEF LoadConversation
    <2> HIDE DEF new
    <2>3. ASSUME NEW v \in Workers, v # w
          PROVE  waiting'[v] = waiting[v] /\ running'[v] = running[v]
        BY <2>2, <2>3
    <2>4. waiting'[w] = waiting[w] \ {i} /\ running'[w] = running[w] \cup {new}
        BY <2>2
    <2>5. /\ \A a \in running[w] : a.id # i
          /\ \A a \in running'[w] : a.id \notin waiting'[w]
          /\ \A a, b \in running'[w] : a.id = b.id => a = b
        BY <1>4, <2>1, <2>4
    <2> QED BY <2>3, <2>5
<1>5. ASSUME NEW w \in Workers, NEW a \in running[w], CommitEvent(w, a)
      PROVE  HeldOnce'
    BY <1>5 DEF CommitEvent
<1>6. ASSUME NEW w \in Workers, NEW a \in running[w], FailEvent(w, a)
      PROVE  HeldOnce'
    BY <1>6 DEF FailEvent
<1>7. ASSUME NEW w \in Workers, Crash(w) PROVE HeldOnce'
    BY <1>7 DEF Crash
<1>8. ASSUME NEW i \in Ids, LeaseExpires(i) PROVE HeldOnce'
    BY <1>8 DEF LeaseExpires
<1>10. ASSUME UNCHANGED vars PROVE HeldOnce'
    BY <1>10 DEF vars
<1> QED BY <1>1, <1>2, <1>3, <1>4, <1>5, <1>6, <1>7, <1>8, <1>9, <1>10 DEF Next

\* The log holds processed rows only.
LEMMA LogIsProcessedStep ==
    ASSUME QueueInv, LogIsProcessed, [Next]_vars
    PROVE  LogIsProcessed'
<1>0. TypeOK /\ TypeOK' /\ RowsKept
    BY TypeStep, RowsKeptStep DEF QueueInv
<1> SUFFICES ASSUME NEW c \in Chats, NEW n \in 1 .. Len(applied'[c])
             PROVE  applied'[c][n].id \in DoneIds(c)'
    BY DEF LogIsProcessed
<1>1. \A i \in Ids : /\ i \in Ids'
                     /\ Chat(i)' = Chat(i)
                     /\ IsIgnored(i)' = IsIgnored(i)
                     /\ inbound[i].processed => inbound'[i].processed
    BY <1>0 DEF RowsKept, TypeOK
<1>2. CASE n \in 1 .. Len(applied[c]) /\ applied'[c][n] = applied[c][n]
    <2>1. applied[c][n].id \in DoneIds(c)
        BY <1>2 DEF LogIsProcessed
    <2>2. DoneIds(c) \subseteq DoneIds(c)'
        BY <1>1 DEF DoneIds
    <2> QED BY <1>2, <2>1, <2>2
<1>3. CASE ~(n \in 1 .. Len(applied[c]) /\ applied'[c][n] = applied[c][n])
    <2>1. \E w \in Workers : \E a \in running[w] : CommitEvent(w, a)
        BY <1>0, <1>3, OnlyCommits
    <2>2. PICK w \in Workers : \E a \in running[w] : CommitEvent(w, a)
        BY <2>1
    <2>3. PICK a \in running[w] : CommitEvent(w, a)
        BY <2>2
    <2>4. /\ a.id \in Ids /\ a.id \in Holding(w) /\ Chat(a.id) \in Chats
          /\ inbound'[a.id].processed
          /\ applied'[Chat(a.id)] = Append(applied[Chat(a.id)], a)
          /\ \A d \in Chats \ {Chat(a.id)} : applied'[d] = applied[d]
        BY <1>0, <2>3, CommitFacts
    <2>5. a \in Attempt /\ applied[c] \in Seq(Attempt)
        BY <1>0, <2>3 DEF TypeOK
    <2>6. c = Chat(a.id)
        BY <1>3, <2>4
    <2>7. applied'[c] = Append(applied[c], a)
        BY <2>4, <2>6
    <2>8. /\ Len(applied[c]) \in Nat
          /\ Len(Append(applied[c], a)) = Len(applied[c]) + 1
          /\ \A m \in 1 .. Len(applied[c]) : Append(applied[c], a)[m] = applied[c][m]
          /\ Append(applied[c], a)[Len(applied[c]) + 1] = a
        BY <2>5, AppendFacts
    <2>9. applied'[c][n] = a
        BY <1>3, <2>7, <2>8
    <2>10. ~IsIgnored(a.id)
        BY <2>4 DEF QueueInv, HeldIdsAreHeads
    <2>11. a.id \in DoneIds(c)'
        BY <1>1, <2>4, <2>6, <2>10 DEF DoneIds
    <2> QED BY <2>9, <2>11
<1> QED BY <1>2, <1>3

\* A row a worker finishes is held by nobody else.
LEMMA SoleHolder ==
    ASSUME TypeOK, HeldOnce, HeldUnderLease,
           NEW w \in Workers, NEW a \in running[w],
           running' = [running EXCEPT ![w] = @ \ {a}], waiting' = waiting,
           NEW v \in Workers, NEW i \in Holding(v)'
    PROVE  i \in Holding(v) /\ i # a.id
<1>1. running \in [Workers -> SUBSET [id : Ids, base : Nat]]
    BY DEF TypeOK
<1>2. i \in Holding(v)
    BY <1>1 DEF Holding
<1>3. a.id \in Holding(w)
    BY DEF Holding
<1>4. CASE v # w
    BY <1>2, <1>3, <1>4 DEF HeldUnderLease
<1>5. CASE v = w
    <2>1. running'[w] = running[w] \ {a}
        BY <1>1
    <2>2. i \in waiting[w] \/ \E b \in running[w] \ {a} : b.id = i
        BY <1>5, <2>1 DEF Holding
    <2> QED BY <1>2, <2>2 DEF HeldOnce
<1> QED BY <1>2, <1>4, <1>5

\* While leases outlive work, a held row is under its holder's live lease.
LEMMA HeldUnderLeaseStep ==
    ASSUME TypeOK, LeaseOutlivesWork, HeldOnce, HeldUnderLease, [Next]_vars
    PROVE  HeldUnderLease'
<1> DEFINE Good(v, i) == /\ inbound'[i].locked_by = v
                         /\ ~inbound'[i].lease_expired
                         /\ ~inbound'[i].processed
<1> SUFFICES ASSUME NEW v \in Workers, NEW i \in Holding(v)'
             PROVE  Good(v, i)
    BY DEF HeldUnderLease
<1>0. /\ \A u \in Workers : Holding(u) \subseteq Ids
      /\ i \in Holding(v) /\ inbound'[i] = inbound[i] => Good(v, i)
    BY HoldingType DEF HeldUnderLease
<1>3. ASSUME NEW w \in Workers, LeaseUnprocessed(w) PROVE Good(v, i)
    <2>1. PICK batch \in SUBSET Leasable :
             /\ Holding(w) = {}
             /\ waiting' = [waiting EXCEPT ![w] = batch]
             /\ UNCHANGED running
             /\ \A j \in Ids : inbound'[j].processed = inbound[j].processed
             /\ \A j \in batch : inbound'[j].locked_by = w /\ ~inbound'[j].lease_expired
             /\ \A j \in Ids \ batch : inbound'[j] = inbound[j]
        BY <1>3, LeaseEffect
    <2>2. waiting \in [Workers -> SUBSET Ids]
        BY DEF TypeOK
    <2>3. \A j \in batch : j \in Ids /\ ~inbound[j].processed
                           /\ (inbound[j].locked_by = NoWorker \/ inbound[j].lease_expired)
        BY <2>1 DEF Leasable, IsPending, IsFree
    <2>4. CASE v = w
        <3>1. i \in batch
            BY <2>1, <2>2, <2>4 DEF Holding
        <3> QED BY <2>1, <2>3, <2>4, <3>1
    <2>5. CASE v # w
        <3>1. i \in Holding(v)
            BY <2>1, <2>2, <2>5 DEF Holding
        <3>2. i \notin batch
            BY <2>3, <3>1, ConstantsAssumption DEF HeldUnderLease
        <3> QED BY <1>0, <2>1, <3>1, <3>2
    <2> QED BY <2>4, <2>5
<1>5. ASSUME NEW w \in Workers, NEW a \in running[w], CommitEvent(w, a)
      PROVE  Good(v, i)
    <2>1. i \in Holding(v) /\ i # a.id
        BY <1>5, SoleHolder DEF CommitEvent
    <2>2. \A j \in Ids \ {a.id} : inbound'[j] = inbound[j]
        BY <1>5, CommitFacts
    <2> QED BY <1>0, <2>1, <2>2
<1>6. ASSUME NEW w \in Workers, NEW a \in running[w], FailEvent(w, a)
      PROVE  Good(v, i)
    <2>1. i \in Holding(v) /\ i # a.id
        BY <1>6, SoleHolder DEF FailEvent
    <2>2. \A j \in Ids \ {a.id} : inbound'[j] = inbound[j]
        BY <1>6 DEF FailEvent, TypeOK
    <2> QED BY <1>0, <2>1, <2>2
<1>8. ASSUME NEW j \in Ids, LeaseExpires(j) PROVE Good(v, i)
    <2>1. i \in Holding(v)
        BY <1>8 DEF LeaseExpires, Holding
    <2>2. i # j
        BY <1>8, <2>1 DEF LeaseExpires
    <2>3. inbound'[i] = inbound[i]
        BY <1>0, <1>8, <2>1, <2>2 DEF LeaseExpires, TypeOK
    <2> QED BY <1>0, <2>1, <2>3
<1>9. ASSUME RecoverExpiredLeases PROVE Good(v, i)
    <2>1. i \in Holding(v)
        BY <1>9 DEF RecoverExpiredLeases, Holding
    <2>2. ~inbound[i].lease_expired /\ i \in Ids
        BY <1>0, <2>1 DEF HeldUnderLease
    <2>3. inbound'[i] = inbound[i]
        BY <1>9, <2>2, RecoverEffect
    <2> QED BY <1>0, <2>1, <2>3
<1>1. ASSUME NEW k \in Keys, Insert(k) PROVE Good(v, i)
    <2>1. i \in Holding(v)
        BY <1>1 DEF Insert, Holding
    <2>2. \A j \in Ids : inbound'[j] = inbound[j]
        BY <1>1 DEF Insert, TypeOK
    <2> QED BY <1>0, <2>1, <2>2
<1>2. ASSUME NEW k \in Keys, InsertDuplicate(k) PROVE Good(v, i)
    BY <1>0, <1>2 DEF InsertDuplicate, vars, Holding
<1>4. ASSUME NEW w \in Workers, NEW j \in waiting[w], LoadConversation(w, j)
      PROVE  Good(v, i)
    <2>1. inbound' = inbound
        BY <1>4 DEF LoadConversation
    <2>2. i \in Holding(v)
        BY <1>4 DEF LoadConversation, Holding, TypeOK
    <2> QED BY <1>0, <2>1, <2>2
<1>7. ASSUME NEW w \in Workers, Crash(w) PROVE Good(v, i)
    BY <1>0, <1>7 DEF Crash, Holding, TypeOK
<1>10. ASSUME UNCHANGED vars PROVE Good(v, i)
    BY <1>0, <1>10 DEF vars, Holding
<1> QED BY <1>1, <1>2, <1>3, <1>4, <1>5, <1>6, <1>7, <1>8, <1>9, <1>10 DEF Next

\* Two rows of one chat are never both held: the later one would have a
\* predecessor that is not processed.
LEMMA Exclusive == LeaseInv => ExclusiveChat
<1> SUFFICES ASSUME LeaseInv, LeaseOutlivesWork,
                    NEW v \in Workers, NEW w \in Workers,
                    NEW i \in Holding(v), NEW j \in Holding(w), Chat(i) = Chat(j)
             PROVE  v = w /\ i = j
    BY DEF ExclusiveChat
<1>1. HeldUnderLease /\ HeldIdsAreHeads /\ TypeOK
    BY DEF LeaseInv, QueueInv
<1>2. i \in Ids /\ j \in Ids /\ i \in Nat /\ j \in Nat
    BY <1>1, HoldingType DEF TypeOK
<1>3. ~(i < j)
    BY <1>1, <1>2 DEF HeldUnderLease, HeldIdsAreHeads
<1>4. ~(j < i)
    BY <1>1, <1>2 DEF HeldUnderLease, HeldIdsAreHeads
<1>5. i = j
    BY <1>2, <1>3, <1>4
<1> QED BY <1>1, <1>5 DEF HeldUnderLease

\* A loaded conversation stays current: only its holder commits in that chat.
LEMMA SnapshotStep ==
    ASSUME LeaseInv, LeaseOutlivesWork, [Next]_vars
    PROVE  SnapshotIsCurrent'
<1>0. /\ TypeOK /\ RowsKept /\ ExclusiveChat
      /\ \A w \in Workers : \A b \in running[w] : b.base = Len(applied[Chat(b.id)])
    BY RowsKeptStep, Exclusive DEF LeaseInv, QueueInv, SnapshotIsCurrent
<1> SUFFICES ASSUME NEW v \in Workers, NEW b \in running'[v]
             PROVE  b.base = Len(applied'[Chat(b.id)'])
    BY DEF SnapshotIsCurrent
<1>1. CASE b \in running[v]
    <2>1. b.id \in Ids /\ b.id \in Holding(v)
        BY <1>0, <1>1 DEF TypeOK, Holding
    <2>2. Chat(b.id)' = Chat(b.id) /\ Chat(b.id) \in Chats
        BY <1>0, <2>1, ConstantsAssumption DEF RowsKept, TypeOK
    <2>3. applied'[Chat(b.id)] = applied[Chat(b.id)]
        <3>1. CASE \E w \in Workers : \E a \in running[w] : CommitEvent(w, a)
            <4>1. PICK w \in Workers : \E a \in running[w] : CommitEvent(w, a)
                BY <3>1
            <4>2. PICK a \in running[w] : CommitEvent(w, a)
                BY <4>1
            <4>3. /\ a.id \in Holding(w)
                  /\ running' = [running EXCEPT ![w] = @ \ {a}]
                  /\ \A c \in Chats \ {Chat(a.id)} : applied'[c] = applied[c]
                BY <1>0, <4>2, CommitFacts
            <4>4. Chat(a.id) # Chat(b.id)
                <5> SUFFICES ASSUME Chat(a.id) = Chat(b.id) PROVE FALSE
                    OBVIOUS
                <5>1. v = w /\ b.id = a.id
                    BY <1>0, <2>1, <4>3 DEF ExclusiveChat
                <5>2. b = a
                    BY <1>1, <4>2, <5>1 DEF LeaseInv, HeldOnce
                <5> QED BY <1>0, <4>3, <5>1, <5>2 DEF TypeOK
            <4> QED BY <2>2, <4>3, <4>4
        <3>2. CASE ~ \E w \in Workers : \E a \in running[w] : CommitEvent(w, a)
            BY <1>0, <3>2, OnlyCommits
        <3> QED BY <3>1, <3>2
    <2> QED BY <1>0, <1>1, <2>2, <2>3
<1>2. CASE b \notin running[v]
    <2>0. \/ running'[v] \subseteq running[v]
          \/ \E w \in Workers : \E i \in waiting[w] : LoadConversation(w, i)
        <3>0. running \in [Workers -> SUBSET [id : Ids, base : Nat]]
            BY <1>0 DEF TypeOK
        <3>1. ASSUME NEW k \in Keys, Insert(k) \/ InsertDuplicate(k)
              PROVE  running' = running
            BY <3>1 DEF Insert, InsertDuplicate, vars
        <3>2. ASSUME NEW w \in Workers, LeaseUnprocessed(w) PROVE running' = running
            BY <3>2 DEF LeaseUnprocessed
        <3>3. ASSUME NEW w \in Workers, NEW a \in running[w],
                     CommitEvent(w, a) \/ FailEvent(w, a)
              PROVE  running'[v] \subseteq running[v]
            BY <3>0, <3>3 DEF CommitEvent, FailEvent
        <3>4. ASSUME NEW w \in Workers, Crash(w) PROVE running'[v] \subseteq running[v]
            BY <3>0, <3>4 DEF Crash
        <3>5. ASSUME NEW i \in Ids, LeaseExpires(i) PROVE running' = running
            BY <3>5 DEF LeaseExpires
        <3>6. RecoverExpiredLeases \/ UNCHANGED vars => running' = running
            BY DEF RecoverExpiredLeases, vars
        <3> QED BY <3>1, <3>2, <3>3, <3>4, <3>5, <3>6 DEF Next
    <2>1. PICK w \in Workers : \E i \in waiting[w] : LoadConversation(w, i)
        BY <1>2, <2>0
    <2>2. PICK i \in waiting[w] : LoadConversation(w, i)
        BY <2>1
    <2>3. b = [id |-> i, base |-> Len(applied[Chat(i)])]
        BY <1>0, <1>2, <2>2 DEF LoadConversation, TypeOK
    <2>4. UNCHANGED <<inbound, applied>>
        BY <2>2 DEF LoadConversation
    <2> QED BY <2>3, <2>4
<1> QED BY <1>1, <1>2

\* Every step preserves the lease-dependent invariant.
LEMMA LeaseInvStep == LeaseInv /\ [Next]_vars => LeaseInv'
<1> SUFFICES ASSUME LeaseInv, [Next]_vars PROVE LeaseInv'
    OBVIOUS
<1>1. QueueInv' /\ TypeOK
    BY QueueInvStep DEF LeaseInv, QueueInv
<1>2. HeldOnce'
    BY <1>1, HeldOnceStep DEF LeaseInv
<1>3. LogIsProcessed'
    BY LogIsProcessedStep DEF LeaseInv
<1>4. LeaseOutlivesWork => HeldUnderLease'
    BY <1>1, HeldUnderLeaseStep DEF LeaseInv
<1>5. SnapshotIsCurrent'
    <2>1. CASE LeaseOutlivesWork
        BY <2>1, SnapshotStep
    <2>2. CASE ~LeaseOutlivesWork
        BY <2>2 DEF SnapshotIsCurrent
    <2> QED BY <2>1, <2>2
<1> QED BY <1>1, <1>2, <1>3, <1>4, <1>5 DEF LeaseInv

\* While leases outlive work, no two events of a chat are ever in progress.
THEOREM ChatsExclusive == Spec => []ExclusiveChat
<1>1. Init => LeaseInv
    BY LeaseInvInit
<1>2. LeaseInv /\ [Next]_vars => LeaseInv'
    BY LeaseInvStep
<1>3. LeaseInv => ExclusiveChat
    BY Exclusive
<1> QED BY <1>1, <1>2, <1>3, PTL DEF Spec

\* While leases outlive work, no graph run is based on a superseded result.
THEOREM SnapshotsCurrent == Spec => []SnapshotIsCurrent
<1>1. Init => LeaseInv
    BY LeaseInvInit
<1>2. LeaseInv /\ [Next]_vars => LeaseInv'
    BY LeaseInvStep
<1>3. LeaseInv => SnapshotIsCurrent
    BY DEF LeaseInv
<1> QED BY <1>1, <1>2, <1>3, PTL DEF Spec

-----------------------------------------------------------------------------
(* The queue implements ChatInbox *)

\* The initial states map to initial states of ChatInbox.
LEMMA InboxInit == Init => Inbox!Init
<1> SUFFICES ASSUME Init PROVE Inbox!Init
    OBVIOUS
<1>1. ArrivedIds = [c \in Chats |-> {}]
    BY DEF Init, ArrivedIds
<1>2. AppliedIds = [c \in Chats |-> <<>>]
    BY DEF Init, AppliedIds
<1> QED BY <1>1, <1>2 DEF Inbox!Init

\* The ids consumed from a chat are exactly its processed events.
LEMMA ConsumedAreDone ==
    ASSUME LeaseInv, NEW c \in Chats
    PROVE  Inbox!ConsumedIds(c) = DoneIds(c)
<1>1. TypeOK /\ NoEventDropped /\ LogIsProcessed
    BY DEF LeaseInv, QueueInv
<1>2. applied[c] \in Seq(Attempt)
    BY <1>1 DEF TypeOK
<1>3. /\ Len(AppliedIds[c]) = Len(applied[c])
      /\ \A n \in 1 .. Len(applied[c]) : AppliedIds[c][n] = applied[c][n].id
    BY <1>2 DEF AppliedIds
<1>4. Inbox!ConsumedIds(c) = {applied[c][n].id : n \in 1 .. Len(applied[c])}
    BY <1>3 DEF Inbox!ConsumedIds
<1>5. ASSUME NEW i \in DoneIds(c)
      PROVE  \E n \in 1 .. Len(applied[c]) : applied[c][n].id = i
    BY <1>1 DEF NoEventDropped, DoneIds
<1> QED BY <1>1, <1>4, <1>5 DEF LogIsProcessed

\* A step that adds no row leaves every chat's arrived events alone.
LEMMA ArrivedUnchanged ==
    ASSUME TypeOK, [Next]_vars, lastId' = lastId
    PROVE  UNCHANGED ArrivedIds
<1>1. \A i \in Ids : inbound'[i].key = inbound[i].key
    BY RowsKeptStep DEF RowsKept
<1>2. ASSUME NEW c \in Chats
      PROVE  {i \in Ids : Chat(i) = c /\ ~IsIgnored(i)}
                = {i \in Ids' : Chat(i)' = c /\ ~IsIgnored(i)'}
    BY <1>1
<1> QED BY <1>2 DEF ArrivedIds

\* A commit consumes the oldest unconsumed event of its chat.
LEMMA CommitConsumes ==
    ASSUME LeaseInv, LeaseOutlivesWork, [Next]_vars,
           NEW w \in Workers, NEW a \in running[w], CommitEvent(w, a)
    PROVE  Inbox!Consume(Chat(a.id))
<1> DEFINE c == Chat(a.id)
<1>1. TypeOK /\ HeldIdsAreHeads /\ HeldUnderLease
    BY DEF LeaseInv, QueueInv
<1>2. /\ a.id \in Ids /\ a.id \in Holding(w) /\ c \in Chats
      /\ lastId' = lastId
      /\ applied'[c] = Append(applied[c], a)
      /\ \A d \in Chats \ {c} : applied'[d] = applied[d]
    BY <1>1, CommitFacts
<1>3. /\ ~IsIgnored(a.id) /\ ~inbound[a.id].processed
      /\ \A j \in Ids : j < a.id /\ Chat(j) = c /\ ~IsIgnored(j) => inbound[j].processed
    BY <1>1, <1>2 DEF HeldIdsAreHeads, HeldUnderLease
<1>4. UNCHANGED ArrivedIds
    BY <1>1, <1>2, ArrivedUnchanged
<1>5. Inbox!ConsumedIds(c) = DoneIds(c)
    BY <1>2, ConsumedAreDone
<1>6. ArrivedIds[c] = {i \in Ids : Chat(i) = c /\ ~IsIgnored(i)}
    BY <1>2 DEF ArrivedIds
<1>7. a.id \in ArrivedIds[c] \ Inbox!ConsumedIds(c)
    BY <1>2, <1>3, <1>5, <1>6 DEF DoneIds
<1>8. \A j \in ArrivedIds[c] \ Inbox!ConsumedIds(c) : a.id <= j
    <2> SUFFICES ASSUME NEW j \in ArrivedIds[c] \ Inbox!ConsumedIds(c)
                 PROVE  a.id <= j
        OBVIOUS
    <2>1. j \in Ids /\ Chat(j) = c /\ ~IsIgnored(j) /\ ~inbound[j].processed
        BY <1>5, <1>6 DEF DoneIds
    <2>2. ~(j < a.id)
        BY <1>3, <2>1
    <2>3. lastId \in Nat
        BY <1>1 DEF TypeOK
    <2>4. a.id \in Nat /\ j \in Nat
        BY <1>2, <2>1, <2>3
    <2> QED BY <2>2, <2>4
<1>9. AppliedIds' = [AppliedIds EXCEPT ![c] = Append(@, a.id)]
    <2> HIDE DEF c
    <2>1. applied \in [Chats -> Seq(Attempt)] /\ a \in Attempt /\ a.id \in Nat
        BY <1>1 DEF TypeOK
    <2>2. AppliedIds'[c] = Append(AppliedIds[c], a.id)
        <3>1. applied[c] \in Seq(Attempt) /\ Len(applied[c]) \in Nat
            BY <1>2, <2>1
        <3>2. /\ Len(applied'[c]) = Len(applied[c]) + 1
              /\ \A n \in 1 .. Len(applied[c]) : applied'[c][n] = applied[c][n]
              /\ applied'[c][Len(applied[c]) + 1] = a
            BY <1>2, <2>1, <3>1, AppendFacts
        <3>3. AppliedIds[c] = [n \in 1 .. Len(applied[c]) |-> applied[c][n].id]
            BY <1>2 DEF AppliedIds
        <3>4. AppliedIds'[c] = [n \in 1 .. Len(applied'[c]) |-> applied'[c][n].id]
            BY <1>2 DEF AppliedIds
        <3>5. AppliedIds[c] \in Seq(Nat) /\ Len(AppliedIds[c]) = Len(applied[c])
            <4>1. ASSUME NEW n \in 1 .. Len(applied[c])
                  PROVE  applied[c][n].id \in Nat
                <5>1. applied[c][n] \in Attempt
                    BY <3>1, SeqElement
                <5> QED BY <5>1
            <4>2. AppliedIds[c] \in [1 .. Len(applied[c]) -> Nat]
                BY <3>3, <4>1
            <4> QED BY <3>1, <4>2, FunctionIsSeq
        <3>6. Append(AppliedIds[c], a.id)
                 = [n \in 1 .. Len(applied[c]) + 1 |->
                       IF n <= Len(applied[c]) THEN applied[c][n].id ELSE a.id]
            BY <2>1, <3>1, <3>3, <3>5
        <3> QED BY <3>1, <3>2, <3>4, <3>6
    <2>3. ASSUME NEW d \in Chats \ {c} PROVE AppliedIds'[d] = AppliedIds[d]
        BY <1>2 DEF AppliedIds
    <2> QED BY <1>2, <2>2, <2>3 DEF AppliedIds
<1> QED BY <1>4, <1>7, <1>8, <1>9 DEF Inbox!Consume

\* Storing a customer event is an arrival; storing an ignored one is not.
LEMMA InsertArrives ==
    ASSUME TypeOK, NEW k \in Keys, Insert(k)
    PROVE  Inbox!Arrive(ChatOf[k]) \/ UNCHANGED <<ArrivedIds, AppliedIds>>
<1>1. /\ lastId' = lastId + 1 /\ lastId \in Nat
      /\ \A i \in Ids : inbound'[i] = inbound[i]
      /\ inbound'[lastId + 1].key = k
      /\ applied' = applied
    BY DEF Insert, NewRow, TypeOK
<1>2. UNCHANGED AppliedIds
    BY <1>1 DEF AppliedIds
<1>3. ChatOf[k] \in Chats
    BY ConstantsAssumption
<1>4. Ids' = Ids \cup {lastId + 1} /\ lastId + 1 \notin Ids /\ \A j \in Ids : j < lastId + 1
    BY <1>1
<1>5. CASE k \in Ignored
    <2>1. ASSUME NEW c \in Chats
          PROVE  {i \in Ids : Chat(i) = c /\ ~IsIgnored(i)}
                    = {i \in Ids' : Chat(i)' = c /\ ~IsIgnored(i)'}
        BY <1>1, <1>4, <1>5
    <2>2. UNCHANGED ArrivedIds
        BY <2>1 DEF ArrivedIds
    <2> QED BY <1>2, <2>2
<1>6. CASE k \notin Ignored
    <2>1. ASSUME NEW c \in Chats
          PROVE  ArrivedIds'[c] = IF c = ChatOf[k] THEN ArrivedIds[c] \cup {lastId + 1}
                                                   ELSE ArrivedIds[c]
        BY <1>1, <1>4, <1>6 DEF ArrivedIds
    <2>2. ArrivedIds' = [ArrivedIds EXCEPT ![ChatOf[k]] = @ \cup {lastId + 1}]
        BY <1>3, <2>1 DEF ArrivedIds
    <2>3. lastId + 1 \in ArrivedIds'[ChatOf[k]]
        BY <1>3, <2>1
    <2>4. \A j \in ArrivedIds[ChatOf[k]] : j < lastId + 1
        BY <1>3, <1>4 DEF ArrivedIds
    <2> QED BY <1>2, <2>2, <2>3, <2>4 DEF Inbox!Arrive
<1> QED BY <1>5, <1>6

\* Every step maps to a step of ChatInbox or to a stutter.
LEMMA InboxStep ==
    ASSUME LeaseInv, LeaseOutlivesWork, [Next]_vars
    PROVE  [Inbox!Next]_<<ArrivedIds, AppliedIds>>
<1>0. TypeOK
    BY DEF LeaseInv, QueueInv
<1>1. CASE \E k \in Keys : Insert(k)
    <2>1. PICK k \in Keys : Insert(k)
        BY <1>1
    <2>2. ChatOf[k] \in Chats
        BY ConstantsAssumption
    <2> QED BY <1>0, <2>1, <2>2, InsertArrives DEF Inbox!Next
<1>2. CASE \E w \in Workers : \E a \in running[w] : CommitEvent(w, a)
    <2>1. PICK w \in Workers : \E a \in running[w] : CommitEvent(w, a)
        BY <1>2
    <2>2. PICK a \in running[w] : CommitEvent(w, a)
        BY <2>1
    <2>3. Chat(a.id) \in Chats
        BY <1>0, <2>2, CommitFacts
    <2>4. Inbox!Consume(Chat(a.id))
        BY <2>2, CommitConsumes
    <2> QED BY <2>3, <2>4 DEF Inbox!Next
<1>3. CASE /\ ~ \E k \in Keys : Insert(k)
           /\ ~ \E w \in Workers : \E a \in running[w] : CommitEvent(w, a)
    <2>1. UNCHANGED applied
        BY <1>0, <1>3, OnlyCommits
    <2>2. lastId' = lastId
        BY <1>3 DEF Next, vars, InsertDuplicate, LeaseUnprocessed, LoadConversation,
           FailEvent, Crash, LeaseExpires, RecoverExpiredLeases
    <2>3. UNCHANGED ArrivedIds
        BY <1>0, <2>2, ArrivedUnchanged
    <2>4. UNCHANGED AppliedIds
        BY <2>1 DEF AppliedIds
    <2> QED BY <2>3, <2>4
<1> QED BY <1>1, <1>2, <1>3

\* While leases outlive work, the gateway consumes each chat's events exactly
\* once and in order: the queue implements ChatInbox.
THEOREM QueueImplementsChatInbox == LeaseOutlivesWork => (Spec => ImplementsChatInbox)
<1> SUFFICES ASSUME LeaseOutlivesWork PROVE Spec => ImplementsChatInbox
    OBVIOUS
<1>1. Init => LeaseInv /\ Inbox!Init
    BY LeaseInvInit, InboxInit
<1>2. LeaseInv /\ [Next]_vars => LeaseInv'
    BY LeaseInvStep
<1>3. LeaseInv /\ [Next]_vars => [Inbox!Next]_<<ArrivedIds, AppliedIds>>
    BY InboxStep
<1> QED BY <1>1, <1>2, <1>3, PTL DEF Spec, ImplementsChatInbox, Inbox!Spec

-----------------------------------------------------------------------------
(* The receivers that fill inbound_events *)

ingressVars == <<setup, thread, started, group, hooks, rows, human, handler, poll, faults>>

\* What LiveChat keeps.
Events == [by : Ingress!Authors, type : Ingress!Types]
LiveChatTyped ==
    /\ setup \in DOMAIN Setups
    /\ thread \in [LiveChats -> Seq(Events)]
    /\ \A c \in LiveChats : Len(thread[c]) <= MaxEvents
    /\ started \in Seq(LiveChats)
    /\ Ingress!open \subseteq LiveChats /\ \A c \in LiveChats \ Ingress!open : thread[c] = <<>>
    /\ group \in [LiveChats -> {"allowed", "other"}]
    /\ human \subseteq LiveChats
    /\ faults \in 0 .. Setups[setup].faults

\* A webhook tells of events of an open chat, its first ones or the next one.
Hooks == [action : {"incoming_chat", "incoming_event", "chat_transferred"}, chat : LiveChats,
          events : Seq(Nat), bare : BOOLEAN, group : {"allowed", "other"}]
HookTrue(hook) ==
    /\ "webhook" \in Ingress!Receivers
    /\ hook \in Hooks /\ hook.chat \in Ingress!open
    /\ \A k \in DOMAIN hook.events :
          /\ hook.events[k] \in 0 .. Len(thread[hook.chat])
          /\ hook.action = "chat_transferred" => hook.events[k] = 0
          /\ hook.action = "incoming_event" => hook.events[k] # 0
          /\ hook.action = "incoming_chat" => hook.events[k] = 1

\* A row tells what is in the thread.
RowTrue(row) ==
    /\ row \in Ingress!Rows /\ row.chat \in Ingress!open
    /\ row.event <= Len(thread[row.chat])
    /\ IF row.action = "polling.event" THEN "polling" \in Ingress!Receivers
                                       ELSE "webhook" \in Ingress!Receivers
    /\ row.action = "incoming_chat" => row.event \in {0, 1}
    /\ row.action = "incoming_event" => row.event # 0
    /\ row.action = "chat_transferred" => row.event = 0
    /\ row.public => row.event # 0 /\ thread[row.chat][row.event].by = "agent"
    /\ row.event # 0 /\ thread[row.chat][row.event].by # "customer" =>
          row.ignored \/ Ingress!LookupMayFail

\* Rows of a request under way are those of its webhook; the takeover is for one
\* that is public.
HandlerTrue(h) ==
    /\ handler[h] = [pc |-> handler[h].pc, hook |-> handler[h].hook, todo |-> handler[h].todo]
    /\ handler[h].pc \in {"idle", "insert", "mark"}
    /\ handler[h].todo \in Seq(Ingress!Rows)
    /\ handler[h].pc = "mark" => handler[h].todo # <<>> /\ handler[h].todo[1].public
    /\ handler[h].pc # "idle" => HookTrue(handler[h].hook)
    /\ \A k \in DOMAIN handler[h].todo :
          /\ handler[h].pc # "idle"
          /\ RowTrue(handler[h].todo[k])
          /\ handler[h].todo[k].chat = handler[h].hook.chat
          /\ handler[h].todo[k].action = handler[h].hook.action
          /\ handler[h].todo[k].event # 0 =>
                \E i \in DOMAIN handler[h].hook.events :
                    handler[h].hook.events[i] = handler[h].todo[k].event

RowsTrue ==
    /\ rows \in Seq(Ingress!Rows)
    /\ \A i \in DOMAIN rows : RowTrue(rows[i])
    /\ \A i, j \in DOMAIN rows :
          Ingress!_dedup_key(rows[i]) = Ingress!_dedup_key(rows[j]) => i = j

\* An agent has written where a human was noted.
HumansWritten ==
    \A c \in human : \E n \in DOMAIN thread[c] : thread[c][n].by = "agent"

\* The first event of a chat comes with the chat or on its own, never both.
TellsFirst(hook, action, c) ==
    hook.action = action /\ hook.chat = c /\ \E k \in DOMAIN hook.events : hook.events[k] = 1
FirstTold(action, c) ==
    \/ \E hook \in hooks : TellsFirst(hook, action, c)
    \/ \E h \in Handlers : handler[h].pc # "idle" /\ TellsFirst(handler[h].hook, action, c)
    \/ \E i \in DOMAIN rows : rows[i].action = action /\ rows[i].chat = c /\ rows[i].event = 1
FirstToldOnce ==
    \A c \in LiveChats : ~ (FirstTold("incoming_chat", c) /\ FirstTold("incoming_event", c))

\* A polling cycle works on open chats, and stores intros and customers' messages.
Listed(s) == s.chat \in Ingress!open /\ s.n \in 0 .. Len(thread[s.chat])
PollTrue ==
    /\ poll = [pc |-> poll.pc, queue |-> poll.queue, at |-> poll.at, todo |-> poll.todo,
               sorted |-> poll.sorted]
    /\ poll.pc \in {"idle", "chats", "detail", "insert"}
    /\ poll.queue \subseteq [chat : LiveChats, n : Nat] /\ poll.todo \subseteq Nat
    /\ \A s \in poll.queue : Listed(s)
    /\ poll.pc # "idle" => "polling" \in Ingress!Receivers
    /\ poll.pc \in {"detail", "insert"} => poll.at \in [chat : LiveChats, n : Nat] /\ Listed(poll.at)
    /\ poll.pc # "insert" => poll.todo = {}
    /\ \A n \in poll.todo : n # 0 => /\ n <= Len(thread[poll.at.chat])
                                     /\ thread[poll.at.chat][n].by = "customer"

\* Polled rows of a chat, and its intro among them.
Polled(c) == {i \in DOMAIN rows : rows[i].action = "polling.event" /\ rows[i].chat = c}
IntroStored(c) == \E i \in Polled(c) : rows[i].event = 0
NoIntroToCome(c) == TRUE \notin Ingress!SummaryThreads /\ Ingress!DetailIntro(c) = {}

IntroKept ==
    ~ Ingress!DetailForbidden /\ Ingress!SummaryThreads # BOOLEAN =>
        /\ Ingress!IntroFirst
        /\ \A c \in Ingress!open : Polled(c) # {} => IntroStored(c) \/ NoIntroToCome(c)
        /\ poll.pc = "detail" /\ TRUE \in Ingress!SummaryThreads => IntroStored(poll.at.chat)
        /\ poll.pc = "insert" =>
              /\ poll.sorted
              /\ IF 0 \in poll.todo THEN IntroStored(poll.at.chat) \/ Polled(poll.at.chat) = {}
                 ELSE poll.todo # {} => IntroStored(poll.at.chat) \/ NoIntroToCome(poll.at.chat)

IngressInv ==
    /\ LiveChatTyped /\ \A hook \in hooks : HookTrue(hook)
    /\ handler = [h \in Handlers |-> handler[h]] /\ \A h \in Handlers : HandlerTrue(h)
    /\ RowsTrue /\ HumansWritten /\ FirstToldOnce /\ PollTrue /\ IntroKept

\* What is stored tells what LiveChat has, once.
LEMMA IngressSound == Ingress!Configured /\ IngressInv => RowsSound
<1>. SUFFICES ASSUME Ingress!Configured, IngressInv
              PROVE  RowsSound
  OBVIOUS
<1>. USE DEF IngressInv
<1>1. \A c \in LiveChats : thread[c] \in Seq(Events) /\ DOMAIN thread[c] = 1 .. Len(thread[c])
                       /\ Len(thread[c]) \in Nat
  BY DEF LiveChatTyped
<1>2. Ingress!TypeOK
  <2>1. \A c \in LiveChats : \A i \in DOMAIN thread[c] :
           thread[c][i] \in [by : Ingress!Authors, type : Ingress!Types]
    BY <1>1, SeqElement DEF Events
  <2>. QED  BY <2>1 DEF Ingress!TypeOK, LiveChatTyped, HandlerTrue, RowsTrue, PollTrue
<1>3. \A i \in DOMAIN rows : RowTrue(rows[i])
  BY DEF RowsTrue
<1>4. Ingress!OneRowPerMessage
  <2>1. SUFFICES ASSUME Ingress!Receivers # {"webhook", "polling"}, NEW c \in LiveChats,
                        NEW n \in DOMAIN thread[c],
                        NEW i \in Ingress!Answerable(c, n), NEW j \in Ingress!Answerable(c, n)
                 PROVE  i = j
    BY DEF Ingress!OneRowPerMessage
  <2>2. /\ i \in DOMAIN rows /\ rows[i].chat = c /\ rows[i].event = n /\ rows[i].action # "chat_transferred"
        /\ j \in DOMAIN rows /\ rows[j].chat = c /\ rows[j].event = n /\ rows[j].action # "chat_transferred"
    BY DEF Ingress!Answerable
  <2>3. n \in Nat /\ n # 0
    BY <1>1
  <2>4. ~ ("webhook" \in Ingress!Receivers /\ "polling" \in Ingress!Receivers)
    BY <2>1 DEF Ingress!Configured, Ingress!Receivers, LiveChatTyped
  <2>5. rows[i].action \in Ingress!Actions /\ rows[j].action \in Ingress!Actions
    BY <1>3, <2>2 DEF RowTrue, Ingress!Rows
  <2>6. rows[i].action = rows[j].action
    <3>1. rows[i].action = "polling.event" <=> rows[j].action = "polling.event"
      BY <1>3, <2>2, <2>4 DEF RowTrue
    <3>2. \A k, l \in DOMAIN rows :
             ~ (/\ rows[k].action = "incoming_chat" /\ rows[k].chat = c /\ rows[k].event = n
                /\ rows[l].action = "incoming_event" /\ rows[l].chat = c /\ rows[l].event = n)
      <4>1. \A k \in DOMAIN rows : rows[k].action = "incoming_chat" => rows[k].event \in {0, 1}
        BY <1>3 DEF RowTrue
      <4>. QED  BY <2>3, <4>1 DEF FirstToldOnce, FirstTold
    <3>. QED  BY <2>2, <2>5, <3>1, <3>2 DEF Ingress!Actions
  <2>. QED  BY <2>2, <2>6 DEF RowsTrue, Ingress!_dedup_key
<1>5. Ingress!AgentIsNotCustomer
  <2>1. SUFFICES ASSUME ~ Ingress!LookupMayFail, NEW c \in LiveChats, NEW n \in DOMAIN thread[c],
                        thread[c][n].by # "customer", NEW i \in Ingress!Answerable(c, n)
                 PROVE  FALSE
    BY DEF Ingress!AgentIsNotCustomer
  <2>2. i \in DOMAIN rows /\ rows[i].chat = c /\ rows[i].event = n /\ ~ rows[i].ignored
    BY DEF Ingress!Answerable
  <2>3. n # 0
    BY <1>1
  <2>. QED  BY <1>3, <2>1, <2>2, <2>3 DEF RowTrue
<1>6. Ingress!TakeoverNeedsPublicReply
  BY DEF HumansWritten, Ingress!TakeoverNeedsPublicReply
<1>7. Ingress!IntroFirst
  BY DEF IntroKept, Ingress!IntroFirst
<1>. QED  BY <1>2, <1>4, <1>5, <1>6, <1>7 DEF RowsSound

LEMMA IngressInit ==
    ASSUME Ingress!Configured, Ingress!Init
    PROVE  IngressInv
<1>. USE DEF Ingress!Init
<1>1. LiveChatTyped
  <2>1. Ingress!open = {}
    BY DEF Ingress!open
  <2>. QED  BY <2>1 DEF LiveChatTyped, Ingress!Configured
<1>2. handler = [h \in Handlers |-> handler[h]] /\ \A h \in Handlers : HandlerTrue(h)
  <2>1. \A h \in Handlers : handler[h] = Ingress!IdleHandler
    BY DEF Ingress!Init
  <2>2. <<>> \in Seq(Ingress!Rows) /\ DOMAIN <<>> = {}
    OBVIOUS
  <2>3. ASSUME NEW h \in Handlers PROVE HandlerTrue(h)
    <3>1. /\ handler[h] = [pc |-> "idle", hook |-> 0, todo |-> <<>>]
          /\ handler[h].pc = "idle" /\ handler[h].todo = <<>>
      BY <2>1 DEF Ingress!IdleHandler
    <3>. QED  BY <2>2, <3>1 DEF HandlerTrue
  <2>. QED  BY <2>1, <2>3
<1>3. RowsTrue /\ HumansWritten
  BY DEF RowsTrue, HumansWritten
<1>4. FirstToldOnce
  BY DEF FirstToldOnce, FirstTold, Ingress!IdleHandler
<1>5. PollTrue
  BY DEF PollTrue, Ingress!IdlePoll
<1>6. IntroKept
  BY DEF IntroKept, Ingress!IntroFirst, Polled, Ingress!IdlePoll
<1>. QED  BY <1>1, <1>2, <1>3, <1>4, <1>5, <1>6 DEF IngressInv

\* LiveChat only adds: chats stay open, threads keep what they have.
ThreadsGrow ==
    /\ setup' = setup /\ Ingress!open \subseteq Ingress!open'
    /\ \A c \in LiveChats : /\ Len(thread[c]) <= Len(thread'[c])
                        /\ \A n \in 1 .. Len(thread[c]) : thread'[c][n] = thread[c][n]

LEMMA ThreadParts ==
    ASSUME LiveChatTyped, NEW c \in LiveChats
    PROVE  /\ thread[c] \in Seq(Events) /\ DOMAIN thread[c] = 1 .. Len(thread[c])
           /\ Len(thread[c]) \in Nat
BY DEF LiveChatTyped

LEMMA SetupKept ==
    ASSUME setup' = setup
    PROVE  /\ Ingress!Receivers' = Ingress!Receivers
           /\ Ingress!LookupMayFail' = Ingress!LookupMayFail
           /\ Ingress!DetailForbidden' = Ingress!DetailForbidden
           /\ Ingress!SummaryThreads' = Ingress!SummaryThreads
BY DEF Ingress!Receivers, Ingress!LookupMayFail, Ingress!DetailForbidden, Ingress!SummaryThreads

LEMMA HookKept ==
    ASSUME LiveChatTyped, LiveChatTyped', ThreadsGrow, NEW hook, HookTrue(hook)
    PROVE  HookTrue(hook)'
<1>1. hook \in Hooks /\ hook.chat \in LiveChats
  BY DEF HookTrue, Hooks
<1>2. Len(thread[hook.chat]) \in Nat /\ Len(thread'[hook.chat]) \in Nat
      /\ Len(thread[hook.chat]) <= Len(thread'[hook.chat])
  BY <1>1, ThreadParts DEF ThreadsGrow, LiveChatTyped
<1>3. \A k \in DOMAIN hook.events : hook.events[k] \in 0 .. Len(thread'[hook.chat])
  BY <1>2 DEF HookTrue
<1>. QED  BY <1>1, <1>3, SetupKept DEF HookTrue, ThreadsGrow

LEMMA RowKept ==
    ASSUME LiveChatTyped, LiveChatTyped', ThreadsGrow, NEW row, RowTrue(row)
    PROVE  RowTrue(row)'
<1>1. row \in Ingress!Rows /\ row.chat \in LiveChats /\ row.event \in 0 .. MaxEvents
  BY DEF RowTrue, Ingress!Rows
<1>2. Len(thread[row.chat]) \in Nat /\ Len(thread'[row.chat]) \in Nat
      /\ Len(thread[row.chat]) <= Len(thread'[row.chat])
  BY <1>1, ThreadParts DEF ThreadsGrow, LiveChatTyped
<1>3. row.event # 0 => thread'[row.chat][row.event] = thread[row.chat][row.event]
  BY <1>1, <1>2 DEF RowTrue, ThreadsGrow
<1>. QED  BY <1>1, <1>2, <1>3, SetupKept DEF RowTrue, ThreadsGrow

\* What is told of a first event is in the thread of an open chat.
LEMMA FirstIsThere ==
    ASSUME IngressInv, NEW c \in LiveChats, NEW action, FirstTold(action, c)
    PROVE  c \in Ingress!open /\ 1 <= Len(thread[c])
<1>1. \A hook : HookTrue(hook) /\ TellsFirst(hook, action, c) => c \in Ingress!open /\ 1 <= Len(thread[c])
  <2>1. Len(thread[c]) \in Nat
    BY ThreadParts DEF IngressInv
  <2>. QED  BY <2>1 DEF HookTrue, TellsFirst
<1>2. \A i \in DOMAIN rows : RowTrue(rows[i])
  BY DEF IngressInv, RowsTrue
<1>3. \A h \in Handlers : handler[h].pc # "idle" => HookTrue(handler[h].hook)
  BY DEF IngressInv, HandlerTrue
<1>. QED  BY <1>1, <1>2, <1>3 DEF FirstTold, IngressInv, RowTrue

LEMMA LiveChatKeeps ==
    ASSUME IngressInv, Ingress!Configured, LiveChatTyped', ThreadsGrow,
           UNCHANGED <<rows, human, handler, poll>>,
           NEW new, hooks' \subseteq hooks \cup {new},
           new \in hooks' => /\ HookTrue(new)'
                             /\ \A action, c : TellsFirst(new, action, c) =>
                                   \A other : ~ FirstTold(other, c)
    PROVE  IngressInv'
<1>. USE DEF IngressInv
<1>9. \A c \in LiveChats : /\ DOMAIN thread[c] = 1 .. Len(thread[c]) /\ Len(thread[c]) \in Nat
                       /\ DOMAIN thread'[c] = 1 .. Len(thread'[c]) /\ Len(thread'[c]) \in Nat
  BY DEF LiveChatTyped
<1>1. \A hook \in hooks' : HookTrue(hook)'
  BY HookKept
<1>2. ASSUME NEW h \in Handlers PROVE HandlerTrue(h)'
  <2>1. HandlerTrue(h)
    OBVIOUS
  <2>2. \A k \in DOMAIN handler[h].todo : RowTrue(handler[h].todo[k])'
    <3>1. \A row : RowTrue(row) => RowTrue(row)'
      BY RowKept
    <3>. QED  BY <2>1, <3>1 DEF HandlerTrue, RowTrue
  <2>3. handler[h].pc # "idle" => HookTrue(handler[h].hook)'
    <3>1. \A hook : HookTrue(hook) => HookTrue(hook)'
      BY HookKept
    <3>. QED  BY <2>1, <3>1 DEF HandlerTrue, HookTrue
  <2>. QED  BY <2>1, <2>2, <2>3 DEF HandlerTrue
<1>3. RowsTrue'
  <2>1. \A row : RowTrue(row) => RowTrue(row)'
    BY RowKept
  <2>2. \A i \in DOMAIN rows : RowTrue(rows[i])'
    BY <2>1 DEF RowsTrue, RowTrue
  <2>. QED  BY <2>2 DEF RowsTrue, Ingress!_dedup_key
<1>4. HumansWritten'
  <2>1. ASSUME NEW c \in human
        PROVE  \E n \in DOMAIN thread'[c] : thread'[c][n].by = "agent"
    <3>1. c \in LiveChats
      BY DEF LiveChatTyped
    <3>2. PICK n \in DOMAIN thread[c] : thread[c][n].by = "agent"
      BY DEF HumansWritten
    <3>3. n \in DOMAIN thread'[c] /\ thread'[c][n] = thread[c][n]
      BY <1>9, <3>1 DEF ThreadsGrow
    <3>. QED  BY <3>2, <3>3
  <2>. QED  BY <2>1 DEF HumansWritten
<1>5. FirstToldOnce'
  <2>1. \A action, c : FirstTold(action, c)' => FirstTold(action, c) \/ (new \in hooks' /\ TellsFirst(new, action, c))
    BY DEF FirstTold, TellsFirst
  <2>2. \A c : ~ (TellsFirst(new, "incoming_chat", c) /\ TellsFirst(new, "incoming_event", c))
    BY DEF TellsFirst
  <2>. QED  BY <2>1, <2>2 DEF FirstToldOnce
<1>6. \A s \in [chat : LiveChats, n : Nat] : Listed(s) => Listed(s)'
  BY ThreadParts DEF Listed, ThreadsGrow, LiveChatTyped
<1>7. PollTrue'
  <2>1. poll.todo # {} => poll.at.chat \in LiveChats /\ Len(thread[poll.at.chat]) \in Nat
                          /\ Len(thread'[poll.at.chat]) \in Nat
    BY ThreadParts DEF PollTrue, LiveChatTyped
  <2>2. \A n \in poll.todo : n # 0 => /\ n <= Len(thread'[poll.at.chat])
                                      /\ thread'[poll.at.chat][n].by = "customer"
    BY <2>1 DEF PollTrue, ThreadsGrow
  <2>3. Ingress!Receivers' = Ingress!Receivers
    BY SetupKept DEF ThreadsGrow
  <2>4. \A s \in poll.queue : Listed(s)'
    BY <1>6 DEF PollTrue
  <2>5. poll.pc \in {"detail", "insert"} => Listed(poll.at)'
    BY <1>6 DEF PollTrue, Listed
  <2>. QED  BY <2>2, <2>3, <2>4, <2>5 DEF PollTrue
<1>8. IntroKept'
  <2>1. \A c : Polled(c)' = Polled(c) /\ IntroStored(c)' = IntroStored(c)
    BY DEF Polled, IntroStored
  <2>2. \A c \in LiveChats : Ingress!DetailIntro(c) = {} => Ingress!DetailIntro(c)' = {}
    <3>1. SUFFICES ASSUME NEW c \in LiveChats, Ingress!DetailIntro(c) = {}
                   PROVE  Ingress!DetailIntro(c)' = {}
      OBVIOUS
    <3>2. PICK i \in DOMAIN thread[c] : thread[c][i].by \in {"agent", "whisper"} \/ thread[c][i].type = "rich"
      BY <3>1 DEF Ingress!DetailIntro
    <3>3. i \in DOMAIN thread'[c] /\ thread'[c][i] = thread[c][i]
      BY <1>9 DEF ThreadsGrow
    <3>. QED  BY <3>2, <3>3 DEF Ingress!DetailIntro
  <2>3. /\ Ingress!DetailForbidden' = Ingress!DetailForbidden
        /\ Ingress!SummaryThreads' = Ingress!SummaryThreads
    BY SetupKept DEF ThreadsGrow
  <2>4. \A c \in LiveChats : NoIntroToCome(c) => NoIntroToCome(c)'
    BY <2>2, <2>3 DEF NoIntroToCome
  <2>5. \A c : Polled(c) # {} => c \in Ingress!open /\ c \in LiveChats
    BY DEF Polled, RowsTrue, RowTrue, LiveChatTyped
  <2>6. Ingress!IntroFirst => Ingress!IntroFirst'
    BY <2>3 DEF Ingress!IntroFirst
  <2>7. poll.pc = "insert" => poll.at.chat \in LiveChats
    BY DEF PollTrue
  <2>. HIDE DEF IngressInv
  <2>8. IntroKept
    BY DEF IngressInv
  <2>. QED  BY <2>1, <2>3, <2>4, <2>5, <2>6, <2>7, <2>8 DEF IntroKept
<1>. QED  BY <1>1, <1>2, <1>3, <1>4, <1>5, <1>7, <1>8

LEMMA Notified ==
    ASSUME IngressInv, NEW hook, Ingress!Notify(hook)
    PROVE  hooks' \subseteq hooks \cup {hook} /\ (hook \in hooks' => "webhook" \in Ingress!Receivers)
BY DEF IngressInv, HookTrue, Ingress!Notify

LEMMA ChatStartsSound ==
    ASSUME IngressInv, Ingress!Configured, NEW c \in LiveChats, Ingress!ChatStarts(c)
    PROVE  IngressInv'
<1>1. PICK first \in {<<>>} \cup {<<[by |-> a, type |-> "message"]>> : a \in {"customer", "agent", "bot"}} :
         /\ thread' = [thread EXCEPT ![c] = first]
         /\ Ingress!Notify(Ingress!Hook("incoming_chat", c, [i \in DOMAIN first |-> i], FALSE))
  BY DEF Ingress!ChatStarts
<1>2. first \in Seq(Events) /\ Len(first) \in {0, 1} /\ DOMAIN first = 1 .. Len(first)
  <2>1. CASE first = <<>>
    BY <2>1
  <2>2. ASSUME NEW a \in {"customer", "agent", "bot"}, first = <<[by |-> a, type |-> "message"]>>
        PROVE  first \in Seq(Events) /\ Len(first) = 1 /\ DOMAIN first = 1 .. Len(first)
    <3>1. [by |-> a, type |-> "message"] \in Events
      BY DEF Events, Ingress!Authors, Ingress!Types
    <3>. QED  BY <2>2, <3>1
  <2>. QED  BY <1>1, <2>1, <2>2
<1>3. c \notin Ingress!open /\ Ingress!open' = Ingress!open \cup {c} /\ setup' = setup
      /\ UNCHANGED <<group, rows, human, handler, poll, faults>> /\ started' \in Seq(LiveChats)
  <2>1. started \in Seq(LiveChats) /\ started' = Append(started, c)
    BY DEF IngressInv, LiveChatTyped, Ingress!ChatStarts
  <2>2. /\ DOMAIN started' = DOMAIN started \cup {Len(started) + 1}
        /\ started'[Len(started) + 1] = c
        /\ \A i \in DOMAIN started : started'[i] = started[i]
    BY <2>1
  <2>3. Ingress!open' = Ingress!open \cup {c}
    BY <2>2 DEF Ingress!open
  <2>. QED  BY <2>1, <2>3 DEF Ingress!ChatStarts
<1>4. thread[c] = <<>> /\ LiveChatTyped /\ setup \in DOMAIN Setups /\ 1 <= MaxEvents /\ MaxEvents \in Nat
  BY <1>3 DEF IngressInv, LiveChatTyped, Ingress!Configured
<1>5. LiveChatTyped' /\ ThreadsGrow
  <2>1. /\ thread' \in [LiveChats -> Seq(Events)]
        /\ \A d \in LiveChats : thread'[d] = IF d = c THEN first ELSE thread[d]
    BY <1>1, <1>2, <1>4 DEF LiveChatTyped
  <2>2. Len(thread[c]) = 0
    BY <1>4
  <2>3. LiveChatTyped'
    BY <1>2, <1>3, <1>4, <2>1 DEF LiveChatTyped
  <2>4. \A d \in LiveChats : Len(thread[d]) \in Nat
    BY <1>4 DEF LiveChatTyped
  <2>5. \A d \in LiveChats : /\ Len(thread[d]) <= Len(thread'[d])
                         /\ \A n \in 1 .. Len(thread[d]) : thread'[d][n] = thread[d][n]
    BY <1>2, <2>1, <2>2, <2>4
  <2>. QED  BY <1>3, <2>3, <2>5 DEF ThreadsGrow
<1>. DEFINE evs == [i \in DOMAIN first |-> i]
<1>11. PICK new : new = Ingress!Hook("incoming_chat", c, evs, FALSE)
  OBVIOUS
<1>6. evs \in Seq(Nat) /\ \A k \in DOMAIN evs : evs[k] = 1 /\ Len(first) = 1
  <2>1. CASE Len(first) = 0
    BY <1>2, <2>1
  <2>2. CASE Len(first) = 1
    BY <1>2, <2>2
  <2>. QED  BY <1>2, <2>1, <2>2
<1>. HIDE DEF evs
<1>7. new \in Hooks /\ new.chat = c /\ new.events = evs /\ new.action = "incoming_chat"
  BY <1>4, <1>6, <1>11 DEF Ingress!Hook, Hooks, LiveChatTyped
<1>8. hooks' \subseteq hooks \cup {new} /\ (new \in hooks' => "webhook" \in Ingress!Receivers)
  BY <1>1, <1>11, Notified DEF evs
<1>9. new \in hooks' => HookTrue(new)'
  <2>1. thread'[c] = first /\ c \in Ingress!open' /\ Ingress!Receivers' = Ingress!Receivers
    BY <1>1, <1>3, <1>4, SetupKept DEF LiveChatTyped
  <2>. QED  BY <1>2, <1>6, <1>7, <1>8, <2>1 DEF HookTrue
<1>10. \A action, d : TellsFirst(new, action, d) => \A other : ~ FirstTold(other, d)
  BY <1>3, <1>7, FirstIsThere DEF TellsFirst
<1>. QED  BY <1>3, <1>5, <1>8, <1>9, <1>10, LiveChatKeeps

LEMMA EventPostedSound ==
    ASSUME IngressInv, Ingress!Configured, NEW c \in LiveChats, Ingress!EventPosted(c)
    PROVE  IngressInv'
<1>1. PICK by \in Ingress!Authors, type \in Ingress!Types, bare \in Ingress!Bare :
         /\ thread' = [thread EXCEPT ![c] = Append(@, [by |-> by, type |-> type])]
         /\ Ingress!Notify(Ingress!Hook("incoming_event", c, <<Len(thread[c]) + 1>>, bare))
  BY DEF Ingress!EventPosted
<1>2. c \in Ingress!open /\ Ingress!open' = Ingress!open /\ setup' = setup /\ Len(thread[c]) < Setups[setup].events
      /\ UNCHANGED <<started, group, rows, human, handler, poll, faults>>
  BY DEF Ingress!EventPosted, Ingress!open
<1>3. /\ LiveChatTyped /\ setup \in DOMAIN Setups /\ Setups[setup].events \in 1 .. MaxEvents
      /\ MaxEvents \in Nat /\ bare \in BOOLEAN
  BY DEF IngressInv, LiveChatTyped, Ingress!Configured, Ingress!Bare
<1>. DEFINE e == [by |-> by, type |-> type]
<1>4. e \in Events
  BY DEF Events
<1>. HIDE DEF e
<1>5. /\ thread' \in [LiveChats -> Seq(Events)]
      /\ thread'[c] = Append(thread[c], e)
      /\ \A d \in LiveChats : d # c => thread'[d] = thread[d]
  BY <1>1, <1>3, <1>4 DEF LiveChatTyped, e
<1>6. /\ Len(thread[c]) \in Nat /\ Len(thread'[c]) = Len(thread[c]) + 1
      /\ \A n \in 1 .. Len(thread[c]) : thread'[c][n] = thread[c][n]
  BY <1>3, <1>4, <1>5, AppendFacts DEF LiveChatTyped
<1>7. LiveChatTyped'
  <2>1. Len(thread'[c]) <= MaxEvents
    BY <1>2, <1>3, <1>6
  <2>. QED  BY <1>2, <1>3, <1>5, <2>1 DEF LiveChatTyped
<1>8. ThreadsGrow
  <2>1. \A d \in LiveChats : Len(thread[d]) \in Nat
    BY <1>3 DEF LiveChatTyped
  <2>. QED  BY <1>2, <1>5, <1>6, <2>1 DEF ThreadsGrow
<1>14. PICK evs : evs = <<Len(thread[c]) + 1>>
  OBVIOUS
<1>15. PICK new : new = Ingress!Hook("incoming_event", c, evs, bare)
  OBVIOUS
<1>9. evs \in Seq(Nat) /\ \A k \in DOMAIN evs : evs[k] = Len(thread[c]) + 1
  BY <1>6, <1>14
<1>10. new \in Hooks /\ new.chat = c /\ new.events = evs /\ new.action = "incoming_event"
  BY <1>3, <1>9, <1>15 DEF Ingress!Hook, Hooks, LiveChatTyped
<1>11. hooks' \subseteq hooks \cup {new} /\ (new \in hooks' => "webhook" \in Ingress!Receivers)
  BY <1>1, <1>14, <1>15, Notified
<1>12. new \in hooks' => HookTrue(new)'
  <2>1. c \in Ingress!open' /\ Ingress!Receivers' = Ingress!Receivers
    BY <1>2, SetupKept
  <2>. QED  BY <1>6, <1>9, <1>10, <1>11, <2>1 DEF HookTrue
<1>13. \A action, d : TellsFirst(new, action, d) => \A other : ~ FirstTold(other, d)
  <2>1. SUFFICES ASSUME NEW action, NEW d, TellsFirst(new, action, d)
                 PROVE  d = c /\ ~ (1 <= Len(thread[c]))
    BY FirstIsThere
  <2>. QED  BY <1>6, <1>9, <1>10, <2>1 DEF TellsFirst
<1>. QED  BY <1>2, <1>7, <1>8, <1>11, <1>12, <1>13, LiveChatKeeps

LEMMA ChatTransferredSound ==
    ASSUME IngressInv, Ingress!Configured, NEW c \in LiveChats, Ingress!ChatTransferred(c)
    PROVE  IngressInv'
<1>1. /\ c \in Ingress!open /\ group' = [group EXCEPT ![c] = "other"]
      /\ UNCHANGED <<setup, thread, started, rows, human, handler, poll, faults>> /\ Ingress!open' = Ingress!open
      /\ Ingress!Notify([Ingress!Hook("chat_transferred", c, <<Ingress!Intro>>, FALSE)
                            EXCEPT !.group = "other"])
  BY DEF Ingress!ChatTransferred, Ingress!open
<1>2. LiveChatTyped
  BY DEF IngressInv
<1>3. LiveChatTyped' /\ ThreadsGrow
  <2>1. \A d \in LiveChats : Len(thread[d]) \in Nat
    BY <1>2 DEF LiveChatTyped
  <2>. QED  BY <1>1, <1>2, <2>1 DEF LiveChatTyped, ThreadsGrow
<1>. DEFINE evs == <<Ingress!Intro>>
<1>9. PICK new : new = [Ingress!Hook("chat_transferred", c, evs, FALSE) EXCEPT !.group = "other"]
  OBVIOUS
<1>4. evs \in Seq(Nat) /\ \A k \in DOMAIN evs : evs[k] = 0
  BY DEF Ingress!Intro
<1>. HIDE DEF evs
<1>5. new \in Hooks /\ new.chat = c /\ new.events = evs /\ new.action = "chat_transferred"
  BY <1>2, <1>4, <1>9 DEF Ingress!Hook, Hooks, LiveChatTyped
<1>6. hooks' \subseteq hooks \cup {new} /\ (new \in hooks' => "webhook" \in Ingress!Receivers)
  BY <1>1, <1>9, Notified DEF evs
<1>7. new \in hooks' => HookTrue(new)'
  <2>1. c \in Ingress!open' /\ Ingress!Receivers' = Ingress!Receivers /\ Len(thread'[c]) \in Nat
    BY <1>1, <1>3, SetupKept DEF LiveChatTyped
  <2>. QED  BY <1>4, <1>5, <1>6, <2>1 DEF HookTrue
<1>8. \A action, d : ~ TellsFirst(new, action, d)
  BY <1>4, <1>5 DEF TellsFirst
<1>. QED  BY <1>1, <1>3, <1>6, <1>7, <1>8, LiveChatKeeps

\* LiveChat rests.
ChatStays == UNCHANGED <<setup, thread, started, group>> /\ Ingress!open' = Ingress!open

LEMMA TruthSame ==
    ASSUME ChatStays
    PROVE  /\ \A hook : HookTrue(hook) => HookTrue(hook)'
           /\ \A row : RowTrue(row) => RowTrue(row)'
           /\ \A s : Listed(s) => Listed(s)'
BY SetupKept DEF ChatStays, HookTrue, RowTrue, Listed

\* InboundEventRepository.insert adds a row at the end, or nothing.
LEMMA InsertFacts ==
    ASSUME rows \in Seq(Ingress!Rows), NEW row \in Ingress!Rows, Ingress!InsertRow(row)
    PROVE  /\ rows' \in Seq(Ingress!Rows) /\ Len(rows) \in Nat /\ DOMAIN rows = 1 .. Len(rows)
           /\ \/ rows' = rows /\ Ingress!IsDuplicate(row)
              \/ /\ ~ Ingress!IsDuplicate(row)
                 /\ DOMAIN rows' = 1 .. Len(rows) + 1 /\ rows'[Len(rows) + 1] = row
                 /\ \A i \in DOMAIN rows : rows'[i] = rows[i]
<1>1. CASE Ingress!IsDuplicate(row)
  BY <1>1 DEF Ingress!InsertRow
<1>2. CASE ~ Ingress!IsDuplicate(row)
  <2>1. rows' = Append(rows, row)
    BY <1>2 DEF Ingress!InsertRow
  <2>. QED  BY <1>2, <2>1, AppendFacts
<1>. QED  BY <1>1, <1>2

LEMMA RowsInserted ==
    ASSUME RowsTrue, ChatStays, NEW row, RowTrue(row), Ingress!InsertRow(row)
    PROVE  /\ RowsTrue'
           /\ DOMAIN rows \subseteq DOMAIN rows' /\ DOMAIN rows \subseteq Nat
           /\ \A i \in DOMAIN rows : rows'[i] = rows[i]
           /\ \A i \in DOMAIN rows' \ DOMAIN rows :
                 /\ rows'[i] = row /\ ~ Ingress!IsDuplicate(row)
                 /\ i \in Nat /\ \A j \in DOMAIN rows : j <= i
           /\ \E i \in DOMAIN rows' : Ingress!_dedup_key(rows'[i]) = Ingress!_dedup_key(row)
<1>1. rows \in Seq(Ingress!Rows) /\ row \in Ingress!Rows
  BY DEF RowsTrue, RowTrue
<1>2. /\ rows' \in Seq(Ingress!Rows) /\ Len(rows) \in Nat /\ DOMAIN rows = 1 .. Len(rows)
      /\ \/ rows' = rows /\ Ingress!IsDuplicate(row)
         \/ /\ ~ Ingress!IsDuplicate(row)
            /\ DOMAIN rows' = 1 .. Len(rows) + 1 /\ rows'[Len(rows) + 1] = row
            /\ \A i \in DOMAIN rows : rows'[i] = rows[i]
  BY <1>1, InsertFacts
<1>3. RowTrue(row)'
  BY TruthSame
<1>4. \A r : RowTrue(r) => RowTrue(r)'
  BY TruthSame
<1>5. CASE rows' = rows /\ Ingress!IsDuplicate(row)
  <2>1. \A i \in DOMAIN rows' : RowTrue(rows[i])'
    BY <1>4, <1>5 DEF RowsTrue, RowTrue
  <2>2. RowsTrue'
    BY <1>2, <1>5, <2>1 DEF RowsTrue, Ingress!_dedup_key
  <2>3. \E i \in DOMAIN rows : Ingress!_dedup_key(rows[i]) = Ingress!_dedup_key(row)
    BY <1>5 DEF Ingress!IsDuplicate
  <2>4. \E i \in DOMAIN rows' : Ingress!_dedup_key(rows'[i]) = Ingress!_dedup_key(row)
    BY <1>5, <2>3
  <2>. QED  BY <1>2, <1>5, <2>2, <2>4
<1>6. CASE /\ ~ Ingress!IsDuplicate(row)
           /\ DOMAIN rows' = 1 .. Len(rows) + 1 /\ rows'[Len(rows) + 1] = row
           /\ \A i \in DOMAIN rows : rows'[i] = rows[i]
  <2>1. \A i \in DOMAIN rows' : i \in DOMAIN rows \/ i = Len(rows) + 1
    BY <1>2, <1>6
  <2>2. Len(rows) + 1 \notin DOMAIN rows /\ Len(rows) + 1 \in DOMAIN rows' /\ DOMAIN rows \subseteq DOMAIN rows'
    BY <1>2, <1>6
  <2>3. \A i \in DOMAIN rows : Ingress!_dedup_key(rows[i]) # Ingress!_dedup_key(row)
    BY <1>6 DEF Ingress!IsDuplicate
  <2>4. \A i \in DOMAIN rows' : RowTrue(rows[i])'
    <3>1. ASSUME NEW i \in DOMAIN rows' PROVE RowTrue(rows[i])'
      <4>1. PICK r : r = rows'[i] /\ RowTrue(r)
        BY <1>6, <2>1 DEF RowsTrue
      <4>. QED  BY <1>4, <4>1 DEF RowTrue
    <3>. QED  BY <3>1
  <2>5. \A i, j \in DOMAIN rows' :
           Ingress!_dedup_key(rows'[i]) = Ingress!_dedup_key(rows'[j]) => i = j
    BY <1>6, <2>1, <2>3 DEF RowsTrue, Ingress!_dedup_key
  <2>6. RowsTrue'
    BY <1>2, <2>4, <2>5 DEF RowsTrue, Ingress!_dedup_key
  <2>. QED  BY <1>2, <1>6, <2>1, <2>2, <2>6
<1>. QED  BY <1>2, <1>5, <1>6

LEMMA HandlerSame ==
    ASSUME ChatStays, NEW g \in Handlers, HandlerTrue(g), handler'[g] = handler[g]
    PROVE  HandlerTrue(g)'
<1>1. \A k \in DOMAIN handler[g].todo : RowTrue(handler[g].todo[k])'
  <2>1. \A r : RowTrue(r) => RowTrue(r)'
    BY TruthSame
  <2>. QED  BY <2>1 DEF HandlerTrue, RowTrue
<1>2. handler[g].pc # "idle" => HookTrue(handler[g].hook)'
  <2>1. \A hook : HookTrue(hook) => HookTrue(hook)'
    BY TruthSame
  <2>. QED  BY <2>1 DEF HandlerTrue, HookTrue
<1>. QED  BY <1>1, <1>2 DEF HandlerTrue

\* A step of a request h: its handler changes, and it may store one of its rows.
LEMMA WebhookKeeps ==
    ASSUME IngressInv, Ingress!Configured, ChatStays, UNCHANGED poll,
           LiveChatTyped', HumansWritten', hooks' \subseteq hooks,
           NEW h \in Handlers, NEW new, handler' = [handler EXCEPT ![h] = new], HandlerTrue(h)',
           \/ new.pc = "idle"
           \/ new.hook \in hooks
           \/ handler[h].pc # "idle" /\ new.hook = handler[h].hook,
           \/ UNCHANGED rows
           \/ \E row : /\ RowTrue(row) /\ Ingress!InsertRow(row) /\ row.action # "polling.event"
                       /\ handler[h].pc # "idle"
                       /\ row.event = 1 => TellsFirst(handler[h].hook, row.action, row.chat)
    PROVE  IngressInv'
<1>. USE DEF IngressInv
<1>1. handler'[h] = new /\ \A g \in Handlers \ {h} : handler'[g] = handler[g]
  OBVIOUS
<1>2. \A hook \in hooks' : HookTrue(hook)'
  BY TruthSame
<1>3. handler' = [g \in Handlers |-> handler'[g]]
  OBVIOUS
<1>4. ASSUME NEW g \in Handlers PROVE HandlerTrue(g)'
  <2>1. CASE g # h
    <3>1. handler'[g] = handler[g] /\ HandlerTrue(g)
      BY <1>1, <2>1
    <3>. QED  BY <3>1, HandlerSame
  <2>. QED  BY <2>1
<1>5. /\ RowsTrue' /\ DOMAIN rows \subseteq DOMAIN rows'
      /\ \A i \in DOMAIN rows : rows'[i] = rows[i]
      /\ \A i \in DOMAIN rows' \ DOMAIN rows :
            /\ rows'[i].action # "polling.event" /\ handler[h].pc # "idle"
            /\ rows'[i].event = 1 => TellsFirst(handler[h].hook, rows'[i].action, rows'[i].chat)
  <2>1. CASE UNCHANGED rows
    <3>1. \A r : RowTrue(r) => RowTrue(r)'
      BY TruthSame
    <3>. QED  BY <2>1, <3>1 DEF RowsTrue, RowTrue, Ingress!_dedup_key, ChatStays, Ingress!Receivers,
                              Ingress!LookupMayFail
  <2>2. CASE ~ UNCHANGED rows
    <3>1. PICK row : /\ RowTrue(row) /\ Ingress!InsertRow(row) /\ row.action # "polling.event"
                     /\ handler[h].pc # "idle"
                     /\ row.event = 1 => TellsFirst(handler[h].hook, row.action, row.chat)
      BY <2>2
    <3>. QED  BY <3>1, RowsInserted
  <2>. QED  BY <2>1, <2>2
<1>6. FirstToldOnce'
  <2>1. ASSUME NEW action, NEW c, FirstTold(action, c)'
        PROVE  FirstTold(action, c)
    <3>1. CASE \E hook \in hooks' : TellsFirst(hook, action, c)
      BY <3>1 DEF FirstTold
    <3>2. CASE \E g \in Handlers : handler'[g].pc # "idle" /\ TellsFirst(handler'[g].hook, action, c)
      BY <1>1, <3>2 DEF FirstTold
    <3>3. CASE \E i \in DOMAIN rows' : rows'[i].action = action /\ rows'[i].chat = c /\ rows'[i].event = 1
      BY <1>5, <3>3 DEF FirstTold
    <3>. QED  BY <2>1, <3>1, <3>2, <3>3 DEF FirstTold, TellsFirst
  <2>. QED  BY <2>1 DEF FirstToldOnce
<1>7. PollTrue'
  BY TruthSame DEF PollTrue, Listed, ChatStays, Ingress!Receivers
<1>8. IntroKept'
  <2>1. \A c : Polled(c)' = Polled(c) /\ \A i \in Polled(c) : rows'[i] = rows[i]
    BY <1>5 DEF Polled
  <2>2. \A c : IntroStored(c)' = IntroStored(c) /\ NoIntroToCome(c)' = NoIntroToCome(c)
    BY <2>1 DEF IntroStored, NoIntroToCome, Ingress!SummaryThreads, Ingress!DetailIntro, ChatStays
  <2>3. \A i \in DOMAIN rows' : rows'[i].action = "polling.event" => i \in DOMAIN rows /\ rows'[i] = rows[i]
    BY <1>5
  <2>4. /\ Ingress!DetailForbidden' = Ingress!DetailForbidden
        /\ Ingress!SummaryThreads' = Ingress!SummaryThreads
    BY SetupKept DEF ChatStays
  <2>5. Ingress!IntroFirst => Ingress!IntroFirst'
    BY <2>3, <2>4 DEF Ingress!IntroFirst
  <2>6. IntroKept
    OBVIOUS
  <2>. HIDE DEF IngressInv
  <2>. QED  BY <2>1, <2>2, <2>4, <2>5, <2>6 DEF IntroKept, ChatStays
<1>. QED  BY <1>2, <1>3, <1>4, <1>5, <1>6, <1>7, <1>8

\* Without a failed lookup the authors are known.
LEMMA KnownTrue ==
    ASSUME IngressInv, NEW hook, HookTrue(hook), NEW known \in Ingress!Lookups(hook)
    PROVE  /\ known.groups \in SUBSET {"allowed", "other"} /\ known.users \in BOOLEAN
           /\ known.failed \in 0 .. 2 /\ (known.failed = 0 => known.users)
<1>1. \A c : Ingress!RecentGroups(c) \subseteq {"allowed", "other"}
  <2>1. \A i \in DOMAIN rows : rows[i].groups \subseteq {"allowed", "other"}
    BY DEF IngressInv, RowsTrue, RowTrue, Ingress!Rows
  <2>. QED  BY <2>1 DEF Ingress!RecentGroups
<1>2. hook.group \in {"allowed", "other"} /\ group[hook.chat] \in {"allowed", "other"}
  BY DEF HookTrue, Hooks, IngressInv, LiveChatTyped
<1>3. PICK k \in Ingress!ChatLookups(hook) : known \in Ingress!AuthorLookups(hook, k)
  BY DEF Ingress!Lookups
<1>4. /\ k = [groups |-> k.groups, users |-> k.users, failed |-> k.failed]
      /\ k.groups \in SUBSET {"allowed", "other"} /\ k.users \in BOOLEAN /\ k.failed \in {0, 1}
  <2>1. \E G \in SUBSET {"allowed", "other"}, u \in BOOLEAN, f \in {0, 1} :
           k = [groups |-> G, users |-> u, failed |-> f]
    <3>1. \/ k = [groups |-> {hook.group}, users |-> TRUE, failed |-> 0]
          \/ k = [groups |-> Ingress!RecentGroups(hook.chat), users |-> FALSE, failed |-> 0]
          \/ k = [groups |-> {group[hook.chat]}, users |-> TRUE, failed |-> 0]
          \/ k = [groups |-> {}, users |-> FALSE, failed |-> 1]
      BY <1>3 DEF Ingress!ChatLookups, Ingress!Detailed
    <3>. QED  BY <1>1, <1>2, <3>1
  <2>. QED  BY <2>1
<1>5. CASE k.users
  <2>1. known = k
    BY <1>3, <1>5 DEF Ingress!AuthorLookups
  <2>2. k.failed \in 0 .. 2
    BY <1>4
  <2>. QED  BY <1>4, <1>5, <2>1, <2>2, Zenon
<1>6. CASE ~ k.users
  <2>1. CASE known = [Ingress!Detailed(hook.chat) EXCEPT !.failed = k.failed]
    <3>1. known = [groups |-> {group[hook.chat]}, users |-> TRUE, failed |-> k.failed]
      BY <2>1 DEF Ingress!Detailed
    <3>. QED  BY <1>2, <1>4, <3>1
  <2>2. CASE known = [k EXCEPT !.failed = @ + 1]
    <3>1. known = [groups |-> k.groups, users |-> k.users, failed |-> k.failed + 1]
      BY <1>4, <2>2
    <3>. QED  BY <1>4, <3>1
  <2>. QED  BY <1>3, <1>6, <2>1, <2>2 DEF Ingress!AuthorLookups
<1>. QED  BY <1>5, <1>6

\* _build_event: the row of an event.
LEMMA EventRowTrue ==
    ASSUME IngressInv, Ingress!Configured, NEW hook, HookTrue(hook), NEW known,
           known.groups \in SUBSET {"allowed", "other"}, known.users \in BOOLEAN,
           known.users \/ Ingress!LookupMayFail,
           NEW n \in 0 .. Len(thread[hook.chat]),
           hook.action = "incoming_chat" => n \in {0, 1},
           hook.action = "incoming_event" => n # 0,
           hook.action = "chat_transferred" => n = 0
    PROVE  /\ RowTrue(Ingress!EventRow(hook, n, known))
           /\ Ingress!EventRow(hook, n, known) \in Ingress!Rows
           /\ Ingress!EventRow(hook, n, known).action = hook.action
           /\ Ingress!EventRow(hook, n, known).chat = hook.chat
           /\ Ingress!EventRow(hook, n, known).event = n
<1>. DEFINE e == IF n = 0 THEN [by |-> "system", type |-> "message"] ELSE thread[hook.chat][n]
            author == IF n = 0 THEN "none" ELSE Ingress!AuthorType(e.by, known)
            public == n # 0 /\ Ingress!IsPublicReply(e, known)
            ignored == \/ ~ Ingress!Spoken(e)
                       \/ author \in {"self", "agent"}
                       \/ "allowed" \notin known.groups
            row == Ingress!EventRow(hook, n, known)
<1>1. /\ hook.chat \in LiveChats /\ hook.chat \in Ingress!open /\ hook.action \in Ingress!Actions
      /\ hook.action # "polling.event" /\ "webhook" \in Ingress!Receivers
  BY DEF HookTrue, Hooks, Ingress!Actions
<1>2. /\ thread[hook.chat] \in Seq(Events) /\ Len(thread[hook.chat]) \in Nat
      /\ Len(thread[hook.chat]) <= MaxEvents /\ MaxEvents \in Nat
  BY <1>1 DEF IngressInv, LiveChatTyped, Ingress!Configured
<1>3. n # 0 => e \in Events /\ e = thread[hook.chat][n]
  BY <1>2
<1>4. row = [action |-> hook.action, chat |-> hook.chat, event |-> n, groups |-> known.groups,
             public |-> public, ignored |-> ignored]
  BY DEF Ingress!EventRow, Ingress!Intro
<1>. HIDE DEF e, row
<1>5. public \in BOOLEAN /\ ignored \in BOOLEAN
  BY DEF Ingress!IsPublicReply, Ingress!Spoken
<1>6. public => n # 0 /\ e.by = "agent"
  BY <1>3 DEF Events, Ingress!Authors, Ingress!IsPublicReply, Ingress!AuthorType
<1>7. n # 0 /\ e.by # "customer" => ignored \/ Ingress!LookupMayFail
  BY <1>3 DEF Events, Ingress!Authors, Ingress!AuthorType
<1>. HIDE DEF public, ignored
<1>8. row \in Ingress!Rows /\ row.action = hook.action /\ row.chat = hook.chat /\ row.event = n
      /\ row.public = public /\ row.ignored = ignored
  BY <1>1, <1>2, <1>4, <1>5 DEF Ingress!Rows
<1>9. RowTrue(row)
  BY <1>1, <1>3, <1>6, <1>7, <1>8 DEF RowTrue
<1>. QED  BY <1>8, <1>9 DEF row

\* _normalize: the rows of a delivery.
LEMMA NormalizedTrue ==
    ASSUME IngressInv, Ingress!Configured, NEW hook, HookTrue(hook), NEW known,
           known.groups \in SUBSET {"allowed", "other"}, known.users \in BOOLEAN,
           known.users \/ Ingress!LookupMayFail,
           NEW todo, todo = Ingress!NormalizedRows(hook, known)
    PROVE  /\ todo \in Seq(Ingress!Rows)
           /\ \A k \in DOMAIN todo :
                 /\ RowTrue(todo[k]) /\ todo[k].chat = hook.chat /\ todo[k].action = hook.action
                 /\ todo[k].event # 0 => \E i \in DOMAIN hook.events : hook.events[i] = todo[k].event
<1>. DEFINE intro == IF hook.action = "incoming_chat" /\ Ingress!EmitsIntro(hook)
                     THEN <<Ingress!Intro>> ELSE <<>>
            ns == intro \o hook.events
<1>1. todo = [i \in DOMAIN ns |-> Ingress!EventRow(hook, ns[i], known)]
  BY DEF Ingress!NormalizedRows
<1>2. /\ intro \in Seq(Nat) /\ hook.events \in Seq(Nat)
      /\ \A k \in DOMAIN intro : intro[k] = 0 /\ hook.action = "incoming_chat"
  BY DEF HookTrue, Hooks, Ingress!Intro
<1>. HIDE DEF intro
<1>3. /\ ns \in Seq(Nat) /\ DOMAIN ns = 1 .. Len(ns) /\ Len(ns) \in Nat
      /\ \A k \in DOMAIN ns : \/ ns[k] = 0 /\ hook.action = "incoming_chat"
                              \/ \E i \in DOMAIN hook.events : hook.events[i] = ns[k]
  <2>1. /\ ns \in Seq(Nat) /\ Len(ns) = Len(intro) + Len(hook.events)
        /\ \A k \in 1 .. Len(ns) : ns[k] = IF k <= Len(intro) THEN intro[k]
                                           ELSE hook.events[k - Len(intro)]
    BY <1>2
  <2>. HIDE DEF ns
  <2>2. /\ Len(intro) \in Nat /\ Len(hook.events) \in Nat /\ DOMAIN ns = 1 .. Len(ns)
        /\ DOMAIN intro = 1 .. Len(intro) /\ DOMAIN hook.events = 1 .. Len(hook.events)
    BY <1>2, <2>1
  <2>3. \A k \in DOMAIN ns : IF k <= Len(intro) THEN k \in DOMAIN intro
                             ELSE k - Len(intro) \in DOMAIN hook.events
    BY <2>1, <2>2
  <2>4. ASSUME NEW k \in DOMAIN ns
        PROVE  \/ ns[k] = 0 /\ hook.action = "incoming_chat"
               \/ \E i \in DOMAIN hook.events : hook.events[i] = ns[k]
    <3>1. CASE k <= Len(intro)
      BY <1>2, <2>1, <2>2, <2>3, <3>1
    <3>2. CASE ~ (k <= Len(intro))
      BY <2>1, <2>2, <2>3, <3>2
    <3>. QED  BY <3>1, <3>2
  <2>5. Len(ns) \in Nat
    BY <2>1, <2>2
  <2>. QED  BY <2>1, <2>2, <2>4, <2>5
<1>. HIDE DEF ns
<1>4. ASSUME NEW k \in DOMAIN ns
      PROVE  /\ RowTrue(Ingress!EventRow(hook, ns[k], known))
             /\ Ingress!EventRow(hook, ns[k], known) \in Ingress!Rows
             /\ Ingress!EventRow(hook, ns[k], known).action = hook.action
             /\ Ingress!EventRow(hook, ns[k], known).chat = hook.chat
             /\ Ingress!EventRow(hook, ns[k], known).event = ns[k]
  <2>1. Len(thread[hook.chat]) \in Nat
    BY ThreadParts DEF IngressInv, HookTrue, Hooks
  <2>2. /\ ns[k] \in 0 .. Len(thread[hook.chat])
        /\ hook.action = "incoming_chat" => ns[k] \in {0, 1}
        /\ hook.action = "incoming_event" => ns[k] # 0
        /\ hook.action = "chat_transferred" => ns[k] = 0
    BY <1>3, <2>1 DEF HookTrue
  <2>. QED  BY <2>2, EventRowTrue
<1>5. todo \in Seq(Ingress!Rows)
  BY <1>1, <1>3, <1>4
<1>6. \A k \in DOMAIN todo : k \in DOMAIN ns /\ todo[k] = Ingress!EventRow(hook, ns[k], known)
  BY <1>1
<1>. QED  BY <1>3, <1>4, <1>5, <1>6

LEMMA WebhookReceiveSound ==
    ASSUME IngressInv, Ingress!Configured, NEW h \in Handlers, Ingress!WebhookReceive(h)
    PROVE  IngressInv'
<1>1. PICK hook \in hooks : \E known \in Ingress!Lookups(hook) :
         /\ faults' = faults + known.failed
         /\ known.failed > 0 => Ingress!LookupMayFail /\ faults' <= Setups[setup].faults
         /\ handler' = [handler EXCEPT ![h] =
               [pc |-> "insert", hook |-> hook, todo |-> Ingress!NormalizedRows(hook, known)]]
  BY DEF Ingress!WebhookReceive
<1>14. PICK known \in Ingress!Lookups(hook) :
         /\ faults' = faults + known.failed
         /\ known.failed > 0 => Ingress!LookupMayFail /\ faults' <= Setups[setup].faults
         /\ handler' = [handler EXCEPT ![h] =
               [pc |-> "insert", hook |-> hook, todo |-> Ingress!NormalizedRows(hook, known)]]
  BY <1>1
<1>2. ChatStays /\ UNCHANGED <<hooks, rows, human, poll>>
  BY DEF Ingress!WebhookReceive, Ingress!liveChat, Ingress!open, ChatStays
<1>3. HookTrue(hook) /\ LiveChatTyped /\ HumansWritten
  BY DEF IngressInv
<1>4. /\ known.groups \in SUBSET {"allowed", "other"} /\ known.users \in BOOLEAN
      /\ known.failed \in 0 .. 2 /\ (known.failed = 0 => known.users)
  BY <1>3, KnownTrue
<1>5. known.users \/ Ingress!LookupMayFail
  BY <1>14, <1>4
<1>6. PICK todo : todo = Ingress!NormalizedRows(hook, known)
  OBVIOUS
<1>7. /\ todo \in Seq(Ingress!Rows)
      /\ \A k \in DOMAIN todo :
            /\ RowTrue(todo[k]) /\ todo[k].chat = hook.chat /\ todo[k].action = hook.action
            /\ todo[k].event # 0 => \E i \in DOMAIN hook.events : hook.events[i] = todo[k].event
  BY <1>3, <1>4, <1>5, <1>6, NormalizedTrue
<1>8. PICK new : new = [pc |-> "insert", hook |-> hook, todo |-> todo]
  OBVIOUS
<1>9. handler' = [handler EXCEPT ![h] = new] /\ handler'[h] = new
  BY <1>14, <1>6, <1>8 DEF IngressInv
<1>10. LiveChatTyped'
  BY <1>14, <1>2, <1>3, <1>4 DEF LiveChatTyped, ChatStays, Ingress!Configured
<1>11. HumansWritten'
  BY <1>2, <1>3 DEF HumansWritten, ChatStays
<1>12. HandlerTrue(h)'
  <2>1. new.pc = "insert" /\ new.hook = hook /\ new.todo = todo
        /\ new = [pc |-> new.pc, hook |-> new.hook, todo |-> new.todo]
    BY <1>8
  <2>2. HookTrue(hook)' /\ \A k \in DOMAIN todo : RowTrue(todo[k])'
    BY <1>2, <1>3, <1>7, TruthSame
  <2>3. HookTrue(handler[h].hook)'
    BY <1>9, <2>1, <2>2 DEF HookTrue
  <2>4. \A k \in DOMAIN handler'[h].todo : RowTrue(handler[h].todo[k])'
    BY <1>9, <2>1, <2>2 DEF RowTrue
  <2>. QED  BY <1>7, <1>9, <2>1, <2>3, <2>4 DEF HandlerTrue
<1>13. new.hook \in hooks
  BY <1>8
<1>. QED  BY <1>2, <1>9, <1>10, <1>11, <1>12, <1>13, WebhookKeeps

LEMMA TailFacts ==
    ASSUME NEW S, NEW s \in Seq(S), s # <<>>
    PROVE  /\ Tail(s) \in Seq(S) /\ DOMAIN Tail(s) = 1 .. Len(s) - 1 /\ Len(s) \in Nat /\ 1 \in DOMAIN s
           /\ Head(s) = s[1] /\ s[1] \in S /\ \A k \in DOMAIN Tail(s) : k + 1 \in DOMAIN s /\ Tail(s)[k] = s[k + 1]
<1>1. /\ Tail(s) \in Seq(S) /\ Len(Tail(s)) = Len(s) - 1 /\ Len(s) \in Nat /\ Len(s) # 0
      /\ DOMAIN Tail(s) = 1 .. Len(Tail(s)) /\ DOMAIN s = 1 .. Len(s) /\ Head(s) = s[1]
      /\ \A k \in 1 .. Len(Tail(s)) : Tail(s)[k] = s[k + 1]
  OBVIOUS
<1>. QED  BY <1>1

\* The first row of a request is stored or noted; the others wait.
LEMMA HandlerTail ==
    ASSUME ChatStays, NEW h \in Handlers, HandlerTrue(h), handler[h].todo # <<>>,
           handler'[h] = [pc |-> "insert", hook |-> handler[h].hook, todo |-> Tail(handler[h].todo)]
    PROVE  HandlerTrue(h)'
<1>1. /\ handler'[h].pc = "insert" /\ handler'[h].hook = handler[h].hook
      /\ handler'[h].todo = Tail(handler[h].todo)
  OBVIOUS
<1>2. PICK t : t = handler[h].todo
  OBVIOUS
<1>3. /\ Tail(t) \in Seq(Ingress!Rows) /\ 1 \in DOMAIN t
      /\ \A k \in DOMAIN Tail(t) : k + 1 \in DOMAIN t /\ Tail(t)[k] = t[k + 1]
  BY <1>2, TailFacts DEF HandlerTrue
<1>4. \A k \in DOMAIN t : RowTrue(t[k])' /\ handler[h].pc # "idle"
  <2>1. \A r : RowTrue(r) => RowTrue(r)'
    BY TruthSame
  <2>2. \A k \in DOMAIN t : RowTrue(t[k]) /\ handler[h].pc # "idle"
    BY <1>2 DEF HandlerTrue
  <2>. QED  BY <2>1, <2>2
<1>5. \A k \in DOMAIN handler'[h].todo : RowTrue(handler[h].todo[k])'
  <2>1. ASSUME NEW k \in DOMAIN handler'[h].todo PROVE RowTrue(handler[h].todo[k])'
    <3>1. k + 1 \in DOMAIN t /\ handler'[h].todo[k] = t[k + 1]
      BY <1>1, <1>2, <1>3
    <3>2. PICK r : r = t[k + 1] /\ RowTrue(r)'
      BY <1>4, <3>1
    <3>. QED  BY <3>1, <3>2 DEF RowTrue
  <2>. QED  BY <2>1
<1>6. HookTrue(handler[h].hook)'
  <2>1. \A hook : HookTrue(hook) => HookTrue(hook)'
    BY TruthSame
  <2>2. HookTrue(handler[h].hook)
    BY <1>3, <1>4 DEF HandlerTrue
  <2>. QED  BY <1>1, <2>1, <2>2 DEF HookTrue
<1>7. \A k \in DOMAIN t : /\ t[k].chat = handler[h].hook.chat /\ t[k].action = handler[h].hook.action
                          /\ t[k].event # 0 => \E i \in DOMAIN handler[h].hook.events :
                                                  handler[h].hook.events[i] = t[k].event
  BY <1>2 DEF HandlerTrue
<1>8. \A k \in DOMAIN Tail(t) : /\ Tail(t)[k].chat = handler[h].hook.chat
                                /\ Tail(t)[k].action = handler[h].hook.action
                                /\ Tail(t)[k].event # 0 => \E i \in DOMAIN handler[h].hook.events :
                                        handler[h].hook.events[i] = Tail(t)[k].event
  BY <1>3, <1>7
<1>9. handler'[h] = [pc |-> handler'[h].pc, hook |-> handler'[h].hook, todo |-> handler'[h].todo]
  BY <1>1
<1>. QED  BY <1>1, <1>2, <1>3, <1>5, <1>6, <1>8, <1>9 DEF HandlerTrue

\* The request that a step writes, field by field.
LEMMA HandlerSet ==
    ASSUME NEW h \in Handlers, handler = [g \in Handlers |-> handler[g]],
           handler[h] = [pc |-> handler[h].pc, hook |-> handler[h].hook, todo |-> handler[h].todo],
           NEW new
    PROVE  /\ new = [pc |-> "mark", hook |-> handler[h].hook, todo |-> handler[h].todo] =>
                 [handler EXCEPT ![h].pc = "mark"] = [handler EXCEPT ![h] = new]
           /\ new = [pc |-> handler[h].pc, hook |-> handler[h].hook, todo |-> Tail(handler[h].todo)] =>
                 [handler EXCEPT ![h].todo = Tail(@)] = [handler EXCEPT ![h] = new]
           /\ new = [pc |-> "insert", hook |-> handler[h].hook, todo |-> Tail(handler[h].todo)] =>
                 [handler EXCEPT ![h].pc = "insert", ![h].todo = Tail(@)] = [handler EXCEPT ![h] = new]
<1>1. PICK pc : pc = handler[h].pc
  OBVIOUS
<1>2. PICK hook : hook = handler[h].hook
  OBVIOUS
<1>3. PICK todo : todo = handler[h].todo
  OBVIOUS
<1>4. PICK rest : rest = Tail(todo)
  OBVIOUS
<1>5. handler[h] = [pc |-> pc, hook |-> hook, todo |-> todo]
  BY <1>1, <1>2, <1>3
<1>6. /\ [handler[h] EXCEPT !.pc = "mark"] = [pc |-> "mark", hook |-> hook, todo |-> todo]
      /\ [handler[h] EXCEPT !.todo = rest] = [pc |-> pc, hook |-> hook, todo |-> rest]
      /\ [handler[h] EXCEPT !.pc = "insert", !.todo = rest] =
            [pc |-> "insert", hook |-> hook, todo |-> rest]
  <2>1. ASSUME NEW old, old = [pc |-> pc, hook |-> hook, todo |-> todo], NEW next
        PROVE  /\ next = [pc |-> "mark", hook |-> hook, todo |-> todo] => [old EXCEPT !.pc = "mark"] = next
               /\ next = [pc |-> pc, hook |-> hook, todo |-> rest] => [old EXCEPT !.todo = rest] = next
               /\ next = [pc |-> "insert", hook |-> hook, todo |-> rest] =>
                     [old EXCEPT !.pc = "insert", !.todo = rest] = next
    <3>1. next = [pc |-> "mark", hook |-> hook, todo |-> todo] => [old EXCEPT !.pc = "mark"] = next
      BY <2>1
    <3>2. next = [pc |-> pc, hook |-> hook, todo |-> rest] => [old EXCEPT !.todo = rest] = next
      BY <2>1
    <3>3. next = [pc |-> "insert", hook |-> hook, todo |-> rest] =>
                     [old EXCEPT !.pc = "insert", !.todo = rest] = next
      <4>1. PICK mid : mid = [pc |-> "insert", hook |-> hook, todo |-> todo]
        OBVIOUS
      <4>2. [old EXCEPT !.pc = "insert"] = mid
        BY <2>1, <4>1
      <4>3. next = [pc |-> "insert", hook |-> hook, todo |-> rest] => [mid EXCEPT !.todo = rest] = next
        BY <4>1
      <4>. QED  BY <4>2, <4>3
    <3>. QED  BY <3>1, <3>2, <3>3
  <2>. QED  BY <1>5, <2>1
<1>7. ASSUME new = [pc |-> "mark", hook |-> hook, todo |-> todo]
      PROVE  [handler EXCEPT ![h].pc = "mark"] = [handler EXCEPT ![h] = new]
  BY <1>6, <1>7
<1>8. ASSUME new = [pc |-> pc, hook |-> hook, todo |-> rest]
      PROVE  [handler EXCEPT ![h].todo = rest] = [handler EXCEPT ![h] = new]
  BY <1>6, <1>8
<1>9. ASSUME new = [pc |-> "insert", hook |-> hook, todo |-> rest]
      PROVE  [handler EXCEPT ![h].pc = "insert", ![h].todo = rest] = [handler EXCEPT ![h] = new]
  BY <1>6, <1>9
<1>. QED  BY <1>1, <1>2, <1>3, <1>4, <1>7, <1>8, <1>9

LEMMA WebhookInsertSound ==
    ASSUME IngressInv, Ingress!Configured, NEW h \in Handlers, Ingress!WebhookInsert(h)
    PROVE  IngressInv'
<1>1. ChatStays /\ UNCHANGED <<hooks, human, poll, faults>> /\ handler[h].pc = "insert"
      /\ handler[h].todo # <<>>
  BY DEF Ingress!WebhookInsert, Ingress!liveChat, Ingress!open, ChatStays
<1>2. HandlerTrue(h) /\ LiveChatTyped /\ HumansWritten /\ handler = [g \in Handlers |-> handler[g]]
  BY DEF IngressInv
<1>3. PICK row : row = Head(handler[h].todo)
  OBVIOUS
<1>4. row = handler[h].todo[1] /\ 1 \in DOMAIN handler[h].todo
  BY <1>1, <1>2, <1>3, TailFacts DEF HandlerTrue
<1>5. /\ RowTrue(row) /\ HookTrue(handler[h].hook)
      /\ row.chat = handler[h].hook.chat /\ row.action = handler[h].hook.action
      /\ row.event # 0 => \E i \in DOMAIN handler[h].hook.events :
                             handler[h].hook.events[i] = row.event
  BY <1>1, <1>2, <1>4 DEF HandlerTrue
<1>6. row.action # "polling.event" /\ (row.event = 1 => TellsFirst(handler[h].hook, row.action, row.chat))
  BY <1>5 DEF HookTrue, Hooks, TellsFirst
<1>7. Ingress!InsertRow(row)
      /\ handler' = IF row.public /\ ~ Ingress!IsDuplicate(row)
                    THEN [handler EXCEPT ![h].pc = "mark"]
                    ELSE [handler EXCEPT ![h].todo = Tail(@)]
  BY <1>3 DEF Ingress!WebhookInsert
<1>8. LiveChatTyped' /\ HumansWritten'
  BY <1>1, <1>2 DEF LiveChatTyped, HumansWritten, ChatStays
<1>9. handler[h] = [pc |-> handler[h].pc, hook |-> handler[h].hook, todo |-> handler[h].todo]
  BY <1>2 DEF HandlerTrue
<1>10. CASE row.public /\ ~ Ingress!IsDuplicate(row)
  <2>1. PICK new : new = [pc |-> "mark", hook |-> handler[h].hook, todo |-> handler[h].todo]
    OBVIOUS
  <2>2. handler' = [handler EXCEPT ![h] = new]
    BY <1>2, <1>7, <1>9, <1>10, <2>1, HandlerSet
  <2>3. /\ handler'[h].pc = "mark" /\ handler'[h].hook = handler[h].hook
        /\ handler'[h].todo = handler[h].todo
    BY <1>2, <2>1, <2>2
  <2>4. handler'[h] = [pc |-> handler'[h].pc, hook |-> handler'[h].hook, todo |-> handler'[h].todo]
    BY <1>2, <2>1, <2>2
  <2>5. \A k \in DOMAIN handler[h].todo : RowTrue(handler[h].todo[k])'
    <3>1. \A r : RowTrue(r) => RowTrue(r)'
      BY <1>1, TruthSame
    <3>. QED  BY <1>2, <2>3, <3>1 DEF HandlerTrue, RowTrue
  <2>6. HookTrue(handler[h].hook)'
    <3>1. \A hook : HookTrue(hook) => HookTrue(hook)'
      BY <1>1, TruthSame
    <3>. QED  BY <1>5, <2>3, <3>1 DEF HookTrue
  <2>7. HandlerTrue(h)'
    BY <1>1, <1>2, <1>4, <1>10, <2>3, <2>4, <2>5, <2>6 DEF HandlerTrue
  <2>8. new.hook = handler[h].hook
    BY <2>1
  <2>. QED  BY <1>1, <1>5, <1>6, <1>7, <1>8, <2>2, <2>7, <2>8, WebhookKeeps
<1>11. CASE ~ (row.public /\ ~ Ingress!IsDuplicate(row))
  <2>1. PICK new : new = [pc |-> "insert", hook |-> handler[h].hook, todo |-> Tail(handler[h].todo)]
    OBVIOUS
  <2>2. handler' = [handler EXCEPT ![h] = new]
    BY <1>1, <1>2, <1>7, <1>9, <1>11, <2>1, HandlerSet
  <2>3. handler'[h] = [pc |-> "insert", hook |-> handler[h].hook, todo |-> Tail(handler[h].todo)]
    BY <1>2, <2>1, <2>2
  <2>4. HandlerTrue(h)'
    BY <1>1, <1>2, <2>3, HandlerTail
  <2>5. new.hook = handler[h].hook
    BY <2>1
  <2>. QED  BY <1>1, <1>5, <1>6, <1>7, <1>8, <2>2, <2>4, <2>5, WebhookKeeps
<1>. QED  BY <1>10, <1>11

LEMMA WebhookMarkSound ==
    ASSUME IngressInv, Ingress!Configured, NEW h \in Handlers, Ingress!WebhookMark(h)
    PROVE  IngressInv'
<1>1. ChatStays /\ UNCHANGED <<hooks, rows, poll, faults>> /\ handler[h].pc = "mark"
      /\ human' = human \cup {handler[h].hook.chat}
      /\ handler' = [handler EXCEPT ![h].pc = "insert", ![h].todo = Tail(@)]
  BY DEF Ingress!WebhookMark, Ingress!liveChat, Ingress!open, ChatStays
<1>2. HandlerTrue(h) /\ LiveChatTyped /\ HumansWritten /\ handler = [g \in Handlers |-> handler[g]]
  BY DEF IngressInv
<1>3. /\ handler[h].todo # <<>> /\ handler[h].todo[1].public /\ handler[h].todo \in Seq(Ingress!Rows)
      /\ HookTrue(handler[h].hook)
      /\ handler[h] = [pc |-> handler[h].pc, hook |-> handler[h].hook, todo |-> handler[h].todo]
  BY <1>1, <1>2 DEF HandlerTrue
<1>4. 1 \in DOMAIN handler[h].todo
  BY <1>3, TailFacts
<1>5. PICK row : /\ row = handler[h].todo[1] /\ row.public /\ RowTrue(row)
                 /\ row.chat = handler[h].hook.chat
  BY <1>2, <1>3, <1>4 DEF HandlerTrue
<1>6. /\ row.chat \in LiveChats /\ row.event \in DOMAIN thread[row.chat]
      /\ thread[row.chat][row.event].by = "agent"
  <2>1. row.chat \in LiveChats /\ row.event \in Nat /\ row.event # 0
    BY <1>5 DEF RowTrue, Ingress!Rows
  <2>2. DOMAIN thread[row.chat] = 1 .. Len(thread[row.chat]) /\ Len(thread[row.chat]) \in Nat
    BY <1>2, <2>1, ThreadParts
  <2>. QED  BY <1>5, <2>1, <2>2 DEF RowTrue
<1>7. LiveChatTyped' /\ HumansWritten'
  BY <1>1, <1>2, <1>5, <1>6 DEF LiveChatTyped, HumansWritten, ChatStays
<1>8. PICK new : new = [pc |-> "insert", hook |-> handler[h].hook, todo |-> Tail(handler[h].todo)]
  OBVIOUS
<1>9. handler' = [handler EXCEPT ![h] = new]
  BY <1>1, <1>2, <1>3, <1>8, HandlerSet
<1>10. handler'[h] = [pc |-> "insert", hook |-> handler[h].hook, todo |-> Tail(handler[h].todo)]
  BY <1>2, <1>8, <1>9
<1>11. HandlerTrue(h)'
  BY <1>1, <1>2, <1>3, <1>10, HandlerTail
<1>12. new.hook = handler[h].hook /\ handler[h].pc # "idle"
  BY <1>1, <1>8
<1>. QED  BY <1>1, <1>7, <1>9, <1>11, <1>12, WebhookKeeps

\* An answer and a failure leave the request without work.
LEMMA WebhookEndsSound ==
    ASSUME IngressInv, Ingress!Configured, NEW h \in Handlers,
           Ingress!WebhookAnswer(h) \/ Ingress!WebhookFails(h)
    PROVE  IngressInv'
<1>1. /\ ChatStays /\ UNCHANGED <<rows, human, poll>> /\ hooks' \subseteq hooks
      /\ handler' = [handler EXCEPT ![h] = Ingress!IdleHandler]
      /\ faults' = faults \/ (faults < Setups[setup].faults /\ faults' = faults + 1)
  BY DEF Ingress!WebhookAnswer, Ingress!WebhookFails, Ingress!Fault, Ingress!liveChat, Ingress!open, ChatStays
<1>2. LiveChatTyped /\ HumansWritten /\ handler = [g \in Handlers |-> handler[g]]
  BY DEF IngressInv
<1>3. LiveChatTyped' /\ HumansWritten'
  BY <1>1, <1>2 DEF LiveChatTyped, HumansWritten, ChatStays, Ingress!Configured
<1>4. PICK new : new = [pc |-> "idle", hook |-> 0, todo |-> <<>>]
  OBVIOUS
<1>5. handler' = [handler EXCEPT ![h] = new] /\ handler'[h] = new
  BY <1>1, <1>2, <1>4 DEF Ingress!IdleHandler
<1>6. new.pc = "idle" /\ new.todo = <<>> /\ new = [pc |-> new.pc, hook |-> new.hook, todo |-> new.todo]
  BY <1>4
<1>7. <<>> \in Seq(Ingress!Rows) /\ DOMAIN <<>> = {}
  OBVIOUS
<1>8. HandlerTrue(h)'
  BY <1>5, <1>6, <1>7 DEF HandlerTrue
<1>. QED  BY <1>1, <1>3, <1>5, <1>6, <1>8, WebhookKeeps

\* A polled row is the intro, or a customer's message.
LEMMA PollRowTrue ==
    ASSUME IngressInv, Ingress!Configured, "polling" \in Ingress!Receivers, NEW c \in Ingress!open,
           NEW n \in Nat, n # 0 => n <= Len(thread[c]) /\ thread[c][n].by = "customer"
    PROVE  /\ RowTrue(Ingress!PollRow(c, n)) /\ Ingress!PollRow(c, n).action = "polling.event"
           /\ Ingress!PollRow(c, n).chat = c /\ Ingress!PollRow(c, n).event = n
<1>1. c \in LiveChats /\ Len(thread[c]) \in Nat /\ Len(thread[c]) <= MaxEvents /\ MaxEvents \in Nat
  BY DEF IngressInv, LiveChatTyped, Ingress!Configured
<1>2. n <= Len(thread[c]) /\ n \in 0 .. MaxEvents
  BY <1>1
<1>3. PICK row : row = Ingress!PollRow(c, n)
  OBVIOUS
<1>4. row = [action |-> "polling.event", chat |-> c, event |-> n, groups |-> {"allowed"},
             public |-> FALSE, ignored |-> FALSE]
  BY <1>3 DEF Ingress!PollRow
<1>5. row \in Ingress!Rows /\ row.action = "polling.event" /\ row.chat = c /\ row.event = n /\ ~ row.public
  BY <1>1, <1>2, <1>4 DEF Ingress!Rows, Ingress!Actions
<1>6. RowTrue(row)
  BY <1>1, <1>2, <1>5 DEF RowTrue
<1>. QED  BY <1>3, <1>5, <1>6

\* What a step of the polling receiver leaves true, whether it stores a row or not.
LEMMA PollKeeps ==
    ASSUME IngressInv, Ingress!Configured, ChatStays, UNCHANGED <<hooks, human, handler>>,
           faults' = faults \/ Ingress!Fault,
           \/ UNCHANGED rows
           \/ \E row : RowTrue(row) /\ Ingress!InsertRow(row) /\ row.action = "polling.event",
           PollTrue', IntroKept'
    PROVE  IngressInv'
<1>1. LiveChatTyped' /\ HumansWritten'
  BY DEF IngressInv, LiveChatTyped, HumansWritten, ChatStays, Ingress!Fault, Ingress!Configured
<1>2. \A hook \in hooks' : HookTrue(hook)'
  BY TruthSame DEF IngressInv
<1>3. handler' = [h \in Handlers |-> handler'[h]]
  BY DEF IngressInv
<1>4. \A h \in Handlers : HandlerTrue(h)'
  BY HandlerSame DEF IngressInv
<1>5. /\ RowsTrue' /\ DOMAIN rows \subseteq DOMAIN rows'
      /\ \A i \in DOMAIN rows : rows'[i] = rows[i]
      /\ \A i \in DOMAIN rows' \ DOMAIN rows : rows'[i].action = "polling.event"
  <2>1. CASE UNCHANGED rows
    <3>1. \A r : RowTrue(r) => RowTrue(r)'
      BY TruthSame
    <3>2. \A i \in DOMAIN rows' : RowTrue(rows[i])'
      BY <2>1, <3>1 DEF IngressInv, RowsTrue, RowTrue
    <3>. QED  BY <2>1, <3>2 DEF IngressInv, RowsTrue, Ingress!_dedup_key
  <2>2. CASE ~ UNCHANGED rows
    <3>1. PICK row : RowTrue(row) /\ Ingress!InsertRow(row) /\ row.action = "polling.event"
      BY <2>2
    <3>. QED  BY <3>1, RowsInserted DEF IngressInv
  <2>. QED  BY <2>1, <2>2
<1>6. FirstToldOnce'
  <2>1. ASSUME NEW action \in {"incoming_chat", "incoming_event"}, NEW c, FirstTold(action, c)'
        PROVE  FirstTold(action, c)
    <3>1. CASE \E i \in DOMAIN rows' : rows'[i].action = action /\ rows'[i].chat = c /\ rows'[i].event = 1
      BY <1>5, <3>1 DEF FirstTold
    <3>. QED  BY <2>1, <3>1 DEF FirstTold, TellsFirst
  <2>. QED  BY <2>1 DEF FirstToldOnce, IngressInv
<1>. QED  BY <1>1, <1>2, <1>3, <1>4, <1>5, <1>6 DEF IngressInv

\* The order of the polled rows, while nothing or one more of them is stored.
IntroOrder ==
    /\ Ingress!IntroFirst
    /\ \A c \in Ingress!open : Polled(c) # {} => IntroStored(c) \/ NoIntroToCome(c)

LEMMA NoIntroSame ==
    ASSUME ChatStays
    PROVE  /\ \A c : NoIntroToCome(c)' <=> NoIntroToCome(c)
           /\ Ingress!DetailForbidden' = Ingress!DetailForbidden
           /\ Ingress!SummaryThreads' = Ingress!SummaryThreads
BY SetupKept DEF ChatStays, NoIntroToCome, Ingress!DetailIntro

LEMMA OrderSame ==
    ASSUME ChatStays, UNCHANGED rows
    PROVE  /\ IntroOrder => IntroOrder'
           /\ \A c : (IntroStored(c)' <=> IntroStored(c)) /\ Polled(c)' = Polled(c)
<1>1. \A c : (IntroStored(c)' <=> IntroStored(c)) /\ Polled(c)' = Polled(c)
  BY DEF IntroStored, Polled
<1>2. Ingress!IntroFirst => Ingress!IntroFirst'
  BY NoIntroSame DEF Ingress!IntroFirst
<1>. QED  BY <1>1, <1>2, NoIntroSame DEF IntroOrder, ChatStays

LEMMA OrderKept ==
    ASSUME RowsTrue, ChatStays, IntroOrder, ~ Ingress!DetailForbidden,
           Ingress!SummaryThreads # BOOLEAN,
           NEW row, RowTrue(row), Ingress!InsertRow(row), row.action = "polling.event",
           row.event = 0 => IntroStored(row.chat) \/ Polled(row.chat) = {},
           row.event # 0 => IntroStored(row.chat) \/ NoIntroToCome(row.chat)
    PROVE  /\ IntroOrder'
           /\ \A c : IntroStored(c) => IntroStored(c)'
           /\ row.event = 0 => IntroStored(row.chat)'
<1>1. /\ RowsTrue' /\ DOMAIN rows \subseteq DOMAIN rows' /\ DOMAIN rows \subseteq Nat
      /\ \A i \in DOMAIN rows : rows'[i] = rows[i]
      /\ \A i \in DOMAIN rows' \ DOMAIN rows :
            /\ rows'[i] = row /\ ~ Ingress!IsDuplicate(row)
            /\ i \in Nat /\ \A j \in DOMAIN rows : j <= i
      /\ \E i \in DOMAIN rows' : Ingress!_dedup_key(rows'[i]) = Ingress!_dedup_key(row)
  BY RowsInserted
<1>2. \A c : IntroStored(c) => IntroStored(c)'
  BY <1>1 DEF IntroStored, Polled
<1>3. row.event = 0 => IntroStored(row.chat)'
  BY <1>1 DEF IntroStored, Polled, Ingress!_dedup_key
<1>4. IntroStored(row.chat) /\ row.event = 0 => Ingress!IsDuplicate(row)
  BY DEF IntroStored, Polled, Ingress!IsDuplicate, Ingress!_dedup_key
<1>5. Ingress!IntroFirst'
  <2>1. SUFFICES ASSUME NEW i \in DOMAIN rows', NEW j \in DOMAIN rows',
                        rows'[i].action = "polling.event", rows'[j].action = "polling.event",
                        rows'[i].chat = rows'[j].chat, rows'[j].event = 0
                 PROVE  j <= i
    BY DEF Ingress!IntroFirst, Ingress!Intro
  <2>2. CASE i \in DOMAIN rows /\ j \in DOMAIN rows
    BY <1>1, <2>1, <2>2 DEF IntroOrder, Ingress!IntroFirst, Ingress!Intro
  <2>3. CASE j \in DOMAIN rows /\ i \notin DOMAIN rows
    BY <1>1, <2>1, <2>3
  <2>4. CASE j \notin DOMAIN rows /\ i \in DOMAIN rows
    <3>1. rows'[j] = row /\ ~ Ingress!IsDuplicate(row) /\ i \in Polled(row.chat)
      BY <1>1, <2>1, <2>4 DEF Polled
    <3>. QED  BY <1>4, <2>1, <3>1
  <2>5. CASE j \notin DOMAIN rows /\ i \notin DOMAIN rows
    <3>1. rows'[i] = rows'[j] /\ i \in Nat
      BY <1>1, <2>5
    <3>2. i = j
      BY <1>1, <3>1 DEF RowsTrue, Ingress!_dedup_key
    <3>. QED  BY <3>1, <3>2
  <2>. QED  BY <2>2, <2>3, <2>4, <2>5
<1>6. ASSUME NEW c \in Ingress!open', Polled(c)' # {}
      PROVE  IntroStored(c)' \/ NoIntroToCome(c)'
  <2>1. CASE c = row.chat
    BY <1>2, <1>3, <2>1, NoIntroSame
  <2>2. CASE c # row.chat
    <3>1. Polled(c) # {}
      BY <1>1, <1>6, <2>2 DEF Polled
    <3>. QED  BY <1>2, <3>1, NoIntroSame DEF IntroOrder, ChatStays
  <2>. QED  BY <2>1, <2>2
<1>. QED  BY <1>2, <1>3, <1>5, <1>6 DEF IntroOrder

\* The poll record that a step writes, field by field.
LEMMA PollQueueSet ==
    ASSUME NEW p, p = [pc |-> p.pc, queue |-> p.queue, at |-> p.at, todo |-> p.todo, sorted |-> p.sorted], NEW v
    PROVE  [p EXCEPT !.queue = v] = [pc |-> p.pc, queue |-> v, at |-> p.at, todo |-> p.todo, sorted |-> p.sorted]
<1>1. PICK new : new = [pc |-> p.pc, queue |-> v, at |-> p.at, todo |-> p.todo, sorted |-> p.sorted]
  OBVIOUS
<1>2. [p EXCEPT !.queue = v] = new
  BY <1>1
<1>. QED  BY <1>1, <1>2

LEMMA PollTodoSet ==
    ASSUME NEW p, p = [pc |-> p.pc, queue |-> p.queue, at |-> p.at, todo |-> p.todo, sorted |-> p.sorted], NEW v
    PROVE  [p EXCEPT !.todo = v] = [pc |-> p.pc, queue |-> p.queue, at |-> p.at, todo |-> v, sorted |-> p.sorted]
<1>1. PICK new : new = [pc |-> p.pc, queue |-> p.queue, at |-> p.at, todo |-> v, sorted |-> p.sorted]
  OBVIOUS
<1>2. [p EXCEPT !.todo = v] = new
  BY <1>1
<1>. QED  BY <1>1, <1>2

LEMMA PollSet ==
    ASSUME NEW p, NEW pc, NEW queue, NEW at, NEW todo, NEW sorted, NEW a, NEW b, NEW v,
           p = [pc |-> pc, queue |-> queue, at |-> at, todo |-> todo, sorted |-> sorted]
    PROVE  /\ [p EXCEPT !.pc = a, !.queue = v] =
                 [pc |-> a, queue |-> v, at |-> at, todo |-> todo, sorted |-> sorted]
           /\ [p EXCEPT !.queue = v, !.pc = a, !.at = b] =
                 [pc |-> a, queue |-> v, at |-> b, todo |-> todo, sorted |-> sorted]
           /\ [p EXCEPT !.pc = a, !.todo = v, !.sorted = b] =
                 [pc |-> a, queue |-> queue, at |-> at, todo |-> v, sorted |-> b]
<1>1. PICK q : q = [pc |-> pc, queue |-> v, at |-> at, todo |-> todo, sorted |-> sorted]
  OBVIOUS
<1>2. [p EXCEPT !.queue = v] = q
  BY <1>1
<1>3. PICK c : c = [pc |-> a, queue |-> queue, at |-> at, todo |-> todo, sorted |-> sorted]
  OBVIOUS
<1>4. [p EXCEPT !.pc = a] = c
  BY <1>3
<1>5. PICK cq : cq = [pc |-> a, queue |-> v, at |-> at, todo |-> todo, sorted |-> sorted]
  OBVIOUS
<1>6. [c EXCEPT !.queue = v] = cq
  BY <1>5, <1>3
<1>7. PICK cqa : cqa = [pc |-> a, queue |-> v, at |-> b, todo |-> todo, sorted |-> sorted]
  OBVIOUS
<1>8. [cq EXCEPT !.at = b] = cqa
  BY <1>7, <1>5
<1>9. PICK ct : ct = [pc |-> a, queue |-> queue, at |-> at, todo |-> v, sorted |-> sorted]
  OBVIOUS
<1>10. [c EXCEPT !.todo = v] = ct
  BY <1>9, <1>3
<1>11. PICK cts : cts = [pc |-> a, queue |-> queue, at |-> at, todo |-> v, sorted |-> b]
  OBVIOUS
<1>12. [ct EXCEPT !.sorted = b] = cts
  BY <1>11, <1>9
<1>13. [q EXCEPT !.pc = a] = cq
  BY <1>1, <1>5
<1>. QED  BY <1>1, <1>2, <1>3, <1>4, <1>5, <1>6, <1>7, <1>8, <1>9, <1>10, <1>11, <1>12, <1>13

LEMMA PollListSound ==
    ASSUME IngressInv, Ingress!Configured, Ingress!PollList
    PROVE  IngressInv'
<1>1. ChatStays /\ UNCHANGED <<hooks, rows, human, handler, faults>> /\ "polling" \in Ingress!Receivers
  BY DEF Ingress!PollList, Ingress!liveChat, Ingress!open, ChatStays
<1>2. PICK queue : queue = {[chat |-> c, n |-> Len(thread[c])] :
                               c \in {d \in Ingress!chats_summary : group[d] = "allowed"}}
  OBVIOUS
<1>3. poll' = [pc |-> "chats", queue |-> queue, at |-> 0, todo |-> {}, sorted |-> FALSE]
  <2>1. PICK idle : idle = [pc |-> "idle", queue |-> {}, at |-> 0, todo |-> {}, sorted |-> FALSE]
    OBVIOUS
  <2>2. poll' = [idle EXCEPT !.pc = "chats", !.queue = queue]
    BY <1>2, <2>1 DEF Ingress!PollList, Ingress!IdlePoll
  <2>. QED  BY <2>1, <2>2, PollSet
<1>4. \A s \in queue : s \in [chat : LiveChats, n : Nat] /\ Listed(s)
  <2>1. \A c \in Ingress!open : c \in LiveChats /\ Len(thread[c]) \in Nat
    BY DEF IngressInv, LiveChatTyped
  <2>2. Ingress!chats_summary \subseteq Ingress!open
    BY DEF Ingress!chats_summary, Ingress!open
  <2>. QED  BY <1>2, <2>1, <2>2 DEF Listed
<1>5. \A s \in queue : Listed(s)'
  BY <1>1, <1>4, TruthSame
<1>6. PollTrue'
  BY <1>1, <1>3, <1>4, <1>5, SetupKept DEF PollTrue, ChatStays
<1>7. IntroKept'
  <2>1. IntroKept
    BY DEF IngressInv
  <2>. QED  BY <1>1, <1>3, <2>1, OrderSame, NoIntroSame DEF IntroKept, IntroOrder
<1>. QED  BY <1>1, <1>6, <1>7, PollKeeps

LEMMA PollSummarySound ==
    ASSUME IngressInv, Ingress!Configured, Ingress!PollSummary
    PROVE  IngressInv'
<1>1. ChatStays /\ UNCHANGED <<hooks, human, handler, faults>> /\ poll.pc = "chats"
  BY DEF Ingress!PollSummary, Ingress!liveChat, Ingress!open, ChatStays
<1>2. PollTrue /\ IntroKept /\ RowsTrue
  BY DEF IngressInv
<1>3. PICK s \in poll.queue : \E hasThread \in Ingress!SummaryThreads :
         /\ IF hasThread THEN Ingress!InsertRow(Ingress!PollRow(s.chat, 0)) ELSE UNCHANGED rows
         /\ poll' = IF hasThread /\ Ingress!SkipsAfterIntro(s.chat)
                    THEN [poll EXCEPT !.queue = @ \ {s}]
                    ELSE [poll EXCEPT !.queue = @ \ {s}, !.pc = "detail", !.at = s]
  BY DEF Ingress!PollSummary, Ingress!Intro
<1>4. PICK hasThread \in Ingress!SummaryThreads :
         /\ IF hasThread THEN Ingress!InsertRow(Ingress!PollRow(s.chat, 0)) ELSE UNCHANGED rows
         /\ poll' = IF hasThread /\ Ingress!SkipsAfterIntro(s.chat)
                    THEN [poll EXCEPT !.queue = @ \ {s}]
                    ELSE [poll EXCEPT !.queue = @ \ {s}, !.pc = "detail", !.at = s]
  BY <1>3
<1>5. hasThread \in BOOLEAN /\ Ingress!SummaryThreads \subseteq BOOLEAN
  BY DEF Ingress!Configured, Ingress!SummaryThreads, IngressInv, LiveChatTyped
<1>6. s \in [chat : LiveChats, n : Nat] /\ Listed(s) /\ s.chat \in Ingress!open /\ "polling" \in Ingress!Receivers
  BY <1>1, <1>2 DEF PollTrue, Listed
<1>7. PICK queue : queue = poll.queue \ {s}
  OBVIOUS
<1>8. \/ /\ hasThread
         /\ poll' = [pc |-> "chats", queue |-> queue, at |-> poll.at, todo |-> poll.todo,
                     sorted |-> poll.sorted]
      \/ poll' = [pc |-> "detail", queue |-> queue, at |-> s, todo |-> poll.todo, sorted |-> poll.sorted]
  <2>1. poll = [pc |-> "chats", queue |-> poll.queue, at |-> poll.at, todo |-> poll.todo,
                sorted |-> poll.sorted]
    BY <1>1, <1>2 DEF PollTrue
  <2>4. CASE hasThread /\ Ingress!SkipsAfterIntro(s.chat)
    <3>1. poll' = [poll EXCEPT !.queue = queue]
      BY <1>4, <1>7, <2>4
    <3>2. poll' = [pc |-> "chats", queue |-> queue, at |-> poll.at, todo |-> poll.todo,
                   sorted |-> poll.sorted]
      <4>1. [poll EXCEPT !.queue = queue] =
               [pc |-> "chats", queue |-> queue, at |-> poll.at, todo |-> poll.todo,
                sorted |-> poll.sorted]
        BY <1>1, <2>1, PollQueueSet
      <4>. QED  BY <3>1, <4>1
    <3>. QED  BY <2>4, <3>2
  <2>5. CASE ~ (hasThread /\ Ingress!SkipsAfterIntro(s.chat))
    <3>1. poll' = [poll EXCEPT !.queue = queue, !.pc = "detail", !.at = s]
      BY <1>4, <1>7, <2>5
    <3>. QED  BY <2>1, <3>1, PollSet
  <2>. QED  BY <2>4, <2>5
<1>9. /\ poll'.pc \in {"chats", "detail"} /\ poll'.queue = queue /\ poll'.todo = {}
      /\ poll'.pc = "chats" => hasThread
      /\ poll'.pc = "detail" => poll'.at = s
      /\ poll' = [pc |-> poll'.pc, queue |-> poll'.queue, at |-> poll'.at, todo |-> poll'.todo,
                  sorted |-> poll'.sorted]
  BY <1>1, <1>2, <1>8 DEF PollTrue
<1>10. PollTrue'
  <2>1. \A t \in queue : t \in [chat : LiveChats, n : Nat] /\ Listed(t)
    BY <1>2, <1>7 DEF PollTrue
  <2>2. \A t : Listed(t) => Listed(t)'
    BY <1>1, TruthSame
  <2>3. \A t \in poll'.queue : Listed(t)'
    BY <1>9, <2>1, <2>2
  <2>4. poll'.pc = "detail" => Listed(poll.at)'
    BY <1>6, <1>9, <2>2 DEF Listed
  <2>. QED  BY <1>1, <1>6, <1>9, <2>1, <2>3, <2>4, SetupKept DEF PollTrue, ChatStays
<1>11. PICK row : row = Ingress!PollRow(s.chat, 0)
  OBVIOUS
<1>12. RowTrue(row) /\ row.action = "polling.event" /\ row.chat = s.chat /\ row.event = 0
  BY <1>6, <1>11, PollRowTrue
<1>13. \/ hasThread /\ Ingress!InsertRow(row)
       \/ ~ hasThread /\ UNCHANGED rows
  BY <1>4, <1>5, <1>11
<1>14. IntroKept'
  <2>1. SUFFICES ASSUME ~ Ingress!DetailForbidden, Ingress!SummaryThreads # BOOLEAN
                 PROVE  IntroOrder' /\ (poll'.pc = "detail" /\ TRUE \in Ingress!SummaryThreads =>
                                          IntroStored(s.chat)')
    <3>1. (/\ ~ Ingress!DetailForbidden' /\ Ingress!SummaryThreads' # BOOLEAN =>
               /\ IntroOrder'
               /\ (poll'.pc = "detail" /\ TRUE \in Ingress!SummaryThreads' => IntroStored(poll.at.chat)'))
           => IntroKept'
      BY <1>9 DEF IntroKept, IntroOrder
    <3>2. poll'.pc = "detail" => (IntroStored(s.chat)' => IntroStored(poll.at.chat)')
      BY <1>9 DEF IntroStored, Polled
    <3>. QED  BY <1>1, <3>1, <3>2, NoIntroSame
  <2>2. IntroOrder
    BY <1>2, <2>1 DEF IntroKept, IntroOrder
  <2>3. CASE hasThread /\ Ingress!InsertRow(row)
    <3>1. TRUE \in Ingress!SummaryThreads
      BY <1>5, <2>3
    <3>2. IntroStored(row.chat) \/ Polled(row.chat) = {}
      BY <1>6, <1>12, <2>2, <3>1 DEF IntroOrder, NoIntroToCome
    <3>. QED  BY <1>1, <1>2, <1>12, <2>1, <2>2, <2>3, <3>2, OrderKept
  <2>4. CASE ~ hasThread /\ UNCHANGED rows
    <3>1. TRUE \notin Ingress!SummaryThreads
      BY <1>5, <2>1, <2>4
    <3>. QED  BY <1>1, <2>2, <2>4, <3>1, OrderSame
  <2>. QED  BY <1>13, <2>3, <2>4
<1>. QED  BY <1>1, <1>10, <1>12, <1>13, <1>14, PollKeeps

LEMMA PollDetailSound ==
    ASSUME IngressInv, Ingress!Configured, Ingress!PollDetail
    PROVE  IngressInv'
<1>1. /\ ChatStays /\ UNCHANGED <<hooks, rows, human, handler>> /\ poll.pc = "detail"
      /\ faults' = faults \/ Ingress!Fault
  BY DEF Ingress!PollDetail, Ingress!liveChat, Ingress!open, ChatStays
<1>2. PollTrue /\ IntroKept /\ LiveChatTyped
  BY DEF IngressInv
<1>3. PICK c : c = poll.at.chat
  OBVIOUS
<1>4. /\ poll.at \in [chat : LiveChats, n : Nat] /\ Listed(poll.at) /\ c \in LiveChats /\ c \in Ingress!open
      /\ poll.at.n \in 0 .. Len(thread[c]) /\ "polling" \in Ingress!Receivers
  BY <1>1, <1>2, <1>3 DEF PollTrue, Listed
<1>5. DOMAIN thread[c] = 1 .. Len(thread[c]) /\ Len(thread[c]) \in Nat
  BY <1>2, <1>4, ThreadParts
<1>6. PICK todo, sorted :
         /\ poll' = [poll EXCEPT !.pc = "insert", !.todo = todo, !.sorted = sorted]
         /\ \/ sorted /\ todo = IF group[c] = "allowed" THEN Ingress!DetailEvents(c) ELSE {}
            \/ /\ Ingress!DetailForbidden
               /\ todo = Ingress!Customers(c, Ingress!LastOfTypes(c, poll.at.n))
  BY <1>3 DEF Ingress!PollDetail
<1>7. poll' = [pc |-> "insert", queue |-> poll.queue, at |-> poll.at, todo |-> todo, sorted |-> sorted]
  <2>1. poll = [pc |-> "detail", queue |-> poll.queue, at |-> poll.at, todo |-> poll.todo,
                sorted |-> poll.sorted]
    BY <1>1, <1>2 DEF PollTrue
  <2>. QED  BY <1>6, <2>1, PollSet
<1>8. /\ poll'.pc = "insert" /\ poll'.queue = poll.queue /\ poll'.at = poll.at /\ poll'.todo = todo
      /\ poll'.sorted = sorted
      /\ poll' = [pc |-> poll'.pc, queue |-> poll'.queue, at |-> poll'.at, todo |-> poll'.todo,
                  sorted |-> poll'.sorted]
  BY <1>7
<1>9. \A n \in todo : n \in Nat /\ (n # 0 => n \in DOMAIN thread[c] /\ thread[c][n].by = "customer")
  <2>1. CASE todo = {}
    BY <2>1
  <2>2. CASE todo = Ingress!DetailEvents(c)
    BY <1>5, <2>2 DEF Ingress!DetailEvents, Ingress!DetailIntro, Ingress!Customers, Ingress!Intro
  <2>3. CASE todo = Ingress!Customers(c, Ingress!LastOfTypes(c, poll.at.n))
    BY <1>4, <1>5, <2>3 DEF Ingress!LastOfTypes, Ingress!Customers
  <2>. QED  BY <1>6, <2>1, <2>2, <2>3
<1>10. PollTrue'
  <2>1. \A t : Listed(t) => Listed(t)'
    BY <1>1, TruthSame
  <2>2. \A t \in poll'.queue : Listed(t)'
    BY <1>2, <1>8, <2>1 DEF PollTrue
  <2>3. Listed(poll.at)'
    BY <1>4, <1>8, <2>1 DEF Listed
  <2>4. \A n \in poll'.todo : n # 0 => /\ n <= Len(thread'[poll'.at.chat])
                                       /\ thread'[poll'.at.chat][n].by = "customer"
    BY <1>1, <1>3, <1>5, <1>8, <1>9 DEF ChatStays
  <2>. QED  BY <1>1, <1>2, <1>4, <1>8, <1>9, <2>2, <2>3, <2>4, SetupKept DEF PollTrue, ChatStays
<1>11. IntroKept'
  <2>1. SUFFICES ASSUME ~ Ingress!DetailForbidden, Ingress!SummaryThreads # BOOLEAN
                 PROVE  /\ IntroOrder' /\ sorted
                        /\ IF 0 \in todo THEN IntroStored(c)' \/ Polled(c)' = {}
                           ELSE todo # {} => IntroStored(c)' \/ NoIntroToCome(c)'
    <3>1. (~ Ingress!DetailForbidden' /\ Ingress!SummaryThreads' # BOOLEAN =>
               /\ IntroOrder' /\ sorted
               /\ IF 0 \in todo THEN IntroStored(c)' \/ Polled(c)' = {}
                  ELSE todo # {} => IntroStored(c)' \/ NoIntroToCome(c)')
           => IntroKept'
      BY <1>3, <1>8, OrderSame, <1>1, NoIntroSame DEF IntroKept, IntroOrder
    <3>. QED  BY <1>1, <3>1, NoIntroSame
  <2>2. IntroOrder /\ (TRUE \in Ingress!SummaryThreads => IntroStored(c))
    BY <1>1, <1>2, <1>3, <2>1 DEF IntroKept, IntroOrder
  <2>3. sorted /\ (todo = {} \/ todo = Ingress!DetailEvents(c))
    BY <1>6, <2>1
  <2>4. 0 \notin Ingress!Customers(c, DOMAIN thread[c])
    BY <1>5 DEF Ingress!Customers
  <2>5. CASE 0 \in todo
    <3>1. Ingress!DetailIntro(c) # {}
      BY <2>3, <2>4, <2>5 DEF Ingress!DetailEvents
    <3>2. IntroStored(c) \/ Polled(c) = {}
      BY <1>4, <2>2, <3>1 DEF IntroOrder, NoIntroToCome
    <3>. QED  BY <1>1, <2>2, <2>3, <2>5, <3>2, OrderSame
  <2>6. CASE 0 \notin todo
    <3>1. todo # {} => Ingress!DetailIntro(c) = {}
      BY <2>3, <2>6 DEF Ingress!DetailEvents, Ingress!DetailIntro, Ingress!Intro
    <3>2. todo # {} => IntroStored(c) \/ NoIntroToCome(c)
      BY <2>2, <3>1 DEF NoIntroToCome
    <3>. QED  BY <1>1, <2>2, <2>3, <2>6, <3>2, OrderSame, NoIntroSame
  <2>. QED  BY <2>5, <2>6
<1>. QED  BY <1>1, <1>10, <1>11, PollKeeps

LEMMA PollInsertSound ==
    ASSUME IngressInv, Ingress!Configured, Ingress!PollInsert
    PROVE  IngressInv'
<1>1. ChatStays /\ UNCHANGED <<hooks, human, handler, faults>> /\ poll.pc = "insert"
  BY DEF Ingress!PollInsert, Ingress!liveChat, Ingress!open, ChatStays
<1>2. PollTrue /\ IntroKept /\ RowsTrue
  BY DEF IngressInv
<1>3. PICK c : c = poll.at.chat
  OBVIOUS
<1>4. PICK n \in poll.todo : /\ poll.sorted => \A m \in poll.todo : n <= m
                             /\ Ingress!InsertRow(Ingress!PollRow(c, n))
                             /\ poll' = [poll EXCEPT !.todo = @ \ {n}]
  BY <1>3 DEF Ingress!PollInsert
<1>5. /\ c \in Ingress!open /\ n \in Nat /\ "polling" \in Ingress!Receivers
      /\ n # 0 => n <= Len(thread[c]) /\ thread[c][n].by = "customer"
  BY <1>1, <1>2, <1>3 DEF PollTrue, Listed
<1>6. PICK todo : todo = poll.todo \ {n}
  OBVIOUS
<1>7. poll' = [pc |-> "insert", queue |-> poll.queue, at |-> poll.at, todo |-> todo,
               sorted |-> poll.sorted]
  <2>1. poll = [pc |-> "insert", queue |-> poll.queue, at |-> poll.at, todo |-> poll.todo,
                sorted |-> poll.sorted]
    BY <1>1, <1>2 DEF PollTrue
  <2>2. poll' = [poll EXCEPT !.todo = todo]
    BY <1>4, <1>6
  <2>3. [poll EXCEPT !.todo = todo] =
           [pc |-> "insert", queue |-> poll.queue, at |-> poll.at, todo |-> todo,
            sorted |-> poll.sorted]
    BY <1>1, <2>1, PollTodoSet
  <2>. QED  BY <2>2, <2>3
<1>8. /\ poll'.pc = "insert" /\ poll'.queue = poll.queue /\ poll'.at = poll.at /\ poll'.todo = todo
      /\ poll'.sorted = poll.sorted
      /\ poll' = [pc |-> poll'.pc, queue |-> poll'.queue, at |-> poll'.at, todo |-> poll'.todo,
                  sorted |-> poll'.sorted]
  BY <1>7
<1>9. PollTrue'
  <2>1. \A t : Listed(t) => Listed(t)'
    BY <1>1, TruthSame
  <2>2. \A t \in poll'.queue : Listed(t)'
    BY <1>2, <1>8, <2>1 DEF PollTrue
  <2>3. Listed(poll.at)'
    BY <1>1, <1>2, <1>8, <2>1 DEF Listed, PollTrue
  <2>4. \A m \in poll'.todo : m # 0 => /\ m <= Len(thread'[poll'.at.chat])
                                       /\ thread'[poll'.at.chat][m].by = "customer"
    BY <1>1, <1>2, <1>6, <1>8 DEF ChatStays, PollTrue
  <2>. QED  BY <1>1, <1>2, <1>5, <1>6, <1>8, <2>2, <2>3, <2>4, SetupKept DEF PollTrue, ChatStays
<1>10. PICK row : row = Ingress!PollRow(c, n)
  OBVIOUS
<1>11. /\ RowTrue(row) /\ row.action = "polling.event" /\ row.chat = c /\ row.event = n
       /\ Ingress!InsertRow(row)
  BY <1>4, <1>5, <1>10, PollRowTrue
<1>12. IntroKept'
  <2>1. SUFFICES ASSUME ~ Ingress!DetailForbidden, Ingress!SummaryThreads # BOOLEAN
                 PROVE  /\ IntroOrder' /\ poll.sorted
                        /\ IF 0 \in todo THEN IntroStored(c)' \/ Polled(c)' = {}
                           ELSE todo # {} => IntroStored(c)' \/ NoIntroToCome(c)'
    <3>1. IntroStored(c)' => IntroStored(poll.at.chat)'
      BY <1>3, <1>8 DEF IntroStored, Polled
    <3>2. Polled(c)' = {} => Polled(poll.at.chat)' = {}
      BY <1>3, <1>8 DEF Polled
    <3>3. NoIntroToCome(c)' => NoIntroToCome(poll.at.chat)'
      BY <1>3, <1>8, <1>1 DEF NoIntroToCome, Ingress!DetailIntro, ChatStays
    <3>4. (~ Ingress!DetailForbidden' /\ Ingress!SummaryThreads' # BOOLEAN =>
               /\ IntroOrder' /\ poll.sorted
               /\ IF 0 \in todo THEN IntroStored(c)' \/ Polled(c)' = {}
                  ELSE todo # {} => IntroStored(c)' \/ NoIntroToCome(c)')
           => IntroKept'
      BY <1>8, <3>1, <3>2, <3>3 DEF IntroKept, IntroOrder
    <3>. QED  BY <1>1, <3>4, NoIntroSame
  <2>2. /\ IntroOrder /\ poll.sorted
        /\ IF 0 \in poll.todo THEN IntroStored(c) \/ Polled(c) = {}
           ELSE poll.todo # {} => IntroStored(c) \/ NoIntroToCome(c)
    BY <1>1, <1>2, <1>3, <2>1 DEF IntroKept, IntroOrder
  <2>3. 0 \in poll.todo <=> n = 0
    BY <1>2, <1>4, <1>5, <2>2 DEF PollTrue
  <2>4. 0 \notin todo
    BY <1>6, <2>3
  <2>5. /\ n = 0 => IntroStored(c) \/ Polled(c) = {}
        /\ n # 0 => IntroStored(c) \/ NoIntroToCome(c)
    BY <2>2, <2>3
  <2>6. IntroOrder' /\ (IntroStored(c) => IntroStored(c)') /\ (n = 0 => IntroStored(c)')
    BY <1>1, <1>2, <1>11, <2>1, <2>2, <2>5, OrderKept
  <2>. QED  BY <1>1, <2>2, <2>4, <2>5, <2>6, NoIntroSame
<1>. QED  BY <1>1, <1>9, <1>11, <1>12, PollKeeps

\* The next chat, the end of the cycle and its failure leave nothing in work.
LEMMA PollEndsSound ==
    ASSUME IngressInv, Ingress!Configured,
           Ingress!PollNext \/ Ingress!PollDone \/ Ingress!PollFails
    PROVE  IngressInv'
<1>1. /\ ChatStays /\ UNCHANGED <<hooks, rows, human, handler>> /\ poll.pc # "idle"
      /\ faults' = faults \/ Ingress!Fault
  BY DEF Ingress!PollNext, Ingress!PollDone, Ingress!PollFails, Ingress!liveChat, Ingress!open, ChatStays
<1>2. PollTrue /\ IntroKept
  BY DEF IngressInv
<1>3. PICK pc \in {"idle", "chats"}, queue \in SUBSET poll.queue :
         poll' = [pc |-> pc, queue |-> queue, at |-> 0, todo |-> {}, sorted |-> FALSE]
  <2>1. PICK idle : idle = [pc |-> "idle", queue |-> {}, at |-> 0, todo |-> {}, sorted |-> FALSE]
    OBVIOUS
  <2>2. CASE Ingress!PollNext
    <3>1. poll' = [idle EXCEPT !.pc = "chats", !.queue = poll.queue]
      BY <2>1, <2>2 DEF Ingress!PollNext, Ingress!IdlePoll
    <3>2. poll' = [pc |-> "chats", queue |-> poll.queue, at |-> 0, todo |-> {}, sorted |-> FALSE]
      BY <2>1, <3>1, PollSet
    <3>. QED  BY <3>2
  <2>3. CASE Ingress!PollDone \/ Ingress!PollFails
    <3>1. poll' = [pc |-> "idle", queue |-> {}, at |-> 0, todo |-> {}, sorted |-> FALSE]
      BY <2>3 DEF Ingress!PollDone, Ingress!PollFails, Ingress!IdlePoll
    <3>. QED  BY <3>1
  <2>. QED  BY <2>2, <2>3
<1>4. /\ poll'.pc = pc /\ poll'.queue = queue /\ poll'.todo = {}
      /\ poll' = [pc |-> poll'.pc, queue |-> poll'.queue, at |-> poll'.at, todo |-> poll'.todo,
                  sorted |-> poll'.sorted]
  BY <1>3
<1>5. PollTrue'
  <2>1. \A t : Listed(t) => Listed(t)'
    BY <1>1, TruthSame
  <2>2. \A t \in poll'.queue : Listed(t)'
    BY <1>2, <1>3, <1>4, <2>1 DEF PollTrue
  <2>. QED  BY <1>1, <1>2, <1>3, <1>4, <2>2, SetupKept DEF PollTrue, ChatStays
<1>6. IntroKept'
  BY <1>1, <1>2, <1>3, <1>4, OrderSame, NoIntroSame DEF IntroKept, IntroOrder
<1>. QED  BY <1>1, <1>5, <1>6, PollKeeps

LEMMA IngressStep ==
    ASSUME IngressInv, Ingress!Configured, [Ingress!Next]_ingressVars
    PROVE  IngressInv'
<1>1. ASSUME NEW c \in LiveChats, Ingress!ChatStarts(c) PROVE IngressInv'
  BY <1>1, ChatStartsSound
<1>2. ASSUME NEW c \in LiveChats, Ingress!EventPosted(c) PROVE IngressInv'
  BY <1>2, EventPostedSound
<1>3. ASSUME NEW c \in LiveChats, Ingress!ChatTransferred(c) PROVE IngressInv'
  BY <1>3, ChatTransferredSound
<1>4. ASSUME NEW h \in Handlers, Ingress!WebhookStep(h) \/ Ingress!WebhookFails(h) PROVE IngressInv'
  BY <1>4, WebhookReceiveSound, WebhookInsertSound, WebhookMarkSound, WebhookEndsSound
     DEF Ingress!WebhookStep
<1>5. CASE Ingress!PollStep \/ Ingress!PollFails
  BY <1>5, PollListSound, PollSummarySound, PollDetailSound, PollInsertSound, PollEndsSound
     DEF Ingress!PollStep
<1>6. CASE UNCHANGED ingressVars
  <2>1. ChatStays /\ UNCHANGED <<hooks, rows, human, handler, poll, faults>>
    BY <1>6 DEF ingressVars, ChatStays, Ingress!open
  <2>2. PollTrue /\ IntroKept
    BY DEF IngressInv
  <2>3. PollTrue'
    BY <2>1, <2>2, TruthSame, SetupKept DEF PollTrue, Listed, ChatStays, Ingress!Receivers
  <2>4. IntroKept'
    <3>1. /\ IntroStored(poll.at.chat)' <=> IntroStored(poll.at.chat)
          /\ Polled(poll.at.chat)' = Polled(poll.at.chat)
      BY <2>1 DEF IntroStored, Polled
    <3>2. NoIntroToCome(poll.at.chat)' <=> NoIntroToCome(poll.at.chat)
      BY <2>1, NoIntroSame DEF NoIntroToCome, Ingress!DetailIntro, ChatStays
    <3>. QED  BY <2>1, <2>2, <3>1, <3>2, OrderSame, NoIntroSame DEF IntroKept, IntroOrder
  <2>. QED  BY <2>1, <2>3, <2>4, PollKeeps
<1>. QED  BY <1>1, <1>2, <1>3, <1>4, <1>5, <1>6 DEF Ingress!Next

\* In every deployment of the receivers, the rows of inbound_events tell what happened
\* in LiveChat: dedup_key and _author_type make one row to answer of each message of a
\* customer and none of an agent's, human_agent_public_reply lets only a public reply
\* of an agent stop the AI, and the intro precedes the messages of its thread.
THEOREM RowsTellTheChat == Ingress!Spec => []RowsSound
<1>1. Ingress!Init => IngressInv
  BY IngressInit, IngressAssumption
<1>2. IngressInv /\ [Ingress!Next]_ingressVars => IngressInv'
  BY IngressStep, IngressAssumption
<1>3. IngressInv => RowsSound
  BY IngressSound, IngressAssumption
<1>. QED  BY <1>1, <1>2, <1>3, PTL DEF Ingress!Spec, Ingress!vars, ingressVars, Ingress!liveChat
=============================================================================
