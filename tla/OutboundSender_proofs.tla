----------------------- MODULE OutboundSender_proofs ------------------------
(***************************************************************************)
(* Proofs about OutboundSender for every set of sender workers, every      *)
(* answer, retry limit, group size and number of faults: blocks are shown  *)
(* in order, and repetitions and retries are accounted for.                *)
(***************************************************************************)
EXTENDS OutboundSender, FiniteSetTheorems, TLAPS

-----------------------------------------------------------------------------
(* Workers and their groups *)

\* Workers that may still show or mark the first row of their group.
WorkingPoints == {"check", "send", "fallback", "mark"}
Working == {w \in Workers : worker[w].pc \in WorkingPoints}

\* The rows whose lease a worker relies on: a row whose mark is done, or has
\* raised, is not its own any more.
Rest(w) == {worker[w].group[i].id : i \in 2 .. Len(worker[w].group)}
Leased(w) == IF worker[w].pc = "release" THEN Rest(w) ELSE Held(w)

\* A group is in the order of the lease, and a verdict is there to be marked.
GroupsInOrder ==
    \A w \in Workers :
        /\ worker[w].pc = "idle" <=> worker[w].group = <<>>
        /\ \A i, j \in DOMAIN worker[w].group :
              i < j => SendsBefore(worker[w].group[i].id, worker[w].group[j].id)
        /\ worker[w].pc = "mark" => worker[w].verdict \in {"SENT", "FAILED", "SKIPPED", "PENDING"}
        /\ worker[w].pc = "fallback" => worker[w].verdict \in {"FAILED", "PENDING"}

\* Answers are stored one after another, and only stored rows are leased.
StoredInOrder ==
    /\ \A r \in Ids : row[r].st # "ABSENT" => Blocks[r].turn <= stored
    /\ \A w \in Workers : \A r \in Held(w) : row[r].st # "ABSENT"

-----------------------------------------------------------------------------
(* What holds while leases outlive the work *)

\* No two workers rely on the lease of the same row, and a row that is still to
\* be sent keeps the lease.
LeasesApart ==
    /\ \A w \in Workers : \A r \in Leased(w) : r \in Queued => row[r].locked
    /\ \A v, w \in Workers : v # w => Leased(v) \cap Leased(w) = {}

\* One worker at a time, and nothing changes its rows but an agent who cancels all.
OneWorking ==
    /\ \A v, w \in Working : v = w
    /\ \A w \in Working : Held(w) \subseteq Queued \/ (human = "cancelled" /\ Queued = {})

\* Whatever goes before a row of the group is in the group.
GroupIsFirst ==
    \A w \in Working : \A r \in Held(w), q \in Queued :
        q < r /\ Blocks[q].rank <= Blocks[r].rank => q \in Held(w)

\* The first row of the group is as good as settled.
Settling(w) == worker[w].pc = "mark" /\ worker[w].verdict \in {"SENT", "FAILED"}

\* The showings of a row are explained: by its one call that counts and by
\* faults; and while its row can be called again, by faults alone.
Explained(r) == shown[r] <= 1 + faults
MayBeCalled(r) == shown[r] <= faults

ShownByFaults ==
    \A r \in Ids :
        /\ Explained(r)
        /\ row[r].st \in {"ABSENT", "PENDING"}
           /\ (\A w \in Working : Settling(w) => Cur(w).id # r) => MayBeCalled(r)
        /\ \A w \in Working : r \in Held(w) /\ ~(Settling(w) /\ Cur(w).id = r) => MayBeCalled(r)

\* The retries of a row, and the one a verdict announces, are within the limit.
WithinLimit(r) == row[r].retry < MaxRetries + faults + putOff[r]
OneMoreAllowed(r) == row[r].retry + 1 < MaxRetries + faults + putOff[r]

RetriesKnown ==
    /\ \A w \in Working : \A i \in DOMAIN worker[w].group :
          worker[w].group[i].retry = row[worker[w].group[i].id].retry
    /\ MaxRetries > 0 =>
          /\ \A r \in Ids : WithinLimit(r)
          /\ \A w \in Working : worker[w].pc \in {"fallback", "mark"} /\ worker[w].verdict = "PENDING" =>
                OneMoreAllowed(Cur(w).id)

LeaseInv == LeasesApart /\ OneWorking /\ GroupIsFirst /\ ShownByFaults /\ RetriesKnown

Inv ==
    /\ TypeOK /\ GroupsInOrder /\ StoredInOrder
    /\ LeaseOutlivesWork => LeaseInv
-----------------------------------------------------------------------------
(* Types *)

Points == {"idle", "check", "send", "fallback", "mark", "release"}
RowStates == [st : Statuses, retry : Nat, locked : BOOLEAN]
Items == [id : Ids, retry : Nat]
WorkerStates == [pc : Points, group : Seq(Items), verdict : {"none"} \cup Statuses]

Typed ==
    /\ setup \in Setups /\ stored \in Nat
    /\ row \in [Ids -> RowStates]
    /\ worker \in [Workers -> WorkerStates]
    /\ human \in {"no", "marked", "cancelled"}
    /\ shown \in [Ids -> Nat]
    /\ faults \in 0 .. MaxFaults
    /\ putOff \in [Ids -> Nat]

\* The type invariant, with its record types named.
LEMMA TypedIsTypeOK == TypeOK <=> Typed
BY DEF TypeOK, Typed, RowStates, WorkerStates, Items, Points

\* What it is to be a sequence.
LEMMA SeqTyped ==
    ASSUME NEW S, NEW s \in Seq(S)
    PROVE  /\ DOMAIN s = 1 .. Len(s) /\ Len(s) \in Nat
           /\ \A i \in 1 .. Len(s) : s[i] \in S
OBVIOUS

\* A setup is a sequence of blocks with its settings.
LEMMA SetupTyped ==
    ASSUME Typed
    PROVE  /\ Blocks \in Seq([turn : Nat, kind : Kinds, rank : Nat])
           /\ Ids = 1 .. Len(Blocks) /\ Len(Blocks) \in Nat
           /\ \A r \in Ids : r \in Nat /\ Blocks[r].turn \in Nat /\ Blocks[r].rank \in Nat
           /\ \A q, r \in Ids : q <= r => Blocks[q].turn <= Blocks[r].turn
           /\ MaxGroup \in Nat \ {0} /\ MaxFaults \in Nat
           /\ MaxRetries \in Nat
<1>1. setup \in Setups
  BY DEF Typed
<1>2. /\ setup.blocks \in Seq([turn : Nat, kind : Kinds, rank : Nat])
      /\ \A q, r \in DOMAIN setup.blocks : q <= r => setup.blocks[q].turn <= setup.blocks[r].turn
      /\ setup.maxGroup \in Nat \ {0} /\ setup.maxFaults \in Nat /\ MaxRetries \in Nat
  BY <1>1, ConstantsAssumption
<1>. DEFINE B == setup.blocks
<1>3. DOMAIN B = 1 .. Len(B) /\ Len(B) \in Nat
  BY <1>2, SeqTyped
<1>4. \A r \in 1 .. Len(B) : B[r] \in [turn : Nat, kind : Kinds, rank : Nat]
  BY <1>2, SeqTyped
<1>5. \A r \in 1 .. Len(B) : B[r].turn \in Nat /\ B[r].rank \in Nat /\ r \in Nat
  BY <1>4
<1>. QED  BY <1>2, <1>3, <1>4, <1>5 DEF Blocks, Ids, MaxGroup, MaxFaults

\* The setup never changes.
LEMMA SetupStays ==
    ASSUME setup' = setup
    PROVE  /\ Blocks' = Blocks /\ Ids' = Ids /\ Items' = Items
           /\ MaxFaults' = MaxFaults /\ MaxGroup' = MaxGroup
           /\ LeaseOutlivesWork' = LeaseOutlivesWork
BY DEF Blocks, Ids, Items, MaxFaults, MaxGroup, LeaseOutlivesWork

\* The order of the lease is strict.
LEMMA SendsBeforeOrder ==
    ASSUME Typed, NEW q \in Ids, NEW r \in Ids
    PROVE  /\ SendsBefore(q, r) => q # r /\ ~SendsBefore(r, q)
           /\ q < r /\ Blocks[q].rank <= Blocks[r].rank => SendsBefore(q, r)
<1>1. q \in Nat /\ r \in Nat /\ Blocks[q].rank \in Nat /\ Blocks[r].rank \in Nat
  BY SetupTyped
<1>. QED  BY <1>1 DEF SendsBefore

\* A worker with a group and its first row.
LEMMA GroupTyped ==
    ASSUME Typed, GroupsInOrder, NEW w \in Workers
    PROVE  /\ worker[w].group \in Seq(Items) /\ worker[w].pc \in Points
           /\ DOMAIN worker[w].group = 1 .. Len(worker[w].group) /\ Len(worker[w].group) \in Nat
           /\ \A i \in DOMAIN worker[w].group :
                 worker[w].group[i].id \in Ids /\ worker[w].group[i].retry \in Nat
           /\ Held(w) \subseteq Ids
           /\ worker[w].pc # "idle" => /\ worker[w].group # <<>> /\ 1 \in DOMAIN worker[w].group
                                       /\ Cur(w).id \in Held(w) /\ Cur(w).id \in Ids
                                       /\ Cur(w).retry \in Nat
           /\ worker[w].pc = "idle" => Held(w) = {}
<1>1. worker[w].group \in Seq(Items) /\ worker[w].pc \in Points
  BY DEF Typed, WorkerStates
<1>2. \A i \in DOMAIN worker[w].group :
          worker[w].group[i].id \in Ids /\ worker[w].group[i].retry \in Nat
  <2>1. \A i \in DOMAIN worker[w].group : worker[w].group[i] \in Items
    BY <1>1
  <2>. QED  BY <2>1 DEF Items
<1>3. Held(w) \subseteq Ids
  BY <1>2 DEF Held
<1>4. ASSUME worker[w].pc # "idle" PROVE worker[w].group # <<>> /\ 1 \in DOMAIN worker[w].group
  BY <1>1, <1>4 DEF GroupsInOrder
<1>5. ASSUME worker[w].pc = "idle" PROVE Held(w) = {}
  <2>1. worker[w].group = <<>>
    BY <1>5 DEF GroupsInOrder
  <2>. QED  BY <2>1 DEF Held
<1>6. DOMAIN worker[w].group = 1 .. Len(worker[w].group) /\ Len(worker[w].group) \in Nat
  BY <1>1
<1>7. ASSUME worker[w].pc # "idle"
      PROVE  Cur(w).id \in Held(w) /\ Cur(w).id \in Ids /\ Cur(w).retry \in Nat
  BY <1>2, <1>4, <1>7 DEF Held, Cur
<1>. QED  BY <1>1, <1>2, <1>3, <1>4, <1>5, <1>6, <1>7

-----------------------------------------------------------------------------
(* What a step does to a worker *)

\* Another point and another verdict, with the same group.
LEMMA GotoMoves ==
    ASSUME Typed, NEW w \in Workers, NEW pc \in Points, NEW verdict \in {"none"} \cup Statuses,
           Goto(w, pc, verdict)
    PROVE  /\ worker' \in [Workers -> [pc : Points, group : Seq(Items),
                                       verdict : {"none"} \cup Statuses]]
           /\ worker'[w].pc = pc /\ worker'[w].verdict = verdict
           /\ worker'[w].group = worker[w].group
           /\ \A v \in Workers : v # w => worker'[v] = worker[v]
           /\ \A v \in Workers : Held(v)' = Held(v) /\ Cur(v)' = Cur(v)
<1>1. worker' = [worker EXCEPT ![w].pc = pc, ![w].verdict = verdict]
  BY DEF Goto
<1>2. worker[w] \in WorkerStates
  BY DEF Typed
<1>3. worker'[w] = [worker[w] EXCEPT !.pc = pc, !.verdict = verdict]
      /\ \A v \in Workers : v # w => worker'[v] = worker[v]
  BY <1>1 DEF Typed
<1>4. /\ worker'[w].pc = pc /\ worker'[w].verdict = verdict
      /\ worker'[w].group = worker[w].group
  BY <1>2, <1>3 DEF WorkerStates
<1>5. \A v \in Workers : worker'[v].group = worker[v].group
  BY <1>3, <1>4
<1>6. worker' \in [Workers -> WorkerStates]
  <2>1. [worker[w] EXCEPT !.pc = pc, !.verdict = verdict] \in WorkerStates
    BY <1>2 DEF WorkerStates
  <2>. QED  BY <1>1, <1>3, <2>1 DEF Typed
<1>. QED  BY <1>3, <1>4, <1>5, <1>6 DEF Held, Cur, WorkerStates

\* A new state for one worker.
LEMMA WorkerMoves ==
    ASSUME Typed, NEW w \in Workers, NEW x \in WorkerStates, worker' = [worker EXCEPT ![w] = x]
    PROVE  /\ worker' \in [Workers -> WorkerStates] /\ worker'[w] = x
           /\ \A v \in Workers : v # w => /\ worker'[v] = worker[v] /\ Held(v)' = Held(v)
                                          /\ Cur(v)' = Cur(v)
BY DEF Typed, Held, Cur

\* A worker without work.
LEMMA NoWorkTyped == NoWork \in WorkerStates /\ NoWork.pc = "idle" /\ NoWork.group = <<>>
BY DEF NoWork, WorkerStates, Points

\* The first row of the group is done, and the next one follows.
LEMMA NextRowMoves ==
    ASSUME Typed, GroupsInOrder, NEW w \in Workers, worker[w].pc # "idle", NextRow(w)
    PROVE  /\ worker' \in [Workers -> WorkerStates]
           /\ \A v \in Workers : v # w => /\ worker'[v] = worker[v] /\ Held(v)' = Held(v)
                                          /\ Cur(v)' = Cur(v)
           /\ worker'[w].group = Tail(worker[w].group)
           /\ worker'[w].pc = IF Tail(worker[w].group) = <<>> THEN "idle" ELSE "check"
           /\ worker'[w].verdict = "none"
           /\ Held(w)' = Held(w) \ {Cur(w).id}
<1>. DEFINE rest == Tail(worker[w].group)
            x == IF rest = <<>> THEN NoWork ELSE [NoWork EXCEPT !.pc = "check", !.group = rest]
<1>1. worker[w].group \in Seq(Items) /\ worker[w].group # <<>>
  BY GroupTyped
<1>2. rest \in Seq(Items) /\ Len(rest) = Len(worker[w].group) - 1
      /\ \A i \in 1 .. Len(rest) : rest[i] = worker[w].group[i + 1]
  BY <1>1
<1>3. x \in WorkerStates /\ x.group = rest /\ x.verdict = "none"
      /\ x.pc = IF rest = <<>> THEN "idle" ELSE "check"
  BY <1>2 DEF NoWork, WorkerStates, Points
<1>4. worker' = [worker EXCEPT ![w] = x]
  BY DEF NextRow
<1>5. worker'[w] = x
  BY <1>3, <1>4, WorkerMoves
<1>6. Held(w)' = Held(w) \ {Cur(w).id}
  <2>1. Held(w)' = {rest[i].id : i \in 1 .. Len(rest)}
    <3>1. worker'[w].group = rest /\ DOMAIN rest = 1 .. Len(rest)
      BY <1>2, <1>3, <1>5, SeqTyped
    <3>. QED  BY <3>1 DEF Held
  <2>2. \A i \in 1 .. Len(worker[w].group) : i # 1 => worker[w].group[i].id # Cur(w).id
    <3>. SUFFICES ASSUME NEW i \in 1 .. Len(worker[w].group), i # 1
                  PROVE  worker[w].group[i].id # Cur(w).id
      OBVIOUS
    <3>1. SendsBefore(worker[w].group[1].id, worker[w].group[i].id)
      BY GroupTyped DEF GroupsInOrder
    <3>. QED  BY <3>1, GroupTyped, SendsBeforeOrder DEF Cur
  <2>3. \A j \in 1 .. Len(rest) : rest[j].id = worker[w].group[j + 1].id /\ j + 1 # 1
                                  /\ j + 1 \in 1 .. Len(worker[w].group)
    BY <1>1, <1>2
  <2>4. \A i \in 2 .. Len(worker[w].group) : i - 1 \in 1 .. Len(rest)
                                             /\ rest[i - 1].id = worker[w].group[i].id
    BY <1>1, <1>2
  <2>5. Held(w) = {worker[w].group[i].id : i \in 1 .. Len(worker[w].group)}
    BY <1>1 DEF Held
  <2>6. Held(w)' \subseteq Held(w) \ {Cur(w).id}
    BY <2>1, <2>2, <2>3, <2>5
  <2>7. ASSUME NEW r \in Held(w), r # Cur(w).id PROVE r \in Held(w)'
    <3>1. PICK i \in 1 .. Len(worker[w].group) : r = worker[w].group[i].id
      BY <2>5
    <3>2. i \in 2 .. Len(worker[w].group)
      BY <1>1, <2>7, <3>1 DEF Cur
    <3>. QED  BY <2>1, <2>4, <3>1, <3>2
  <2>. QED  BY <2>6, <2>7
<1>. QED  BY <1>3, <1>4, <1>5, <1>6, WorkerMoves
-----------------------------------------------------------------------------
(* What a step does to the rows *)

\* A new state for one row.
LEMMA RowMoves ==
    ASSUME Typed, NEW c \in Ids, NEW x \in RowStates, row' = [row EXCEPT ![c] = x]
    PROVE  /\ row' \in [Ids -> RowStates] /\ row'[c] = x
           /\ \A r \in Ids : r # c => row'[r] = row[r]
BY DEF Typed

\* A lease takes queued rows that nobody has, and all that go before them.
LEMMA LeaseMoves ==
    ASSUME Typed, NEW w \in Workers, LeasePendingGroup(w)
    PROVE  /\ worker' \in [Workers -> WorkerStates] /\ row' \in [Ids -> RowStates]
           /\ \A v \in Workers : v # w => /\ worker'[v] = worker[v] /\ Held(v)' = Held(v)
                                          /\ Cur(v)' = Cur(v)
           /\ worker'[w].pc = "check" /\ worker'[w].verdict = "none"
           /\ worker'[w].group # <<>>
           /\ \A i, j \in DOMAIN worker'[w].group :
                 i < j => SendsBefore(worker'[w].group[i].id, worker'[w].group[j].id)
           /\ \A i \in DOMAIN worker'[w].group :
                 worker'[w].group[i].retry = row[worker'[w].group[i].id].retry
           /\ Held(w)' \subseteq Queued
           /\ \A r \in Queued : ~row[r].locked
           /\ \A r \in Held(w)', q \in Queued :
                 q < r /\ Blocks[q].rank <= Blocks[r].rank => q \in Held(w)'
           /\ \A r \in Ids : /\ row'[r].st = row[r].st /\ row'[r].retry = row[r].retry
                             /\ row'[r].locked <=> row[r].locked \/ r \in Held(w)'
<1>1. /\ \A r \in Queued : ~row[r].locked
      /\ Queued \subseteq Ids
  BY DEF LeasePendingGroup, Leasable, Queued
<1>2. PICK newest \in Queued :
        \E ids \in FirstRows({r \in Queued : r <= newest /\ ~row[r].locked}) :
          /\ row' = [r \in Ids |-> [row[r] EXCEPT !.locked = @ \/ r \in Range(ids)]]
          /\ worker' = [worker EXCEPT ![w] =
                [NoWork EXCEPT !.pc = "check",
                               !.group = [i \in DOMAIN ids |->
                                   [id |-> ids[i], retry |-> row[ids[i]].retry]]]]
  BY DEF LeasePendingGroup
<1>. DEFINE old == {r \in Queued : r <= newest /\ ~row[r].locked}
            n == IF Cardinality(old) > MaxGroup THEN MaxGroup ELSE Cardinality(old)
<1>3. PICK ids \in FirstRows(old) :
          /\ row' = [r \in Ids |-> [row[r] EXCEPT !.locked = @ \/ r \in Range(ids)]]
          /\ worker' = [worker EXCEPT ![w] =
                [NoWork EXCEPT !.pc = "check",
                               !.group = [i \in DOMAIN ids |->
                                   [id |-> ids[i], retry |-> row[ids[i]].retry]]]]
  BY <1>2
<1>4. n \in Nat \ {0}
  <2>1. IsFiniteSet(Ids)
    BY SetupTyped, FS_Interval
  <2>2. old \subseteq Ids /\ IsFiniteSet(old)
    BY <1>1, <2>1, FS_Subset
  <2>3. newest \in old
    BY <1>1, SetupTyped
  <2>4. Cardinality(old) \in Nat /\ Cardinality(old) # 0
    BY <2>2, <2>3, FS_CardinalityType, FS_EmptySet
  <2>. HIDE DEF old
  <2>. QED  BY <2>4, SetupTyped
<1>5. /\ ids \in [1 .. n -> old]
      /\ \A i, j \in 1 .. n : i < j => SendsBefore(ids[i], ids[j])
      /\ \A q \in old \ Range(ids) : SendsBefore(ids[n], q)
  BY <1>3 DEF FirstRows
<1>. HIDE DEF n
<1>. DEFINE group == [i \in 1 .. n |-> [id |-> ids[i], retry |-> row[ids[i]].retry]]
            x == [NoWork EXCEPT !.pc = "check", !.group = group]
<1>6. DOMAIN ids = 1 .. n /\ Range(ids) = {ids[i] : i \in 1 .. n} /\ Range(ids) \subseteq old
  BY <1>5 DEF Range
<1>7. group \in Seq(Items) /\ Len(group) = n /\ DOMAIN group = 1 .. n
  <2>1. \A i \in 1 .. n : ids[i] \in Ids /\ row[ids[i]].retry \in Nat
    BY <1>1, <1>5 DEF Typed, RowStates
  <2>2. group \in [1 .. n -> Items]
    BY <2>1 DEF Items
  <2>. QED  BY <1>4, <2>2
<1>8. worker' = [worker EXCEPT ![w] = x]
  BY <1>3, <1>6
<1>9. x \in WorkerStates /\ x.pc = "check" /\ x.group = group /\ x.verdict = "none"
  BY <1>7 DEF NoWork, WorkerStates, Points
<1>. HIDE DEF x
<1>10. worker'[w] = x /\ worker' \in [Workers -> WorkerStates]
       /\ \A v \in Workers : v # w => /\ worker'[v] = worker[v] /\ Held(v)' = Held(v)
                                      /\ Cur(v)' = Cur(v)
  BY <1>8, <1>9, WorkerMoves
<1>11. Held(w)' = Range(ids)
  <2>1. Held(w)' = {group[i].id : i \in 1 .. n}
    <3>1. worker'[w].group = group
      BY <1>9, <1>10
    <3>2. DOMAIN group = 1 .. n
      BY <1>7
    <3>. HIDE DEF group
    <3>. QED  BY <3>1, <3>2 DEF Held
  <2>2. \A i \in 1 .. n : group[i].id = ids[i]
    OBVIOUS
  <2>. QED  BY <1>6, <2>1, <2>2
<1>12. \A r \in Held(w)', q \in Queued :
          q < r /\ Blocks[q].rank <= Blocks[r].rank => q \in Held(w)'
  <2>. SUFFICES ASSUME NEW r \in Range(ids), NEW q \in Queued, q < r,
                       Blocks[q].rank <= Blocks[r].rank, q \notin Range(ids)
                PROVE  FALSE
    BY <1>11
  <2>1. q \in Ids /\ r \in Ids /\ r \in old /\ newest \in Ids
    BY <1>1, <1>6
  <2>2. q \in old
    <3>1. q \in Nat /\ r \in Nat /\ newest \in Nat /\ r <= newest
      BY <2>1, SetupTyped
    <3>. QED  BY <1>1, <3>1
  <2>3. SendsBefore(q, r)
    BY <2>1, SendsBeforeOrder
  <2>4. SendsBefore(ids[n], q)
    BY <1>5, <2>2
  <2>5. PICK i \in 1 .. n : r = ids[i]
    BY <1>6
  <2>6. r = ids[n] \/ SendsBefore(r, ids[n])
    BY <1>4, <1>5, <2>5
  <2>7. n \in 1 .. n /\ ids[n] \in Ids
    BY <1>1, <1>4, <1>5
  <2>8. q \in Nat /\ r \in Nat /\ ids[n] \in Nat /\ Blocks[q].rank \in Nat
        /\ Blocks[r].rank \in Nat /\ Blocks[ids[n]].rank \in Nat
    BY <2>1, <2>7, SetupTyped
  <2>. QED  BY <2>3, <2>4, <2>6, <2>8 DEF SendsBefore
<1>13. \A r \in Ids : /\ row'[r].st = row[r].st /\ row'[r].retry = row[r].retry
                      /\ row'[r].locked <=> row[r].locked \/ r \in Range(ids)
  BY <1>3 DEF Typed, RowStates
<1>14. row' \in [Ids -> RowStates]
  BY <1>3 DEF Typed, RowStates
<1>15. /\ \A i, j \in 1 .. n : i < j => SendsBefore(group[i].id, group[j].id)
       /\ \A i \in 1 .. n : group[i].retry = row[group[i].id].retry
  BY <1>5
<1>16. group # <<>>
  BY <1>4, <1>7
<1>17. Range(ids) \subseteq Queued
  BY <1>6
<1>. HIDE DEF group, old
<1>. QED
  BY <1>1, <1>7, <1>9, <1>10, <1>11, <1>12, <1>13, <1>14, <1>15, <1>16, <1>17

\* A mark changes the first row of the group only.
LEMMA MarkMoves ==
    ASSUME Typed, GroupsInOrder, StoredInOrder, NEW w \in Workers, SenderMark(w)
    PROVE  /\ row' \in [Ids -> RowStates]
           /\ \A r \in Ids : r # Cur(w).id => row'[r] = row[r]
           /\ row'[Cur(w).id].st = worker[w].verdict
           /\ row'[Cur(w).id].locked <=> worker[w].verdict = "PENDING"
           /\ row'[Cur(w).id].retry =
                 row[Cur(w).id].retry + (IF worker[w].verdict = "PENDING" THEN 1 ELSE 0)
<1>. DEFINE c == Cur(w).id
<1>1. worker[w].pc = "mark" /\ worker[w].verdict \in {"SENT", "FAILED", "SKIPPED", "PENDING"}
  BY DEF SenderMark, GroupsInOrder
<1>2. c \in Ids /\ row[c].retry \in Nat
  BY <1>1, GroupTyped DEF Typed, RowStates
<1>3. MarkedRow(w) \in RowStates
  BY <1>1, <1>2 DEF MarkedRow, RowStates, Statuses
<1>4. row' = [row EXCEPT ![c] = MarkedRow(w)]
  BY DEF SenderMark
<1>5. row' \in [Ids -> RowStates] /\ row'[c] = MarkedRow(w)
      /\ \A r \in Ids : r # c => row'[r] = row[r]
  BY <1>2, <1>3, <1>4, RowMoves
<1>6. /\ MarkedRow(w).st = worker[w].verdict
      /\ MarkedRow(w).retry = row[c].retry + (IF worker[w].verdict = "PENDING" THEN 1 ELSE 0)
  BY DEF MarkedRow
<1>7. MarkedRow(w).locked <=> worker[w].verdict = "PENDING"
  BY Zenon DEF MarkedRow
<1>. QED  BY <1>5, <1>6, <1>7
\* A call shows the first row of the group or nothing; a lost answer is a fault.
LEMMA CallMoves ==
    ASSUME Typed, NEW w \in Workers, Cur(w).id \in Ids, NEW o, NEW visible,
           Call(w, o, visible)
    PROVE  /\ shown' \in [Ids -> Nat]
           /\ \A r \in Ids : r # Cur(w).id => shown'[r] = shown[r]
           /\ \/ shown'[Cur(w).id] = shown[Cur(w).id]
              \/ /\ shown'[Cur(w).id] = shown[Cur(w).id] + 1
                 /\ o \in {"accepted", "unconfirmed", "lost"}
           /\ IF o = "lost" THEN Fault ELSE faults' = faults
<1>1. shown' = shown \/ shown' = [shown EXCEPT ![Cur(w).id] = @ + 1]
  BY DEF Call
<1>2. shown' # shown => o \in {"accepted", "unconfirmed", "lost"}
  BY DEF Call, MayBeShown
<1>3. IF o = "lost" THEN Fault ELSE faults' = faults
  BY DEF Call
<1>4. shown \in [Ids -> Nat]
  BY DEF Typed
<1>. QED  BY <1>1, <1>2, <1>3, <1>4

\* Faults are counted up to their bound.
LEMMA FaultsTyped ==
    ASSUME Typed, faults' = faults \/ Fault
    PROVE  faults' \in 0 .. MaxFaults
BY SetupTyped DEF Typed, Fault

-----------------------------------------------------------------------------
(* Types, groups and stored rows *)

\* The types after a step, part by part.
LEMMA TypedFromParts ==
    ASSUME Typed, setup' = setup, stored' \in Nat, row' \in [Ids -> RowStates],
           worker' \in [Workers -> WorkerStates], human' \in {"no", "marked", "cancelled"},
           shown' \in [Ids -> Nat], faults' = faults \/ Fault,
           putOff' \in [Ids -> Nat]
    PROVE  Typed'
<1>1. WorkerStates' = WorkerStates /\ Ids' = Ids /\ MaxFaults' = MaxFaults
  BY SetupStays DEF WorkerStates
<1>2. faults' \in 0 .. MaxFaults
  BY FaultsTyped
<1>. QED  BY <1>1, <1>2 DEF Typed, RowStates

\* Only one worker changes: its group stays in order.
LEMMA GroupsFromOne ==
    ASSUME Typed, GroupsInOrder, setup' = setup, NEW w \in Workers,
           \A v \in Workers : v # w => worker'[v] = worker[v],
           worker'[w].pc = "idle" <=> worker'[w].group = <<>>,
           \A i, j \in DOMAIN worker'[w].group :
               i < j => SendsBefore(worker'[w].group[i].id, worker'[w].group[j].id),
           worker'[w].pc = "mark" => worker'[w].verdict \in {"SENT", "FAILED", "SKIPPED", "PENDING"},
           worker'[w].pc = "fallback" => worker'[w].verdict \in {"FAILED", "PENDING"}
    PROVE  GroupsInOrder'
BY SetupStays DEF GroupsInOrder, SendsBefore

\* The outcome of a call is classified; only an exception leads to a fallback.
LEMMA ClassifyTyped ==
    ASSUME NEW o \in Outcomes, NEW retry
    PROVE  /\ Classify(o, retry) \in {"SENT", "FAILED", "PENDING"}
           /\ o \in Raised => Classify(o, retry) \in {"FAILED", "PENDING"}
           /\ o \in {"accepted", "unconfirmed"} => Classify(o, retry) \in {"SENT", "FAILED"}
                                                   /\ o \notin Raised
           /\ Classify(o, retry) = "PENDING" =>
                 o = "lost" \/ (o = "busy" /\ ~RetryLimitReached(retry))
BY DEF Outcomes, Raised, Classify

\* A send or a fallback: the first row may be shown, and a verdict is kept.
LEMMA CallStep ==
    ASSUME Typed, GroupsInOrder, NEW w \in Workers, NEW o \in Outcomes, NEW visible \in BOOLEAN,
           SenderSend(w, o, visible) \/ SenderFallback(w, o, visible)
    PROVE  /\ UNCHANGED <<setup, stored, row, human, putOff>> /\ Call(w, o, visible)
           /\ worker[w].pc \in {"send", "fallback"} /\ Cur(w).id \in Ids
           /\ \E pc \in {"fallback", "mark"}, verdict \in {"SENT", "FAILED", "PENDING"} :
                 /\ Goto(w, pc, verdict)
                 /\ pc = "fallback" => verdict \in {"FAILED", "PENDING"}
                 /\ o \in {"accepted", "unconfirmed"} => pc = "mark" /\ verdict \in {"SENT", "FAILED"}
                 /\ verdict = "PENDING" =>
                       \/ o = "lost"
                       \/ o = "busy" /\ ~RetryLimitReached(Cur(w).retry)
                       \/ worker[w].pc = "fallback" /\ worker[w].verdict = "PENDING"
<1>1. /\ UNCHANGED <<setup, stored, row, human, putOff>> /\ Call(w, o, visible)
      /\ worker[w].pc \in {"send", "fallback"}
  BY DEF SenderSend, SenderFallback
<1>2. Cur(w).id \in Ids
  BY <1>1, GroupTyped
<1>3. CASE SenderSend(w, o, visible)
  <2>. DEFINE pc == IF o \in Raised /\ HasFallback(KindOf(w)) THEN "fallback" ELSE "mark"
  <2>1. Goto(w, pc, Classify(o, Cur(w).retry))
    BY <1>3 DEF SenderSend
  <2>2. /\ pc \in {"fallback", "mark"} /\ (pc = "fallback" => o \in Raised)
        /\ o \notin Raised => pc = "mark"
    OBVIOUS
  <2>. HIDE DEF pc
  <2>. QED  BY <1>1, <1>2, <2>1, <2>2, ClassifyTyped
<1>4. CASE SenderFallback(w, o, visible)
  <2>1. Goto(w, "mark", IF o \in Raised THEN worker[w].verdict ELSE Classify(o, Cur(w).retry))
        /\ worker[w].pc = "fallback"
    BY <1>4 DEF SenderFallback
  <2>2. worker[w].verdict \in {"FAILED", "PENDING"}
    BY <2>1 DEF GroupsInOrder
  <2>3. CASE o \in Raised
    <3>1. Goto(w, "mark", worker[w].verdict) /\ o \notin {"accepted", "unconfirmed"}
      BY <2>1, <2>3, ClassifyTyped
    <3>. QED  BY <1>1, <1>2, <2>1, <2>2, <3>1
  <2>4. CASE o \notin Raised
    BY <1>1, <1>2, <2>1, <2>4, ClassifyTyped
  <2>. QED  BY <2>3, <2>4
<1>. QED  BY <1>3, <1>4

\* A download that is put off: a retry of the first row, counted as such.
LEMMA PutOffStep ==
    ASSUME Typed, GroupsInOrder, NEW w \in Workers, SenderPutOff(w)
    PROVE  /\ UNCHANGED <<setup, stored, row, human, shown, faults>> /\ worker[w].pc = "send"
           /\ Goto(w, "mark", "PENDING") /\ Cur(w).id \in Ids
           /\ putOff' \in [Ids -> Nat]
           /\ putOff'[Cur(w).id] = putOff[Cur(w).id] + 1
           /\ \A r \in Ids : r # Cur(w).id => putOff'[r] = putOff[r]
<1>1. /\ UNCHANGED <<setup, stored, row, human, shown, faults>> /\ worker[w].pc = "send"
      /\ Goto(w, "mark", "PENDING")
      /\ putOff' = [putOff EXCEPT ![Cur(w).id] = @ + 1]
  BY DEF SenderPutOff
<1>2. Cur(w).id \in Ids
  BY <1>1, GroupTyped
<1>3. putOff \in [Ids -> Nat]
  BY DEF Typed
<1>. QED  BY <1>1, <1>2, <1>3

\* A check keeps the group, and gives it a verdict or sends it on.
LEMMA CheckStep ==
    ASSUME Typed, NEW w \in Workers, SenderCheck(w)
    PROVE  /\ UNCHANGED <<setup, stored, row, human, shown, faults, putOff>> /\ worker[w].pc = "check"
           /\ \E pc \in {"send", "mark"}, verdict \in {"none", "FAILED", "SKIPPED"} :
                 /\ Goto(w, pc, verdict)
                 /\ pc = "mark" => verdict # "none"
                 /\ pc = "send" => human = "no"
BY DEF SenderCheck

\* The release at the end: the leases of the rest, by id.
LEMMA ReleaseMoves ==
    ASSUME Typed, NEW w \in Workers, SenderRelease(w)
    PROVE  /\ row' \in [Ids -> RowStates] /\ worker[w].pc = "release"
           /\ \A r \in Ids : /\ row'[r].st = row[r].st /\ row'[r].retry = row[r].retry
                             /\ row'[r].locked <=> row[r].locked /\ r \notin Leased(w)
           /\ worker' = [worker EXCEPT ![w] = NoWork]
<1>. DEFINE rest == Rest(w)
<1>1. /\ worker[w].pc = "release" /\ worker' = [worker EXCEPT ![w] = NoWork]
      /\ row' = [r \in Ids |-> [row[r] EXCEPT !.locked = @ /\ r \notin rest]]
  BY DEF SenderRelease, Rest
<1>2. Leased(w) = rest
  BY <1>1 DEF Leased
<1>. HIDE DEF rest
<1>3. \A r \in Ids : /\ row'[r].st = row[r].st /\ row'[r].retry = row[r].retry
                     /\ row'[r].locked <=> row[r].locked /\ r \notin rest
  BY <1>1 DEF Typed, RowStates
<1>4. row' \in [Ids -> RowStates]
  BY <1>1 DEF Typed, RowStates
<1>. QED  BY <1>1, <1>2, <1>3, <1>4
\* A step that stores no row keeps the order of storage.
LEMMA StoredFromHeld ==
    ASSUME Typed, GroupsInOrder, StoredInOrder, setup' = setup, stored' = stored,
           \A r \in Ids : row'[r].st = "ABSENT" <=> row[r].st = "ABSENT",
           \A v \in Workers : Held(v)' \subseteq Held(v) \cup Queued
    PROVE  StoredInOrder'
<1>1. Ids' = Ids /\ Blocks' = Blocks
  BY SetupStays
<1>2. \A r \in Ids' : row'[r].st # "ABSENT" => Blocks'[r].turn <= stored'
  BY <1>1 DEF StoredInOrder
<1>3. \A v \in Workers : \A r \in Held(v)' : row'[r].st # "ABSENT"
  BY GroupTyped DEF StoredInOrder, Queued
<1>. QED  BY <1>2, <1>3 DEF StoredInOrder

\* What does not depend on leases: types, groups and stored rows.
Basics == Typed /\ GroupsInOrder /\ StoredInOrder

\* The steps of the gateway, of the agent and of time keep the basics.
LEMMA BasicsWorld ==
    ASSUME Basics, StoreAnswer \/ AgentTakesOver \/ AgentCancels \/ \E r \in Ids : LeaseExpires(r)
    PROVE  Basics'
<1>. USE DEF Basics
<1>1. worker' = worker /\ setup' = setup /\ shown' = shown /\ faults' = faults /\ putOff' = putOff
  BY DEF StoreAnswer, AgentTakesOver, AgentCancels, LeaseExpires
<1>2. \A v \in Workers : Held(v)' = Held(v)
  BY <1>1 DEF Held
<1>3. GroupsInOrder'
  BY <1>1, SetupStays DEF GroupsInOrder, SendsBefore
<1>4. worker' \in [Workers -> WorkerStates] /\ shown' \in [Ids -> Nat] /\ putOff' \in [Ids -> Nat]
  BY <1>1 DEF Typed
<1>5. CASE StoreAnswer
  <2>1. \A r \in Ids : [row[r] EXCEPT !.st = "PENDING"] \in RowStates /\ row[r] \in RowStates
    BY DEF Typed, RowStates, Statuses
  <2>2. row' \in [Ids -> RowStates]
    BY <1>5, <2>1 DEF StoreAnswer
  <2>3. stored \in Nat /\ stored' = stored + 1 /\ human' = human
    BY <1>5 DEF StoreAnswer, Typed
  <2>4. Typed'
    BY <1>1, <1>4, <2>2, <2>3, TypedFromParts DEF Typed
  <2>5. \A r \in Ids : \/ row'[r] = row[r]
                       \/ row'[r].st = "PENDING" /\ Blocks[r].turn = stored + 1
    BY <1>5 DEF StoreAnswer, Typed, RowStates
  <2>6. \A r \in Ids : row'[r].st # "ABSENT" => Blocks[r].turn <= stored'
    <3>. SUFFICES ASSUME NEW r \in Ids, row'[r].st # "ABSENT" PROVE Blocks[r].turn <= stored + 1
      BY <2>3
    <3>1. Blocks[r].turn \in Nat /\ stored \in Nat
      BY <2>3, SetupTyped
    <3>2. row'[r] = row[r] => Blocks[r].turn <= stored
      BY DEF StoredInOrder
    <3>3. Blocks[r].turn <= stored \/ Blocks[r].turn = stored + 1
      BY <2>5, <3>2
    <3>. QED  BY <3>1, <3>3
  <2>7. StoredInOrder'
    BY <1>1, <1>2, <2>5, <2>6, SetupStays, GroupTyped DEF StoredInOrder
  <2>. QED  BY <1>3, <2>4, <2>7
<1>6. CASE AgentTakesOver
  BY <1>1, <1>2, <1>3, <1>4, <1>6, TypedFromParts, StoredFromHeld DEF AgentTakesOver, Typed
<1>7. CASE AgentCancels
  <2>1. \A r \in Ids : [row[r] EXCEPT !.st = "SKIPPED", !.locked = FALSE] \in RowStates
                       /\ row[r] \in RowStates
    BY DEF Typed, RowStates, Statuses
  <2>2. row' \in [Ids -> RowStates]
    BY <1>7, <2>1 DEF AgentCancels
  <2>3. \A r \in Ids : row'[r].st = "ABSENT" <=> row[r].st = "ABSENT"
    BY <1>7 DEF AgentCancels, Typed, RowStates, Queued
  <2>. QED
    BY <1>1, <1>2, <1>3, <1>4, <1>7, <2>2, <2>3, TypedFromParts, StoredFromHeld
       DEF AgentCancels, Typed
<1>8. ASSUME NEW c \in Ids, LeaseExpires(c) PROVE Basics'
  <2>1. [row[c] EXCEPT !.locked = FALSE] \in RowStates
        /\ [row[c] EXCEPT !.locked = FALSE].st = row[c].st
    BY DEF Typed, RowStates
  <2>2. row' = [row EXCEPT ![c] = [row[c] EXCEPT !.locked = FALSE]]
    BY <1>8 DEF LeaseExpires
  <2>3. row' \in [Ids -> RowStates] /\ \A r \in Ids : row'[r].st = row[r].st
    BY <2>1, <2>2, RowMoves
  <2>. QED
    BY <1>1, <1>2, <1>3, <1>4, <1>8, <2>3, TypedFromParts, StoredFromHeld
       DEF LeaseExpires, Typed
<1>. QED  BY <1>5, <1>6, <1>7, <1>8

\* The steps of a worker keep the basics.
LEMMA BasicsWorker ==
    ASSUME Basics, NEW w \in Workers, SenderStep(w) \/ SenderMarkRaises(w) \/ SenderCrash(w)
    PROVE  Basics'
<1>. USE DEF Basics
<1>1. CASE LeasePendingGroup(w)
  <2>1. /\ setup' = setup /\ stored' = stored /\ human' = human /\ shown' = shown
        /\ faults' = faults /\ putOff' = putOff
    BY <1>1 DEF LeasePendingGroup
  <2>2. Typed'
    BY <1>1, <2>1, LeaseMoves, TypedFromParts DEF Typed
  <2>3. GroupsInOrder'
    BY <1>1, <2>1, LeaseMoves, GroupsFromOne
  <2>4. \A v \in Workers : Held(v)' \subseteq Held(v) \cup Queued
    BY <1>1, LeaseMoves
  <2>5. StoredInOrder'
    BY <1>1, <2>1, <2>4, LeaseMoves, StoredFromHeld
  <2>. QED  BY <2>2, <2>3, <2>5
<1>2. ASSUME UNCHANGED <<setup, stored, row, human>>, shown' \in [Ids -> Nat], putOff' \in [Ids -> Nat],
             faults' = faults \/ Fault, worker[w].pc # "idle",
             NEW pc \in Points \ {"idle"}, NEW verdict \in {"none"} \cup Statuses,
             Goto(w, pc, verdict),
             pc = "mark" => verdict \in {"SENT", "FAILED", "SKIPPED", "PENDING"},
             pc = "fallback" => verdict \in {"FAILED", "PENDING"}
      PROVE  Basics'
  <2>1. Typed'
    BY <1>2, GotoMoves, TypedFromParts DEF Typed, WorkerStates
  <2>2. worker[w].group # <<>> /\ worker'[w].group = worker[w].group
    BY <1>2, GotoMoves DEF GroupsInOrder
  <2>3. GroupsInOrder'
    <3>1. \A i, j \in DOMAIN worker'[w].group :
             i < j => SendsBefore(worker'[w].group[i].id, worker'[w].group[j].id)
      BY <2>2 DEF GroupsInOrder
    <3>2. /\ worker'[w].pc = pc /\ worker'[w].verdict = verdict /\ setup' = setup
          /\ \A v \in Workers : v # w => worker'[v] = worker[v]
      BY <1>2, GotoMoves
    <3>. QED  BY <1>2, <2>2, <3>1, <3>2, GroupsFromOne
  <2>4. StoredInOrder'
    BY <1>2, GotoMoves, StoredFromHeld
  <2>. QED  BY <2>1, <2>3, <2>4
<1>3. CASE SenderCheck(w)
  BY <1>2, <1>3, CheckStep DEF Points, Statuses, Typed
<1>10. CASE SenderPutOff(w)
  BY <1>2, <1>10, PutOffStep DEF Points, Statuses, Typed
<1>4. ASSUME NEW o \in Outcomes, NEW visible \in BOOLEAN,
             SenderSend(w, o, visible) \/ SenderFallback(w, o, visible)
      PROVE  Basics'
  <2>1. shown' \in [Ids -> Nat] /\ (faults' = faults \/ Fault) /\ putOff' \in [Ids -> Nat]
    BY <1>4, CallStep, CallMoves DEF Typed
  <2>. QED  BY <1>2, <1>4, <2>1, CallStep DEF Points, Statuses
<1>5. ASSUME worker[w].pc # "idle", worker' = [worker EXCEPT ![w] = NoWork]
      PROVE  /\ worker' \in [Workers -> WorkerStates]
             /\ setup' = setup => GroupsInOrder'
             /\ \A v \in Workers : Held(v)' \subseteq Held(v) \cup Queued
  <2>1. /\ worker' \in [Workers -> WorkerStates] /\ worker'[w] = NoWork
        /\ \A v \in Workers : v # w => worker'[v] = worker[v] /\ Held(v)' = Held(v)
    BY <1>5, NoWorkTyped, WorkerMoves
  <2>2. Held(w)' = {}
    BY <2>1, NoWorkTyped DEF Held
  <2>. QED  BY <2>1, <2>2, NoWorkTyped, GroupsFromOne
<1>6. CASE SenderRelease(w)
  <2>1. UNCHANGED <<setup, stored, human, shown, faults, putOff>>
    BY <1>6 DEF SenderRelease
  <2>. QED
    BY <1>5, <1>6, <2>1, ReleaseMoves, TypedFromParts, StoredFromHeld DEF Typed
<1>7. CASE SenderCrash(w)
  BY <1>5, <1>7, TypedFromParts, StoredFromHeld DEF SenderCrash, Typed
<1>8. CASE SenderMarkRaises(w)
  <2>1. /\ UNCHANGED <<setup, stored, human, shown, putOff>> /\ Fault /\ worker[w].pc = "mark"
        /\ row' = [row EXCEPT ![Cur(w).id] = [@ EXCEPT !.locked = FALSE]]
        /\ Goto(w, "release", "none")
    BY <1>8 DEF SenderMarkRaises
  <2>2. Cur(w).id \in Ids
    BY <2>1, GroupTyped
  <2>3. [row[Cur(w).id] EXCEPT !.locked = FALSE] \in RowStates
        /\ [row[Cur(w).id] EXCEPT !.locked = FALSE].st = row[Cur(w).id].st
    BY <2>2 DEF Typed, RowStates
  <2>4. row' \in [Ids -> RowStates] /\ \A r \in Ids : row'[r].st = row[r].st
    BY <2>1, <2>2, <2>3, RowMoves
  <2>5. /\ worker' \in [Workers -> WorkerStates] /\ worker'[w].group = worker[w].group
        /\ worker'[w].pc = "release"
        /\ \A v \in Workers : v # w => worker'[v] = worker[v]
        /\ \A v \in Workers : Held(v)' = Held(v)
    BY <2>1, GotoMoves DEF Points, WorkerStates
  <2>6. Typed'
    BY <2>1, <2>4, <2>5, TypedFromParts DEF Typed
  <2>7. GroupsInOrder'
    <3>1. worker[w].group # <<>>
          /\ \A i, j \in DOMAIN worker'[w].group :
                i < j => SendsBefore(worker'[w].group[i].id, worker'[w].group[j].id)
      BY <2>1, <2>5 DEF GroupsInOrder
    <3>. QED  BY <2>1, <2>5, <3>1, GroupsFromOne
  <2>8. StoredInOrder'
    BY <2>1, <2>4, <2>5, StoredFromHeld
  <2>. QED  BY <2>6, <2>7, <2>8
<1>9. CASE SenderMark(w)
  <2>1. UNCHANGED <<setup, stored, human, shown, faults, putOff>> /\ worker[w].pc = "mark"
    BY <1>9 DEF SenderMark
  <2>2. row' \in [Ids -> RowStates] /\ \A r \in Ids : row'[r].st = "ABSENT" <=> row[r].st = "ABSENT"
    <3>1. Cur(w).id \in Held(w) /\ worker[w].verdict # "ABSENT"
      BY <2>1, GroupTyped DEF GroupsInOrder
    <3>. QED  BY <1>9, <3>1, MarkMoves DEF StoredInOrder
  <2>3. CASE NextRow(w)
    <3>1. /\ worker' \in [Workers -> WorkerStates]
          /\ \A v \in Workers : v # w => worker'[v] = worker[v] /\ Held(v)' = Held(v)
          /\ worker'[w].group = Tail(worker[w].group) /\ worker'[w].pc \in {"idle", "check"}
          /\ worker'[w].pc = "idle" <=> worker'[w].group = <<>>
          /\ Held(w)' \subseteq Held(w)
      BY <2>1, <2>3, NextRowMoves
    <3>2. \A i, j \in DOMAIN worker'[w].group :
             i < j => SendsBefore(worker'[w].group[i].id, worker'[w].group[j].id)
      <4>. DEFINE g == worker[w].group
      <4>1. g \in Seq(Items) /\ g # <<>>
        BY <2>1, GroupTyped
      <4>2. \A i \in DOMAIN Tail(g) : /\ i \in Nat /\ i + 1 \in DOMAIN g
                                      /\ Tail(g)[i] = g[i + 1]
        BY <4>1
      <4>3. \A i, j \in DOMAIN g : i < j => SendsBefore(g[i].id, g[j].id)
        BY DEF GroupsInOrder
      <4>4. \A i, j \in DOMAIN Tail(g) : i < j => i + 1 < j + 1
        BY <4>2
      <4>. HIDE DEF g
      <4>5. \A i, j \in DOMAIN Tail(g) : i < j => SendsBefore(Tail(g)[i].id, Tail(g)[j].id)
        BY <4>2, <4>3, <4>4
      <4>. QED  BY <3>1, <4>5 DEF g
    <3>3. GroupsInOrder'
      BY <2>1, <3>1, <3>2, GroupsFromOne
    <3>. QED  BY <2>1, <2>2, <3>1, <3>3, TypedFromParts, StoredFromHeld DEF Typed
  <2>4. CASE Goto(w, "release", "none")
    <3>1. /\ worker' \in [Workers -> WorkerStates] /\ worker'[w].group = worker[w].group
          /\ worker'[w].pc = "release"
          /\ \A v \in Workers : v # w => worker'[v] = worker[v]
          /\ \A v \in Workers : Held(v)' = Held(v)
      BY <2>4, GotoMoves DEF Points, WorkerStates
    <3>2. worker[w].group # <<>>
          /\ \A i, j \in DOMAIN worker'[w].group :
                i < j => SendsBefore(worker'[w].group[i].id, worker'[w].group[j].id)
      BY <2>1, <3>1 DEF GroupsInOrder
    <3>3. GroupsInOrder'
      BY <2>1, <3>1, <3>2, GroupsFromOne
    <3>. QED  BY <2>1, <2>2, <3>1, <3>3, TypedFromParts, StoredFromHeld DEF Typed
  <2>. QED  BY <1>9, <2>3, <2>4 DEF SenderMark
<1>. QED  BY <1>1, <1>3, <1>4, <1>6, <1>7, <1>8, <1>9, <1>10 DEF SenderStep

\* Every step keeps the basics.
LEMMA BasicsStep ==
    ASSUME Basics, [Next]_vars
    PROVE  Basics'
<1>1. CASE UNCHANGED vars
  <2>1. UNCHANGED <<setup, stored, row, worker, human, shown, faults, putOff>>
    BY <1>1 DEF vars
  <2>. QED
    BY <2>1, SetupStays
       DEF Basics, Typed, RowStates, WorkerStates, GroupsInOrder, StoredInOrder, SendsBefore, Held
<1>2. ASSUME NEW r \in 1 .. MaxRows, LeaseExpires(r) PROVE Basics'
  <2>1. r \in Ids
    BY <1>2 DEF LeaseExpires
  <2>. QED  BY <1>2, <2>1, BasicsWorld
<1>. QED  BY <1>1, <1>2, BasicsWorld, BasicsWorker DEF Next

-----------------------------------------------------------------------------
(* Leases: facts about one state *)

\* Every lease that a worker relies on is of a row of its group.
LEMMA LeasedHeld ==
    ASSUME Basics, NEW w \in Workers
    PROVE  /\ Leased(w) \subseteq Held(w) /\ Rest(w) \subseteq Held(w) \ {Cur(w).id}
           /\ worker[w].pc # "release" => Leased(w) = Held(w)
<1>1. DOMAIN worker[w].group = 1 .. Len(worker[w].group) /\ Len(worker[w].group) \in Nat
  BY GroupTyped DEF Basics
<1>2. Rest(w) \subseteq Held(w) \ {Cur(w).id}
  <2>. SUFFICES ASSUME NEW i \in 2 .. Len(worker[w].group)
                PROVE  /\ worker[w].group[i].id \in Held(w)
                       /\ worker[w].group[i].id # worker[w].group[1].id
    BY DEF Rest, Cur
  <2>1. i \in DOMAIN worker[w].group /\ 1 \in DOMAIN worker[w].group /\ 1 < i
    BY <1>1
  <2>2. SendsBefore(worker[w].group[1].id, worker[w].group[i].id)
    BY <2>1 DEF Basics, GroupsInOrder
  <2>. QED  BY <2>1, <2>2, GroupTyped, SendsBeforeOrder DEF Held, Basics
<1>. QED  BY <1>2 DEF Leased

\* The working worker.
LEMMA TheWorking ==
    ASSUME Basics, OneWorking, NEW w \in Working
    PROVE  /\ Working = {w} /\ w \in Workers
           /\ worker[w].pc # "idle" /\ Leased(w) = Held(w)
           /\ Cur(w).id \in Held(w) /\ Cur(w).id \in Ids /\ Held(w) \subseteq Ids
<1>1. w \in Workers /\ worker[w].pc \in WorkingPoints
  BY DEF Working
<1>2. worker[w].pc \notin {"idle", "release"}
  BY <1>1 DEF WorkingPoints
<1>. QED  BY <1>1, <1>2, GroupTyped, LeasedHeld DEF OneWorking, Basics

\* How the bounds on showings move with showings and faults.
LEMMA ShownBounds ==
    ASSUME Typed, NEW r \in Ids, shown'[r] \in Nat
    PROVE  /\ MayBeCalled(r) => Explained(r)
           /\ shown'[r] = shown[r] /\ faults' = faults =>
                 (Explained(r)' <=> Explained(r)) /\ (MayBeCalled(r)' <=> MayBeCalled(r))
           /\ shown'[r] = shown[r] /\ Fault =>
                 (Explained(r) => Explained(r)' /\ MayBeCalled(r)')
           /\ shown'[r] = shown[r] + 1 /\ faults' = faults => (MayBeCalled(r) => Explained(r)')
           /\ shown'[r] = shown[r] + 1 /\ Fault =>
                 (MayBeCalled(r) => Explained(r)' /\ MayBeCalled(r)')
<1>1. shown[r] \in Nat /\ faults \in Nat
  BY SetupTyped DEF Typed
<1>2. Fault => faults' = faults + 1
  BY DEF Fault
<1>. DEFINE s == shown[r]
            t == shown'[r]
            f == faults
            g == faults'
<1>3. /\ s <= f => s <= 1 + f
      /\ t = s /\ g = f => ((t <= 1 + g) <=> (s <= 1 + f)) /\ ((t <= g) <=> (s <= f))
      /\ t = s /\ g = f + 1 => (s <= 1 + f => t <= 1 + g /\ t <= g)
      /\ t = s + 1 /\ g = f => (s <= f => t <= 1 + g)
      /\ t = s + 1 /\ g = f + 1 => (s <= f => t <= 1 + g /\ t <= g)
  <2>1. s \in Nat /\ f \in Nat
    BY <1>1
  <2>. HIDE DEF s, t, f, g
  <2>. QED  BY <2>1
<1>4. /\ Explained(r) <=> s <= 1 + f
      /\ MayBeCalled(r) <=> s <= f
      /\ Explained(r)' <=> t <= 1 + g
      /\ MayBeCalled(r)' <=> t <= g
  BY DEF Explained, MayBeCalled
<1>. HIDE DEF s, t, f, g
<1>5. Fault => g = f + 1
  BY <1>2 DEF f, g
<1>6. QED
  BY <1>3, <1>4, <1>5 DEF s, t, f, g

\* How the bounds on retries move with retries and faults.
LEMMA RetryBounds ==
    ASSUME Typed, NEW r \in Ids
    PROVE  /\ row'[r].retry = row[r].retry /\ faults' = faults /\ putOff'[r] = putOff[r] =>
                 (WithinLimit(r)' <=> WithinLimit(r)) /\ (OneMoreAllowed(r)' <=> OneMoreAllowed(r))
           /\ row'[r].retry = row[r].retry /\ Fault /\ putOff'[r] = putOff[r] =>
                 (WithinLimit(r) => WithinLimit(r)' /\ OneMoreAllowed(r)')
           /\ row'[r].retry = row[r].retry /\ faults' = faults /\ putOff'[r] = putOff[r] + 1 =>
                 (WithinLimit(r) => WithinLimit(r)' /\ OneMoreAllowed(r)')
           /\ row'[r].retry = row[r].retry + 1 /\ faults' = faults /\ putOff'[r] = putOff[r] =>
                 (OneMoreAllowed(r) => WithinLimit(r)')
           /\ MaxRetries > 0 /\ ~RetryLimitReached(row[r].retry) => OneMoreAllowed(r)
           /\ row'[r].retry = row[r].retry /\ Fault /\ putOff'[r] = putOff[r] =>
                 (OneMoreAllowed(r) => OneMoreAllowed(r)')
<1>. DEFINE s == row[r].retry
            t == row'[r].retry
            f == faults
            g == faults'
            m == MaxRetries
            p == putOff[r]
            q == putOff'[r]
<1>1. s \in Nat /\ f \in Nat /\ m \in Nat /\ p \in Nat
  BY SetupTyped DEF Typed, RowStates
<1>2. Fault => g = f + 1
  BY DEF Fault
<1>3. /\ WithinLimit(r) <=> s < m + f + p
      /\ OneMoreAllowed(r) <=> s + 1 < m + f + p
      /\ WithinLimit(r)' <=> t < m + g + q
      /\ OneMoreAllowed(r)' <=> t + 1 < m + g + q
      /\ RetryLimitReached(row[r].retry) <=> m > 0 /\ s + 1 >= m
  BY DEF WithinLimit, OneMoreAllowed, RetryLimitReached
<1>. HIDE DEF s, t, f, g, m, p, q
<1>4. /\ t = s /\ g = f /\ q = p => /\ (t < m + g + q) <=> (s < m + f + p)
                                   /\ (t + 1 < m + g + q) <=> (s + 1 < m + f + p)
      /\ t = s /\ ((g = f + 1 /\ q = p) \/ (g = f /\ q = p + 1)) =>
            (s < m + f + p => t < m + g + q /\ t + 1 < m + g + q)
      /\ t = s + 1 /\ g = f /\ q = p => (s + 1 < m + f + p => t < m + g + q)
      /\ m > 0 /\ ~(m > 0 /\ s + 1 >= m) => s + 1 < m + f + p
      /\ t = s /\ g = f + 1 /\ q = p => (s + 1 < m + f + p => t + 1 < m + g + q)
  BY <1>1
<1>. QED  BY <1>2, <1>3, <1>4 DEF s, t, f, g, m, p, q

-----------------------------------------------------------------------------
(* Leases: the steps of the gateway, of the agent and of time *)

\* A step that leaves the workers alone, settles only rows of a cancelled queue,
\* and queues nothing that goes before a row of the group.
LEMMA LeaseFrame ==
    ASSUME Basics, LeaseInv, Typed',
           UNCHANGED <<setup, worker, shown, faults, putOff>>,
           \A r \in Ids : row'[r].retry = row[r].retry,
           \A r \in Ids : row'[r].st \in {"ABSENT", "PENDING"} => row[r].st \in {"ABSENT", "PENDING"},
           \A v \in Workers : \A r \in Held(v) :
               r \in Queued' => r \in Queued /\ row'[r].locked = row[r].locked,
           \A v \in Working : Held(v) \subseteq Queued' \/ (human' = "cancelled" /\ Queued' = {}),
           \A v \in Working : \A r \in Held(v), q \in Queued' :
               q < r /\ Blocks[q].rank <= Blocks[r].rank => q \in Queued
    PROVE  LeaseInv'
<1>1. /\ Working' = Working /\ Ids' = Ids /\ Blocks' = Blocks
      /\ \A v \in Workers : Held(v)' = Held(v) /\ Leased(v)' = Leased(v) /\ Cur(v)' = Cur(v)
      /\ \A v \in Workers : Settling(v)' <=> Settling(v)
  BY SetupStays DEF Working, Held, Leased, Rest, Cur, Settling
<1>2. Working \subseteq Workers
  BY DEF Working
<1>3. LeasesApart'
  BY <1>1, LeasedHeld DEF LeasesApart, LeaseInv
<1>4. OneWorking'
  BY <1>1, <1>2 DEF OneWorking, LeaseInv
<1>5. GroupIsFirst'
  <2>. SUFFICES ASSUME NEW v \in Working, NEW r \in Held(v), NEW q \in Queued',
                       q < r, Blocks[q].rank <= Blocks[r].rank
                PROVE  q \in Held(v)
    BY <1>1, <1>2 DEF GroupIsFirst
  <2>1. q \in Queued
    OBVIOUS
  <2>. QED  BY <2>1 DEF GroupIsFirst, LeaseInv
<1>6. ShownByFaults'
  <2>. SUFFICES ASSUME NEW r \in Ids
                PROVE  /\ Explained(r)'
                       /\ row'[r].st \in {"ABSENT", "PENDING"}
                          /\ (\A v \in Working : Settling(v) => Cur(v).id # r) => MayBeCalled(r)'
                       /\ \A v \in Working :
                             r \in Held(v) /\ ~(Settling(v) /\ Cur(v).id = r) => MayBeCalled(r)'
    BY <1>1, <1>2 DEF ShownByFaults
  <2>1. shown'[r] \in Nat
    BY DEF Basics, Typed
  <2>2. (Explained(r)' <=> Explained(r)) /\ (MayBeCalled(r)' <=> MayBeCalled(r))
    BY <2>1, ShownBounds DEF Basics
  <2>. QED  BY <2>2 DEF LeaseInv, ShownByFaults
<1>7. RetriesKnown'
  <2>1. \A r \in Ids : (WithinLimit(r)' <=> WithinLimit(r))
                       /\ (OneMoreAllowed(r)' <=> OneMoreAllowed(r))
    BY RetryBounds DEF Basics
  <2>2. \A v \in Working : /\ v \in Workers /\ Cur(v).id \in Ids
                           /\ \A i \in DOMAIN worker[v].group : worker[v].group[i].id \in Ids
    BY <1>2, TheWorking, GroupTyped DEF LeaseInv, Basics
  <2>3. \A v \in Working : OneMoreAllowed(Cur(v).id)' <=> OneMoreAllowed(Cur(v).id)
    BY <2>1, <2>2 DEF OneMoreAllowed, Cur
  <2>. QED  BY <1>1, <2>1, <2>2, <2>3 DEF LeaseInv, RetriesKnown
<1>. QED  BY <1>3, <1>4, <1>5, <1>6, <1>7 DEF LeaseInv

\* A new answer is not in any group, and belongs behind the earlier ones.
LEMMA LeaseStore ==
    ASSUME Basics, LeaseInv, Typed', StoreAnswer
    PROVE  LeaseInv'
<1>1. /\ UNCHANGED <<setup, worker, shown, faults, putOff, human>> /\ human = "no" /\ Ids' = Ids
      /\ row' = [r \in Ids |->
                  IF /\ Blocks[r].turn = stored + 1
                     /\ \A q \in 1 .. r - 1 : DedupKey(q) # DedupKey(r)
                  THEN [row[r] EXCEPT !.st = "PENDING"] ELSE row[r]]
  BY SetupStays DEF StoreAnswer
<1>2. \A r \in Ids : /\ row'[r].retry = row[r].retry
                     /\ \/ row'[r] = row[r]
                        \/ row'[r].st = "PENDING" /\ Blocks[r].turn = stored + 1
  BY <1>1 DEF Basics, Typed, RowStates
<1>3. \A r \in Ids : row[r].st # "ABSENT" => Blocks[r].turn # stored + 1
  <2>. SUFFICES ASSUME NEW r \in Ids, row[r].st # "ABSENT" PROVE Blocks[r].turn # stored + 1
    OBVIOUS
  <2>1. Blocks[r].turn <= stored /\ Blocks[r].turn \in Nat /\ stored \in Nat
    BY SetupTyped DEF Basics, Typed, StoredInOrder
  <2>. QED  BY <2>1
<1>4. \A r \in Ids : row[r].st # "ABSENT" => row'[r] = row[r]
  BY <1>2, <1>3
<1>5. Queued \subseteq Queued' /\ \A r \in Queued' : r \in Queued \/ Blocks[r].turn = stored + 1
  BY <1>1, <1>2, <1>4 DEF Queued
<1>6. \A v \in Workers : \A r \in Held(v) : row[r].st # "ABSENT" /\ r \in Ids /\ row'[r] = row[r]
  BY <1>4, GroupTyped DEF Basics, StoredInOrder
<1>7. \A v \in Workers : \A r \in Held(v) :
          r \in Queued' => r \in Queued /\ row'[r].locked = row[r].locked
  BY <1>6 DEF Queued
<1>8. \A v \in Working : Held(v) \subseteq Queued'
  BY <1>1, <1>5 DEF LeaseInv, OneWorking
<1>9. ASSUME NEW v \in Working, NEW r \in Held(v), NEW q \in Queued', q < r PROVE q \in Queued
  <2>1. q \in Ids /\ r \in Ids /\ Blocks[r].turn <= stored
    BY <1>1, <1>6 DEF Queued, Working, Basics, StoredInOrder
  <2>2. Blocks[q].turn <= Blocks[r].turn
    BY <1>9, <2>1, SetupTyped DEF Basics
  <2>3. Blocks[q].turn \in Nat /\ Blocks[r].turn \in Nat /\ stored \in Nat
    BY <2>1, SetupTyped DEF Basics, Typed
  <2>4. Blocks[q].turn # stored + 1
    BY <2>1, <2>2, <2>3
  <2>. QED  BY <1>5, <2>4
<1>10. \A r \in Ids : row'[r].st \in {"ABSENT", "PENDING"} => row[r].st \in {"ABSENT", "PENDING"}
  BY <1>4
<1>. QED  BY <1>1, <1>2, <1>7, <1>8, <1>9, <1>10, LeaseFrame

\* An agent who takes over changes no row; one who cancels empties the queue.
LEMMA LeaseAgent ==
    ASSUME Basics, LeaseInv, Typed', AgentTakesOver \/ AgentCancels
    PROVE  LeaseInv'
<1>1. UNCHANGED <<setup, worker, shown, faults, putOff>> /\ Ids' = Ids
  BY SetupStays DEF AgentTakesOver, AgentCancels
<1>2. CASE AgentTakesOver
  <2>1. row' = row /\ human = "no" /\ Queued' = Queued
    BY <1>1, <1>2 DEF AgentTakesOver, Queued
  <2>2. \A v \in Working : Held(v) \subseteq Queued'
    BY <2>1 DEF LeaseInv, OneWorking
  <2>. QED  BY <1>1, <2>1, <2>2, LeaseFrame
<1>3. CASE AgentCancels
  <2>1. human' = "cancelled" /\
        row' = [r \in Ids |-> IF r \in Queued
                   THEN [row[r] EXCEPT !.st = "SKIPPED", !.locked = FALSE] ELSE row[r]]
    BY <1>3 DEF AgentCancels
  <2>2. \A r \in Ids : /\ row'[r].retry = row[r].retry
                       /\ r \in Queued => row'[r].st = "SKIPPED"
                       /\ r \notin Queued => row'[r] = row[r]
    BY <2>1 DEF Basics, Typed, RowStates
  <2>3. Queued' = {}
    BY <1>1, <2>2 DEF Queued
  <2>4. \A r \in Ids : row'[r].st \in {"ABSENT", "PENDING"} => row[r].st \in {"ABSENT", "PENDING"}
    BY <2>2 DEF Queued
  <2>. QED  BY <1>1, <2>1, <2>2, <2>3, <2>4, LeaseFrame
<1>. QED  BY <1>2, <1>3

\* A lease that runs out is nobody's.
LEMMA LeaseTime ==
    ASSUME Basics, LeaseInv, Typed', LeaseOutlivesWork, NEW c \in Ids, LeaseExpires(c)
    PROVE  LeaseInv'
<1>1. UNCHANGED <<setup, worker, shown, faults, putOff, human>> /\ Ids' = Ids
  BY SetupStays DEF LeaseExpires
<1>2. \A w \in Workers : c \notin Held(w)
  BY DEF LeaseExpires
<1>3. row' = [row EXCEPT ![c] = [row[c] EXCEPT !.locked = FALSE]]
  BY DEF LeaseExpires
<1>4. \A r \in Ids : /\ row'[r].retry = row[r].retry /\ row'[r].st = row[r].st
                     /\ r # c => row'[r] = row[r]
  BY <1>3 DEF Basics, Typed, RowStates
<1>5. Queued' = Queued
  BY <1>1, <1>4 DEF Queued
<1>6. \A v \in Workers : \A r \in Held(v) : row'[r].locked = row[r].locked
  BY <1>2, <1>4, GroupTyped DEF Basics
<1>7. \A v \in Working : Held(v) \subseteq Queued' \/ (human' = "cancelled" /\ Queued' = {})
  BY <1>1, <1>5 DEF LeaseInv, OneWorking
<1>. QED  BY <1>1, <1>4, <1>5, <1>6, <1>7, LeaseFrame

-----------------------------------------------------------------------------
(* Leases: the steps of a worker *)

\* A lease is given only when nobody is working, and takes rows nobody relies on.
LEMMA LeaseLease ==
    ASSUME Basics, LeaseInv, Basics', NEW w \in Workers, LeasePendingGroup(w)
    PROVE  LeaseInv'
<1>1. /\ UNCHANGED <<setup, stored, human, shown, faults, putOff>> /\ Ids' = Ids /\ Blocks' = Blocks
      /\ worker[w].pc = "idle"
  BY SetupStays DEF LeasePendingGroup
<1>2. /\ \A v \in Workers : v # w => /\ worker'[v] = worker[v] /\ Held(v)' = Held(v)
                                     /\ Cur(v)' = Cur(v)
      /\ worker'[w].pc = "check" /\ worker'[w].group # <<>>
      /\ \A i \in DOMAIN worker'[w].group :
            worker'[w].group[i].retry = row[worker'[w].group[i].id].retry
      /\ Held(w)' \subseteq Queued
      /\ \A r \in Queued : ~row[r].locked
      /\ \A r \in Held(w)', q \in Queued :
            q < r /\ Blocks[q].rank <= Blocks[r].rank => q \in Held(w)'
      /\ \A r \in Ids : /\ row'[r].st = row[r].st /\ row'[r].retry = row[r].retry
                        /\ row'[r].locked <=> row[r].locked \/ r \in Held(w)'
  BY LeaseMoves DEF Basics
<1>3. Queued' = Queued /\ Queued \subseteq Ids
  BY <1>1, <1>2 DEF Queued
<1>4. \E r : r \in Held(w)'
  <2>1. worker'[w].group \in Seq(Items)
    BY <1>1, SetupStays DEF Basics, Typed, WorkerStates
  <2>2. 1 \in DOMAIN worker'[w].group
    BY <1>2, <2>1
  <2>. QED  BY <2>2 DEF Held
<1>5. \A v \in Workers : \A r \in Leased(v) : r \notin Queued
  BY <1>2 DEF LeaseInv, LeasesApart
<1>6. Working = {}
  <2>. SUFFICES ASSUME NEW v \in Working PROVE FALSE
    OBVIOUS
  <2>1. v \in Workers /\ Leased(v) = Held(v) /\ Cur(v).id \in Held(v)
    BY TheWorking DEF LeaseInv
  <2>2. Cur(v).id \notin Queued
    BY <1>5, <2>1
  <2>3. Queued = {}
    BY <2>1, <2>2 DEF LeaseInv, OneWorking
  <2>. QED  BY <1>2, <1>4, <2>3
<1>7. Working' = {w}
  BY <1>2, <1>6 DEF Working, WorkingPoints
<1>8. Leased(w)' = Held(w)' /\ \A v \in Workers : v # w => Leased(v)' = Leased(v)
  <2>1. Leased(w)' = Held(w)'
    BY <1>2 DEF Leased
  <2>2. ASSUME NEW v \in Workers, v # w PROVE Leased(v)' = Leased(v)
    <3>1. worker'[v] = worker[v]
      BY <1>2, <2>2
    <3>. QED  BY <3>1 DEF Leased, Rest, Held
  <2>. QED  BY <2>1, <2>2
<1>9. LeasesApart'
  <2>1. \A v \in Workers : v # w => Leased(v) \cap Held(w)' = {}
    BY <1>2, <1>5
  <2>2. ASSUME NEW v \in Workers, NEW r \in Leased(v)', r \in Queued' PROVE row'[r].locked
    <3>1. v = w
      BY <1>3, <1>5, <1>8, <2>2
    <3>. QED  BY <1>2, <1>3, <1>8, <2>2, <3>1
  <2>3. ASSUME NEW u \in Workers, NEW v \in Workers, u # v PROVE Leased(u)' \cap Leased(v)' = {}
    <3>1. Leased(u) \cap Leased(v) = {}
      BY <2>3 DEF LeaseInv, LeasesApart
    <3>. QED  BY <1>8, <2>1, <2>3, <3>1
  <2>. QED  BY <2>2, <2>3 DEF LeasesApart
<1>10. OneWorking'
  BY <1>2, <1>3, <1>7 DEF OneWorking
<1>11. GroupIsFirst'
  BY <1>1, <1>2, <1>3, <1>7 DEF GroupIsFirst
<1>12. ShownByFaults'
  <2>. SUFFICES ASSUME NEW r \in Ids
                PROVE  /\ Explained(r)'
                       /\ row'[r].st \in {"ABSENT", "PENDING"} => MayBeCalled(r)'
                       /\ r \in Held(w)' => MayBeCalled(r)'
    BY <1>1, <1>7 DEF ShownByFaults
  <2>1. (Explained(r)' <=> Explained(r)) /\ (MayBeCalled(r)' <=> MayBeCalled(r))
    BY <1>1, ShownBounds DEF Basics, Typed
  <2>2. Explained(r) /\ (row[r].st \in {"ABSENT", "PENDING"} => MayBeCalled(r))
    BY <1>6 DEF LeaseInv, ShownByFaults
  <2>3. r \in Held(w)' => row[r].st = "PENDING"
    BY <1>2 DEF Queued
  <2>. QED  BY <1>2, <2>1, <2>2, <2>3
<1>13. RetriesKnown'
  <2>1. \A i \in DOMAIN worker'[w].group : worker'[w].group[i].id \in Ids
    <3>1. \A i \in DOMAIN worker'[w].group : worker'[w].group[i].id \in Held(w)'
      BY DEF Held
    <3>. QED  BY <1>2, <1>3, <3>1
  <2>2. \A i \in DOMAIN worker'[w].group :
            worker'[w].group[i].retry = row'[worker'[w].group[i].id].retry
    BY <1>2, <2>1
  <2>3. \A r \in Ids : WithinLimit(r)' <=> WithinLimit(r)
    BY <1>1, <1>2, RetryBounds DEF Basics
  <2>. QED  BY <1>1, <1>2, <1>7, <2>2, <2>3 DEF LeaseInv, RetriesKnown
<1>. QED  BY <1>9, <1>10, <1>11, <1>12, <1>13 DEF LeaseInv

\* A worker that goes on with the same group disturbs no lease.
LEMMA LeaseGoto ==
    ASSUME Basics, LeaseInv, NEW w \in Working, NEW pc \in WorkingPoints,
           NEW verdict \in {"none"} \cup Statuses, Goto(w, pc, verdict),
           UNCHANGED <<setup, row, human>>
    PROVE  /\ LeasesApart' /\ OneWorking' /\ GroupIsFirst'
           /\ Working' = {w} /\ Working = {w} /\ Held(w)' = Held(w) /\ Cur(w)' = Cur(w)
           /\ worker'[w].pc = pc /\ worker'[w].verdict = verdict
           /\ worker'[w].group = worker[w].group
<1>1. /\ w \in Workers /\ Working = {w} /\ worker[w].pc \in WorkingPoints
      /\ pc \in Points
  BY TheWorking DEF LeaseInv, Working, WorkingPoints, Points
<1>2. /\ worker'[w].pc = pc /\ worker'[w].verdict = verdict
      /\ worker'[w].group = worker[w].group
      /\ \A v \in Workers : v # w => worker'[v] = worker[v]
      /\ \A v \in Workers : Held(v)' = Held(v) /\ Cur(v)' = Cur(v)
  BY <1>1, GotoMoves DEF Basics
<1>3. Working' = {w}
  BY <1>1, <1>2 DEF Working
<1>4. /\ Queued' = Queued /\ Ids' = Ids /\ Blocks' = Blocks
      /\ \A v \in Workers : Leased(v)' = Leased(v)
  <2>1. Leased(w)' = Leased(w)
    BY <1>1, <1>2 DEF Leased, WorkingPoints
  <2>2. \A v \in Workers : v # w => Leased(v)' = Leased(v)
    BY <1>2 DEF Leased, Rest
  <2>. QED  BY <2>1, <2>2, SetupStays DEF Queued
<1>5. LeasesApart'
  BY <1>4 DEF LeaseInv, LeasesApart
<1>6. OneWorking'
  BY <1>1, <1>2, <1>3, <1>4 DEF LeaseInv, OneWorking
<1>7. GroupIsFirst'
  BY <1>1, <1>2, <1>3, <1>4 DEF LeaseInv, GroupIsFirst
<1>. QED  BY <1>1, <1>2, <1>3, <1>5, <1>6, <1>7

\* A check gives no retry, and settles at most the first row of the group.
LEMMA LeaseCheck ==
    ASSUME Basics, LeaseInv, Typed', NEW w \in Workers, SenderCheck(w)
    PROVE  LeaseInv'
<1>1. UNCHANGED <<setup, stored, row, human, shown, faults, putOff>> /\ worker[w].pc = "check"
  BY CheckStep DEF Basics
<1>2. PICK pc \in {"send", "mark"}, verdict \in {"none", "FAILED", "SKIPPED"} :
          Goto(w, pc, verdict)
  BY CheckStep DEF Basics
<1>3. w \in Working /\ pc \in WorkingPoints /\ verdict \in {"none"} \cup Statuses
      /\ Ids' = Ids
  BY <1>1, SetupStays DEF Working, WorkingPoints, Statuses
<1>4. /\ LeasesApart' /\ OneWorking' /\ GroupIsFirst'
      /\ Working' = {w} /\ Working = {w} /\ Held(w)' = Held(w) /\ Cur(w)' = Cur(w)
      /\ worker'[w].pc = pc /\ worker'[w].verdict = verdict
      /\ worker'[w].group = worker[w].group
  BY <1>1, <1>2, <1>3, LeaseGoto
<1>5. ShownByFaults'
  <2>. SUFFICES ASSUME NEW r \in Ids
                PROVE  /\ Explained(r)'
                       /\ row[r].st \in {"ABSENT", "PENDING"} => MayBeCalled(r)'
                       /\ r \in Held(w) => MayBeCalled(r)'
    BY <1>1, <1>3, <1>4 DEF ShownByFaults
  <2>1. (Explained(r)' <=> Explained(r)) /\ (MayBeCalled(r)' <=> MayBeCalled(r))
    BY <1>1, ShownBounds DEF Basics, Typed
  <2>2. ~Settling(w)
    BY <1>1 DEF Settling
  <2>. QED  BY <1>4, <2>1, <2>2 DEF LeaseInv, ShownByFaults
<1>6. RetriesKnown'
  <2>1. \A r \in Ids : WithinLimit(r)' <=> WithinLimit(r)
    BY <1>1, RetryBounds DEF Basics
  <2>2. \A i \in DOMAIN worker'[w].group :
            worker'[w].group[i].retry = row'[worker'[w].group[i].id].retry
    BY <1>1, <1>4 DEF LeaseInv, RetriesKnown
  <2>3. worker'[w].verdict # "PENDING"
    BY <1>4
  <2>. QED  BY <1>3, <1>4, <2>1, <2>2, <2>3 DEF LeaseInv, RetriesKnown
<1>. QED  BY <1>4, <1>5, <1>6 DEF LeaseInv

\* A call shows a row that could be called again; a retry it announces is one of
\* the limit, or of a lost answer.
LEMMA LeaseCall ==
    ASSUME Basics, LeaseInv, Typed', NEW w \in Workers, NEW o \in Outcomes, NEW visible \in BOOLEAN,
           SenderSend(w, o, visible) \/ SenderFallback(w, o, visible)
    PROVE  LeaseInv'
<1>. DEFINE c == Cur(w).id
<1>1. /\ UNCHANGED <<setup, stored, row, human, putOff>> /\ Call(w, o, visible)
      /\ worker[w].pc \in {"send", "fallback"} /\ c \in Ids
  BY CallStep DEF Basics
<1>2. PICK pc \in {"fallback", "mark"}, verdict \in {"SENT", "FAILED", "PENDING"} :
          /\ Goto(w, pc, verdict)
          /\ o \in {"accepted", "unconfirmed"} => pc = "mark" /\ verdict \in {"SENT", "FAILED"}
          /\ verdict = "PENDING" =>
                \/ o = "lost"
                \/ o = "busy" /\ ~RetryLimitReached(Cur(w).retry)
                \/ worker[w].pc = "fallback" /\ worker[w].verdict = "PENDING"
  BY CallStep DEF Basics
<1>3. w \in Working /\ pc \in WorkingPoints /\ verdict \in {"none"} \cup Statuses
      /\ Ids' = Ids
  BY <1>1, SetupStays DEF Working, WorkingPoints, Statuses
<1>4. /\ LeasesApart' /\ OneWorking' /\ GroupIsFirst'
      /\ Working' = {w} /\ Working = {w} /\ Held(w)' = Held(w) /\ Cur(w)' = Cur(w)
      /\ worker'[w].pc = pc /\ worker'[w].verdict = verdict
      /\ worker'[w].group = worker[w].group
  BY <1>1, <1>2, <1>3, LeaseGoto
<1>5. /\ \A r \in Ids : r # c => shown'[r] = shown[r]
      /\ \/ shown'[c] = shown[c]
         \/ shown'[c] = shown[c] + 1 /\ o \in {"accepted", "unconfirmed", "lost"}
      /\ IF o = "lost" THEN Fault ELSE faults' = faults
  BY <1>1, CallMoves DEF Basics
<1>6. ~Settling(w) /\ c \in Held(w)
  BY <1>1, <1>3, TheWorking DEF Settling, LeaseInv
<1>7. \A r \in Ids : /\ Explained(r)
                     /\ row[r].st \in {"ABSENT", "PENDING"} \/ r \in Held(w) => MayBeCalled(r)
  BY <1>4, <1>6 DEF LeaseInv, ShownByFaults
<1>8. \A r \in Ids : shown'[r] \in Nat
  BY <1>3 DEF Typed
<1>9. MayBeCalled(c) /\ Explained(c)
  BY <1>1, <1>6, <1>7
<1>10. ShownByFaults'
  <2>. SUFFICES ASSUME NEW r \in Ids
                PROVE  /\ Explained(r)'
                       /\ row[r].st \in {"ABSENT", "PENDING"} /\ ~(Settling(w)' /\ c = r) => MayBeCalled(r)'
                       /\ r \in Held(w) /\ ~(Settling(w)' /\ c = r) => MayBeCalled(r)'
    BY <1>1, <1>3, <1>4 DEF ShownByFaults
  <2>1. CASE shown'[r] = shown[r]
    BY <1>5, <1>7, <1>8, <2>1, ShownBounds DEF Basics
  <2>2. CASE shown'[r] # shown[r]
    <3>1. r = c /\ shown'[c] = shown[c] + 1 /\ o \in {"accepted", "unconfirmed", "lost"}
      BY <1>5, <2>2
    <3>2. CASE o = "lost"
      BY <1>5, <1>8, <1>9, <3>1, <3>2, ShownBounds DEF Basics
    <3>3. CASE o \in {"accepted", "unconfirmed"}
      <4>1. Settling(w)'
        BY <1>2, <1>4, <3>3 DEF Settling
      <4>2. Explained(r)'
        BY <1>5, <1>8, <1>9, <3>1, <3>3, ShownBounds DEF Basics
      <4>. QED  BY <3>1, <4>1, <4>2
    <3>. QED  BY <3>1, <3>2, <3>3
  <2>. QED  BY <2>1, <2>2
<1>11. RetriesKnown'
  <2>1. \A i \in DOMAIN worker'[w].group :
            worker'[w].group[i].retry = row'[worker'[w].group[i].id].retry
    BY <1>1, <1>4 DEF LeaseInv, RetriesKnown
  <2>2. ASSUME MaxRetries > 0, NEW r \in Ids PROVE WithinLimit(r)'
    <3>1. WithinLimit(r)
      BY <2>2 DEF LeaseInv, RetriesKnown
    <3>. QED  BY <1>1, <1>5, <3>1, RetryBounds DEF Basics
  <2>3. ASSUME MaxRetries > 0, verdict = "PENDING", NEW r \in Ids, r = c PROVE OneMoreAllowed(r)'
    <3>1. CASE o = "lost"
      <4>1. WithinLimit(r)
        BY <1>1, <2>3 DEF LeaseInv, RetriesKnown
      <4>. QED  BY <1>1, <1>5, <3>1, <4>1, RetryBounds DEF Basics
    <3>2. CASE o # "lost" /\ ~RetryLimitReached(Cur(w).retry)
      <4>1. Cur(w).retry = row[r].retry
        <5>1. 1 \in DOMAIN worker[w].group
          BY <1>1, GroupTyped DEF Basics
        <5>. QED  BY <1>3, <2>3, <5>1 DEF LeaseInv, RetriesKnown, Cur
      <4>2. OneMoreAllowed(r)
        BY <1>1, <2>3, <3>2, <4>1, RetryBounds DEF Basics
      <4>. QED  BY <1>1, <1>5, <3>2, <4>2, RetryBounds DEF Basics
    <3>3. CASE worker[w].pc = "fallback" /\ worker[w].verdict = "PENDING"
      <4>1. OneMoreAllowed(r)
        BY <1>3, <2>3, <3>3 DEF LeaseInv, RetriesKnown
      <4>. QED  BY <1>1, <1>5, <4>1, RetryBounds DEF Basics
    <3>. QED  BY <1>2, <2>3, <3>1, <3>2, <3>3
  <2>4. MaxRetries > 0 /\ verdict = "PENDING" => OneMoreAllowed(Cur(w).id)'
    BY <1>1, <1>4, <2>3 DEF OneMoreAllowed
  <2>. QED  BY <1>3, <1>4, <2>1, <2>2, <2>4 DEF RetriesKnown
<1>. QED  BY <1>4, <1>10, <1>11 DEF LeaseInv

\* A download that is put off shows nothing, and its retry is its own.
LEMMA LeasePutOff ==
    ASSUME Basics, LeaseInv, Typed', NEW w \in Workers, SenderPutOff(w)
    PROVE  LeaseInv'
<1>. DEFINE c == Cur(w).id
<1>1. /\ UNCHANGED <<setup, stored, row, human, shown, faults>> /\ worker[w].pc = "send"
      /\ Goto(w, "mark", "PENDING") /\ c \in Ids
      /\ putOff'[c] = putOff[c] + 1
      /\ \A r \in Ids : r # c => putOff'[r] = putOff[r]
  BY PutOffStep DEF Basics
<1>2. w \in Working /\ "mark" \in WorkingPoints /\ "PENDING" \in {"none"} \cup Statuses
      /\ Ids' = Ids
  BY <1>1, SetupStays DEF Working, WorkingPoints, Statuses
<1>3. /\ LeasesApart' /\ OneWorking' /\ GroupIsFirst'
      /\ Working' = {w} /\ Working = {w} /\ Held(w)' = Held(w) /\ Cur(w)' = Cur(w)
      /\ worker'[w].pc = "mark" /\ worker'[w].verdict = "PENDING"
      /\ worker'[w].group = worker[w].group
  BY <1>1, <1>2, LeaseGoto
<1>4. ShownByFaults'
  <2>. SUFFICES ASSUME NEW r \in Ids
                PROVE  /\ Explained(r)'
                       /\ row[r].st \in {"ABSENT", "PENDING"} => MayBeCalled(r)'
                       /\ r \in Held(w) => MayBeCalled(r)'
    BY <1>1, <1>2, <1>3 DEF ShownByFaults
  <2>1. (Explained(r)' <=> Explained(r)) /\ (MayBeCalled(r)' <=> MayBeCalled(r))
    BY <1>1, ShownBounds DEF Basics, Typed
  <2>2. ~Settling(w)
    BY <1>1 DEF Settling
  <2>. QED  BY <1>3, <2>1, <2>2 DEF LeaseInv, ShownByFaults
<1>5. RetriesKnown'
  <2>1. ASSUME MaxRetries > 0, NEW r \in Ids
        PROVE  WithinLimit(r)' /\ (r = c => OneMoreAllowed(r)')
    <3>1. WithinLimit(r)
      BY <2>1 DEF LeaseInv, RetriesKnown
    <3>2. CASE r = c
      BY <1>1, <3>1, <3>2, RetryBounds DEF Basics
    <3>3. CASE r # c
      BY <1>1, <3>1, <3>3, RetryBounds DEF Basics
    <3>. QED  BY <3>2, <3>3
  <2>2. \A i \in DOMAIN worker'[w].group :
            worker'[w].group[i].retry = row'[worker'[w].group[i].id].retry
    BY <1>1, <1>3 DEF LeaseInv, RetriesKnown
  <2>3. MaxRetries > 0 => OneMoreAllowed(Cur(w).id)'
    BY <1>1, <1>3, <2>1 DEF OneMoreAllowed
  <2>. QED  BY <1>2, <1>3, <2>1, <2>2, <2>3 DEF RetriesKnown
<1>. QED  BY <1>3, <1>4, <1>5 DEF LeaseInv

\* What a worker does to its group when the first row is done with.
LEMMA FirstRowDone ==
    ASSUME Basics, NEW w \in Workers, worker[w].pc = "mark", setup' = setup,
           NextRow(w) \/ Goto(w, "release", "none")
    PROVE  /\ \A v \in Workers : v # w => /\ worker'[v] = worker[v] /\ Held(v)' = Held(v)
                                          /\ Cur(v)' = Cur(v) /\ Leased(v)' = Leased(v)
           /\ Leased(w)' \subseteq Held(w) \ {Cur(w).id}
           /\ worker'[w].verdict = "none"
           /\ NextRow(w) => /\ Held(w)' = Held(w) \ {Cur(w).id}
                            /\ worker'[w].pc \in {"idle", "check"}
                            /\ worker'[w].group = Tail(worker[w].group)
           /\ Goto(w, "release", "none") => worker'[w].pc = "release"
<1>1. worker[w].pc # "idle"
  OBVIOUS
<1>2. CASE NextRow(w)
  <2>1. /\ \A v \in Workers : v # w => worker'[v] = worker[v] /\ Held(v)' = Held(v) /\ Cur(v)' = Cur(v)
        /\ Held(w)' = Held(w) \ {Cur(w).id} /\ worker'[w].verdict = "none"
        /\ worker'[w].pc \in {"idle", "check"} /\ worker'[w].group = Tail(worker[w].group)
    BY <1>1, <1>2, NextRowMoves DEF Basics
  <2>2. Leased(w)' = Held(w)'
    BY <2>1 DEF Leased
  <2>3. ASSUME NEW v \in Workers, v # w PROVE Leased(v)' = Leased(v)
    <3>1. worker'[v] = worker[v]
      BY <2>1, <2>3
    <3>. QED  BY <3>1 DEF Leased, Rest, Held
  <2>4. worker'[w].pc # "release"
    BY <2>1
  <2>5. Goto(w, "release", "none") => worker'[w].pc = "release"
    BY GotoMoves DEF Basics, Points
  <2>. QED  BY <2>1, <2>2, <2>3, <2>4, <2>5
<1>3. CASE Goto(w, "release", "none") /\ ~NextRow(w)
  <2>1. /\ \A v \in Workers : v # w => worker'[v] = worker[v]
        /\ \A v \in Workers : Held(v)' = Held(v) /\ Cur(v)' = Cur(v)
        /\ worker'[w].group = worker[w].group /\ worker'[w].pc = "release"
        /\ worker'[w].verdict = "none"
    BY <1>3, GotoMoves DEF Basics, Points
  <2>2. Leased(w)' = Rest(w)
    BY <2>1 DEF Leased, Rest
  <2>3. ASSUME NEW v \in Workers, v # w PROVE Leased(v)' = Leased(v)
    <3>1. worker'[v] = worker[v]
      BY <2>1, <2>3
    <3>. QED  BY <3>1 DEF Leased, Rest, Held
  <2>. QED  BY <1>3, <2>1, <2>2, <2>3, LeasedHeld
<1>. QED  BY <1>2, <1>3

\* A mark settles the first row, or keeps its lease for the back-off.
LEMMA LeaseMark ==
    ASSUME Basics, LeaseInv, Basics', NEW w \in Workers, SenderMark(w)
    PROVE  LeaseInv'
<1>. DEFINE c == Cur(w).id
            v == worker[w].verdict
<1>1. /\ UNCHANGED <<setup, stored, human, shown, faults, putOff>> /\ worker[w].pc = "mark"
      /\ v \in {"SENT", "FAILED", "SKIPPED", "PENDING"} /\ Ids' = Ids /\ Blocks' = Blocks
      /\ (v = "SENT" /\ NextRow(w)) \/ (v # "SENT" /\ Goto(w, "release", "none"))
  BY SetupStays DEF SenderMark, Basics, GroupsInOrder
<1>2. w \in Working
  BY <1>1 DEF Working, WorkingPoints
<1>3. /\ Working = {w} /\ c \in Held(w) /\ c \in Ids /\ Held(w) \subseteq Ids /\ Leased(w) = Held(w)
  BY <1>2, TheWorking DEF LeaseInv
<1>4. /\ \A r \in Ids : r # c => row'[r] = row[r]
      /\ row'[c].st = v /\ (row'[c].locked <=> v = "PENDING")
      /\ row'[c].retry = row[c].retry + (IF v = "PENDING" THEN 1 ELSE 0)
  BY MarkMoves DEF Basics
<1>5. /\ \A u \in Workers : u # w => /\ worker'[u] = worker[u] /\ Held(u)' = Held(u)
                                     /\ Cur(u)' = Cur(u) /\ Leased(u)' = Leased(u)
      /\ Leased(w)' \subseteq Held(w) \ {c}
      /\ v = "SENT" => /\ Held(w)' = Held(w) \ {c} /\ worker'[w].pc \in {"idle", "check"}
                       /\ worker'[w].group = Tail(worker[w].group)
      /\ v # "SENT" => worker'[w].pc = "release"
  BY <1>1, FirstRowDone
<1>6. /\ Working' \subseteq {w} /\ (v # "SENT" => Working' = {})
      /\ ~Settling(w)'
  <2>1. \A u \in Workers : u # w => worker'[u].pc \notin WorkingPoints
    BY <1>3, <1>5 DEF Working
  <2>2. worker'[w].pc \in {"idle", "check", "release"} /\ (v # "SENT" => worker'[w].pc = "release")
    BY <1>5
  <2>. QED  BY <2>1, <2>2 DEF Working, WorkingPoints, Settling
<1>7. /\ \A r \in Ids : r # c => (r \in Queued' <=> r \in Queued)
      /\ c \in Queued' <=> v = "PENDING"
      /\ Queued \subseteq Ids /\ Queued' \subseteq Ids
  BY <1>1, <1>3, <1>4 DEF Queued
<1>8. \A u \in Workers : c \notin Leased(u)'
  <2>1. \A u \in Workers : u # w => c \notin Leased(u)
    BY <1>3 DEF LeaseInv, LeasesApart
  <2>. QED  BY <1>5, <2>1
<1>9. \A u \in Workers : Leased(u)' \subseteq Leased(u)
  BY <1>3, <1>5
<1>10. LeasesApart'
  <2>1. ASSUME NEW u \in Workers, NEW r \in Leased(u)', r \in Queued' PROVE row'[r].locked
    <3>1. r # c /\ r \in Ids /\ r \in Leased(u)
      BY <1>7, <1>8, <1>9, <2>1
    <3>2. r \in Queued /\ row'[r] = row[r]
      BY <1>4, <1>7, <2>1, <3>1
    <3>. QED  BY <3>1, <3>2 DEF LeaseInv, LeasesApart
  <2>2. \A t, u \in Workers : t # u => Leased(t)' \cap Leased(u)' = {}
    BY <1>9 DEF LeaseInv, LeasesApart
  <2>. QED  BY <2>1, <2>2 DEF LeasesApart
<1>11. ASSUME v = "SENT" PROVE /\ Held(w)' = Held(w) \ {c} /\ Queued' = Queued \ {c}
  BY <1>3, <1>5, <1>7, <1>11
<1>12. OneWorking'
  <2>1. \A u \in Working' : Held(u)' \subseteq Queued' \/ (human' = "cancelled" /\ Queued' = {})
    <3>. SUFFICES ASSUME w \in Working', v = "SENT"
                  PROVE  Held(w)' \subseteq Queued' \/ (human' = "cancelled" /\ Queued' = {})
      BY <1>6
    <3>1. Held(w) \subseteq Queued \/ (human = "cancelled" /\ Queued = {})
      BY <1>2 DEF LeaseInv, OneWorking
    <3>. QED  BY <1>1, <1>11, <3>1
  <2>. QED  BY <1>6, <2>1 DEF OneWorking
<1>13. GroupIsFirst'
  <2>. SUFFICES ASSUME v = "SENT", NEW r \in Held(w)', NEW q \in Queued',
                       q < r, Blocks[q].rank <= Blocks[r].rank
                PROVE  q \in Held(w)'
    BY <1>1, <1>6 DEF GroupIsFirst
  <2>1. r \in Held(w) /\ q \in Queued /\ q # c
    BY <1>11
  <2>2. q \in Held(w)
    BY <1>2, <2>1 DEF LeaseInv, GroupIsFirst
  <2>. QED  BY <1>11, <2>1, <2>2
<1>14. ShownByFaults'
  <2>. SUFFICES ASSUME NEW r \in Ids
                PROVE  /\ Explained(r)'
                       /\ row'[r].st \in {"ABSENT", "PENDING"} => MayBeCalled(r)'
                       /\ w \in Working' /\ r \in Held(w)' => MayBeCalled(r)'
    BY <1>1, <1>6 DEF ShownByFaults
  <2>1. (Explained(r)' <=> Explained(r)) /\ (MayBeCalled(r)' <=> MayBeCalled(r))
    BY <1>1, ShownBounds DEF Basics, Typed
  <2>2. Explained(r)
    BY DEF LeaseInv, ShownByFaults
  <2>3. row'[r].st \in {"ABSENT", "PENDING"} => MayBeCalled(r)
    <3>1. CASE r = c
      <4>1. ASSUME v = "PENDING" PROVE MayBeCalled(r)
        <5>1. ~Settling(w)
          BY <4>1 DEF Settling
        <5>. QED  BY <1>2, <1>3, <3>1, <5>1 DEF LeaseInv, ShownByFaults
      <4>. QED  BY <1>1, <1>4, <3>1, <4>1
    <3>2. CASE r # c
      <4>1. row'[r] = row[r]
        BY <1>4, <3>2
      <4>2. \A u \in Working : Settling(u) => Cur(u).id # r
        BY <1>3, <3>2
      <4>. QED  BY <4>1, <4>2 DEF LeaseInv, ShownByFaults
    <3>. QED  BY <3>1, <3>2
  <2>4. w \in Working' /\ r \in Held(w)' => MayBeCalled(r)
    <3>. SUFFICES ASSUME v = "SENT", r \in Held(w)' PROVE MayBeCalled(r)
      BY <1>6
    <3>1. r \in Held(w) /\ r # c
      BY <1>11
    <3>. QED  BY <1>2, <3>1 DEF LeaseInv, ShownByFaults
  <2>. QED  BY <2>1, <2>2, <2>3, <2>4
<1>15. RetriesKnown'
  <2>1. ASSUME v = "SENT", NEW i \in DOMAIN worker'[w].group
        PROVE  worker'[w].group[i].retry = row'[worker'[w].group[i].id].retry
    <3>. DEFINE g == worker[w].group
    <3>1. g \in Seq(Items) /\ g # <<>>
      BY <1>1, GroupTyped DEF Basics
    <3>2. worker'[w].group = Tail(g)
      BY <1>5, <2>1
    <3>3. i + 1 \in DOMAIN g /\ Tail(g)[i] = g[i + 1]
      <4>1. i \in DOMAIN Tail(g)
        BY <2>1, <3>2
      <4>. HIDE DEF g
      <4>. QED  BY <3>1, <4>1
    <3>4. g[i + 1].retry = row[g[i + 1].id].retry
      BY <1>2, <3>3 DEF LeaseInv, RetriesKnown
    <3>5. worker'[w].group[i].id \in Held(w)'
      BY <2>1 DEF Held
    <3>6. g[i + 1].id # c /\ g[i + 1].id \in Ids
      <4>1. worker'[w].group[i].id = g[i + 1].id
        BY <3>2, <3>3
      <4>. QED  BY <1>3, <1>11, <2>1, <3>5, <4>1
    <3>7. row'[g[i + 1].id] = row[g[i + 1].id]
      BY <1>4, <3>6
    <3>8. worker'[w].group[i] = g[i + 1]
      BY <3>2, <3>3
    <3>. HIDE DEF g
    <3>. QED  BY <3>4, <3>7, <3>8
  <2>2. ASSUME MaxRetries > 0, NEW r \in Ids PROVE WithinLimit(r)'
    <3>1. WithinLimit(r)
      BY <2>2 DEF LeaseInv, RetriesKnown
    <3>2. CASE r # c \/ v # "PENDING"
      <4>1. row[r].retry \in Nat
        BY DEF Basics, Typed, RowStates
      <4>2. row'[r].retry = row[r].retry
        BY <1>4, <3>2, <4>1
      <4>. QED  BY <1>1, <3>1, <4>2, RetryBounds DEF Basics
    <3>3. CASE r = c /\ v = "PENDING"
      <4>1. OneMoreAllowed(r)
        BY <1>1, <1>2, <2>2, <3>3 DEF LeaseInv, RetriesKnown
      <4>2. row'[r].retry = row[r].retry + 1
        BY <1>4, <3>3
      <4>. QED  BY <1>1, <4>1, <4>2, RetryBounds DEF Basics
    <3>. QED  BY <3>2, <3>3
  <2>3. w \in Working' => v = "SENT" /\ worker'[w].pc \notin {"fallback", "mark"}
    BY <1>5, <1>6
  <2>. QED  BY <1>1, <1>6, <2>1, <2>2, <2>3 DEF RetriesKnown
<1>. QED  BY <1>10, <1>12, <1>13, <1>14, <1>15 DEF LeaseInv

\* A worker that gives up pays with a fault: a mark that raised, or a crash.
LEMMA LeaseFault ==
    ASSUME Basics, LeaseInv, Basics', NEW w \in Workers, SenderMarkRaises(w) \/ SenderCrash(w)
    PROVE  LeaseInv'
<1>. DEFINE c == Cur(w).id
<1>1. /\ UNCHANGED <<setup, stored, human, shown, putOff>> /\ Fault
      /\ Ids' = Ids /\ Blocks' = Blocks /\ worker[w].pc # "idle"
  BY SetupStays DEF SenderMarkRaises, SenderCrash
<1>2. /\ \A u \in Workers : u # w => /\ worker'[u] = worker[u] /\ Held(u)' = Held(u)
                                     /\ Cur(u)' = Cur(u) /\ Leased(u)' = Leased(u)
      /\ worker'[w].pc \notin WorkingPoints
      /\ Leased(w)' \subseteq Leased(w)
      /\ \A u \in Workers : \A r \in Leased(u)' : row'[r].st = row[r].st /\ row'[r].locked = row[r].locked
      /\ \A r \in Ids : row'[r].st = row[r].st /\ row'[r].retry = row[r].retry
  <2>1. CASE SenderMarkRaises(w)
    <3>1. /\ worker[w].pc = "mark" /\ Goto(w, "release", "none")
          /\ row' = [row EXCEPT ![c] = [row[c] EXCEPT !.locked = FALSE]]
      BY <2>1 DEF SenderMarkRaises
    <3>2. w \in Working
      BY <3>1 DEF Working, WorkingPoints
    <3>3. c \in Held(w) /\ c \in Ids /\ Leased(w) = Held(w)
      BY <3>2, TheWorking DEF LeaseInv
    <3>4. /\ \A u \in Workers : u # w => /\ worker'[u] = worker[u] /\ Held(u)' = Held(u)
                                         /\ Cur(u)' = Cur(u) /\ Leased(u)' = Leased(u)
          /\ Leased(w)' \subseteq Held(w) \ {c}
          /\ worker'[w].pc = "release"
      BY <1>1, <3>1, FirstRowDone
    <3>5. \A r \in Ids : /\ row'[r].st = row[r].st /\ row'[r].retry = row[r].retry
                         /\ r # c => row'[r] = row[r]
      BY <3>1, <3>3 DEF Basics, Typed, RowStates
    <3>6. \A u \in Workers : \A r \in Leased(u)' : r # c /\ r \in Ids
      <4>1. \A u \in Workers : u # w => c \notin Leased(u)
        BY <3>3 DEF LeaseInv, LeasesApart
      <4>2. \A u \in Workers : Leased(u) \subseteq Ids
        BY LeasedHeld, GroupTyped DEF Basics
      <4>. QED  BY <3>3, <3>4, <4>1, <4>2
    <3>. QED  BY <3>3, <3>4, <3>5, <3>6 DEF WorkingPoints
  <2>2. CASE SenderCrash(w)
    <3>1. worker' = [worker EXCEPT ![w] = NoWork] /\ row' = row
      BY <2>2 DEF SenderCrash
    <3>2. /\ worker'[w] = NoWork
          /\ \A u \in Workers : u # w => /\ worker'[u] = worker[u] /\ Held(u)' = Held(u)
                                         /\ Cur(u)' = Cur(u)
      BY <3>1, NoWorkTyped, WorkerMoves DEF Basics
    <3>3. worker'[w].pc = "idle" /\ Held(w)' = {}
      BY <3>2, NoWorkTyped DEF Held
    <3>4. Leased(w)' = {}
      BY <3>3 DEF Leased
    <3>5. ASSUME NEW u \in Workers, u # w PROVE Leased(u)' = Leased(u)
      <4>1. worker'[u] = worker[u]
        BY <3>2, <3>5
      <4>. QED  BY <4>1 DEF Leased, Rest, Held
    <3>. QED  BY <3>1, <3>2, <3>3, <3>4, <3>5 DEF WorkingPoints
  <2>. QED  BY <2>1, <2>2 DEF SenderMarkRaises, SenderCrash
<1>3. Working' \subseteq Working /\ w \notin Working'
  BY <1>2 DEF Working
<1>4. Queued' = Queued
  BY <1>1, <1>2 DEF Queued
<1>5. \A u \in Working' : /\ u \in Working /\ u \in Workers /\ u # w /\ worker'[u] = worker[u]
                          /\ Held(u)' = Held(u) /\ Cur(u)' = Cur(u) /\ (Settling(u)' <=> Settling(u))
  BY <1>2, <1>3 DEF Working, Settling
<1>6. LeasesApart'
  <2>1. \A u \in Workers : Leased(u)' \subseteq Leased(u)
    BY <1>2
  <2>2. \A u \in Workers : \A r \in Leased(u)' : r \in Queued' => row'[r].locked
    BY <1>2, <1>4, <2>1 DEF LeaseInv, LeasesApart
  <2>3. \A t, u \in Workers : t # u => Leased(t)' \cap Leased(u)' = {}
    BY <2>1 DEF LeaseInv, LeasesApart
  <2>. QED  BY <2>2, <2>3 DEF LeasesApart
<1>7. OneWorking'
  BY <1>1, <1>3, <1>4, <1>5 DEF LeaseInv, OneWorking
<1>8. GroupIsFirst'
  BY <1>1, <1>4, <1>5 DEF LeaseInv, GroupIsFirst
<1>9. ShownByFaults'
  <2>1. \A r \in Ids : Explained(r)' /\ MayBeCalled(r)'
    <3>. SUFFICES ASSUME NEW r \in Ids PROVE Explained(r)' /\ MayBeCalled(r)'
      OBVIOUS
    <3>1. Explained(r)
      BY DEF LeaseInv, ShownByFaults
    <3>. QED  BY <1>1, <3>1, ShownBounds DEF Basics, Typed
  <2>. QED  BY <1>1, <2>1 DEF ShownByFaults
<1>10. RetriesKnown'
  <2>1. ASSUME MaxRetries > 0, NEW r \in Ids PROVE WithinLimit(r)' /\ (OneMoreAllowed(r) => OneMoreAllowed(r)')
    <3>1. WithinLimit(r)
      BY <2>1 DEF LeaseInv, RetriesKnown
    <3>. QED  BY <1>1, <1>2, <3>1, RetryBounds DEF Basics
  <2>2. ASSUME MaxRetries > 0, NEW u \in Working', worker'[u].pc \in {"fallback", "mark"},
               worker'[u].verdict = "PENDING"
        PROVE  OneMoreAllowed(Cur(u).id)'
    <3>1. OneMoreAllowed(Cur(u).id) /\ Cur(u).id \in Ids
      BY <1>5, <2>2, TheWorking DEF LeaseInv, RetriesKnown
    <3>2. PICK r \in Ids : r = Cur(u).id
      BY <3>1
    <3>3. OneMoreAllowed(r)'
      BY <2>1, <2>2, <3>1, <3>2
    <3>. QED  BY <1>5, <3>2, <3>3 DEF OneMoreAllowed
  <2>3. ASSUME NEW u \in Working', NEW i \in DOMAIN worker'[u].group
        PROVE  worker'[u].group[i].retry = row'[worker'[u].group[i].id].retry
    <3>1. u \in Working /\ worker'[u] = worker[u] /\ u \in Workers
      BY <1>5
    <3>2. worker[u].group[i].id \in Ids
      BY <2>3, <3>1, GroupTyped DEF Basics
    <3>. QED  BY <1>2, <2>3, <3>1, <3>2 DEF LeaseInv, RetriesKnown
  <2>. QED  BY <1>1, <2>1, <2>2, <2>3 DEF RetriesKnown
<1>. QED  BY <1>6, <1>7, <1>8, <1>9, <1>10 DEF LeaseInv

\* The release gives back leases that nobody else relies on.
LEMMA LeaseRelease ==
    ASSUME Basics, LeaseInv, Basics', NEW w \in Workers, SenderRelease(w)
    PROVE  LeaseInv'
<1>1. /\ UNCHANGED <<setup, stored, human, shown, faults, putOff>> /\ worker[w].pc = "release"
      /\ Ids' = Ids /\ Blocks' = Blocks /\ worker' = [worker EXCEPT ![w] = NoWork]
  BY SetupStays DEF SenderRelease
<1>2. \A r \in Ids : /\ row'[r].st = row[r].st /\ row'[r].retry = row[r].retry
                     /\ row'[r].locked <=> row[r].locked /\ r \notin Leased(w)
  BY ReleaseMoves DEF Basics
<1>3. /\ worker'[w] = NoWork
      /\ \A u \in Workers : u # w => /\ worker'[u] = worker[u] /\ Held(u)' = Held(u)
                                     /\ Cur(u)' = Cur(u)
  BY <1>1, NoWorkTyped, WorkerMoves DEF Basics
<1>4. worker'[w].pc = "idle" /\ Held(w)' = {}
  BY <1>3, NoWorkTyped DEF Held
<1>5. Leased(w)' = {}
  BY <1>4 DEF Leased
<1>6. ASSUME NEW u \in Workers, u # w PROVE Leased(u)' = Leased(u)
  <2>1. worker'[u] = worker[u]
    BY <1>3, <1>6
  <2>. QED  BY <2>1 DEF Leased, Rest, Held
<1>7. Queued' = Queued /\ Queued \subseteq Ids
  BY <1>1, <1>2 DEF Queued
<1>8. /\ Working' = Working /\ Working \subseteq Workers
      /\ \A u \in Working : /\ u # w /\ worker'[u] = worker[u] /\ Held(u)' = Held(u)
                            /\ Cur(u)' = Cur(u) /\ (Settling(u)' <=> Settling(u))
  <2>1. w \notin Working /\ w \notin Working'
    BY <1>1, <1>4 DEF Working, WorkingPoints
  <2>2. \A u \in Workers : u # w => (u \in Working' <=> u \in Working)
    BY <1>3 DEF Working
  <2>3. Working \subseteq Workers /\ Working' \subseteq Workers
    BY DEF Working
  <2>4. \A u \in Working : u \in Workers /\ u # w /\ worker'[u] = worker[u]
    BY <1>3, <2>1, <2>3
  <2>. QED  BY <1>3, <2>1, <2>2, <2>3, <2>4 DEF Settling
<1>9. LeasesApart'
  <2>1. ASSUME NEW u \in Workers, NEW r \in Leased(u)', r \in Queued' PROVE row'[r].locked
    <3>1. u # w /\ r \in Leased(u) /\ r \in Queued /\ r \in Ids
      BY <1>5, <1>6, <1>7, <2>1
    <3>2. r \notin Leased(w) /\ row[r].locked
      BY <3>1 DEF LeaseInv, LeasesApart
    <3>. QED  BY <1>2, <3>1, <3>2
  <2>2. \A t, u \in Workers : t # u => Leased(t)' \cap Leased(u)' = {}
    BY <1>5, <1>6 DEF LeaseInv, LeasesApart
  <2>. QED  BY <2>1, <2>2 DEF LeasesApart
<1>10. OneWorking'
  BY <1>1, <1>7, <1>8 DEF LeaseInv, OneWorking
<1>11. GroupIsFirst'
  BY <1>1, <1>7, <1>8 DEF LeaseInv, GroupIsFirst
<1>12. ShownByFaults'
  <2>. SUFFICES ASSUME NEW r \in Ids
                PROVE  /\ Explained(r)'
                       /\ row[r].st \in {"ABSENT", "PENDING"}
                          /\ (\A u \in Working : Settling(u) => Cur(u).id # r) => MayBeCalled(r)'
                       /\ \A u \in Working :
                             r \in Held(u) /\ ~(Settling(u) /\ Cur(u).id = r) => MayBeCalled(r)'
    BY <1>1, <1>2, <1>8 DEF ShownByFaults
  <2>1. (Explained(r)' <=> Explained(r)) /\ (MayBeCalled(r)' <=> MayBeCalled(r))
    BY <1>1, ShownBounds DEF Basics, Typed
  <2>. QED  BY <2>1 DEF LeaseInv, ShownByFaults
<1>13. RetriesKnown'
  <2>1. \A r \in Ids : (WithinLimit(r)' <=> WithinLimit(r)) /\ (OneMoreAllowed(r)' <=> OneMoreAllowed(r))
    BY <1>1, <1>2, RetryBounds DEF Basics
  <2>2. \A u \in Working : OneMoreAllowed(Cur(u).id) => OneMoreAllowed(Cur(u).id)'
    <3>. SUFFICES ASSUME NEW u \in Working, OneMoreAllowed(Cur(u).id)
                  PROVE  OneMoreAllowed(Cur(u).id)'
      OBVIOUS
    <3>1. PICK r \in Ids : r = Cur(u).id
      BY TheWorking DEF LeaseInv
    <3>2. OneMoreAllowed(r)'
      BY <2>1, <3>1
    <3>. QED  BY <1>8, <3>1, <3>2 DEF OneMoreAllowed
  <2>3. ASSUME NEW u \in Working, NEW i \in DOMAIN worker[u].group
        PROVE  worker[u].group[i].retry = row'[worker[u].group[i].id].retry
    <3>1. worker[u].group[i].id \in Ids
      BY <1>8, GroupTyped DEF Basics
    <3>. QED  BY <1>2, <3>1 DEF LeaseInv, RetriesKnown
  <2>. QED  BY <1>1, <1>8, <2>1, <2>2, <2>3 DEF LeaseInv, RetriesKnown
<1>. QED  BY <1>9, <1>10, <1>11, <1>12, <1>13 DEF LeaseInv

-----------------------------------------------------------------------------
(* The invariant *)

\* Before the first answer there are no rows to speak of and nobody works.
LEMMA InitInv == Init => Inv
<1>. SUFFICES ASSUME Init PROVE Inv
  OBVIOUS
<1>1. /\ setup \in Setups /\ stored = 0 /\ human = "no" /\ faults = 0
      /\ row = [r \in Ids |-> [st |-> "ABSENT", retry |-> 0, locked |-> FALSE]]
      /\ worker = [w \in Workers |-> NoWork] /\ shown = [r \in Ids |-> 0]
      /\ putOff = [r \in Ids |-> 0]
  BY DEF Init
<1>2. MaxFaults \in Nat /\ MaxRetries \in Nat
  BY <1>1, ConstantsAssumption DEF MaxFaults
<1>3. Typed
  <2>1. [st |-> "ABSENT", retry |-> 0, locked |-> FALSE] \in RowStates
    BY DEF RowStates, Statuses
  <2>2. 0 \in 0 .. MaxFaults
    BY <1>2
  <2>. QED  BY <1>1, <2>1, <2>2, NoWorkTyped DEF Typed
<1>4. \A w \in Workers : /\ worker[w] = NoWork /\ worker[w].pc = "idle" /\ worker[w].group = <<>>
                         /\ Held(w) = {} /\ Leased(w) = {}
  <2>. SUFFICES ASSUME NEW w \in Workers
                PROVE  /\ worker[w] = NoWork /\ worker[w].pc = "idle" /\ worker[w].group = <<>>
                       /\ Held(w) = {} /\ Leased(w) = {}
    OBVIOUS
  <2>1. worker[w] = NoWork /\ worker[w].pc = "idle" /\ worker[w].group = <<>>
    BY <1>1, NoWorkTyped
  <2>2. Held(w) = {}
    BY <2>1 DEF Held
  <2>. QED  BY <2>1, <2>2 DEF Leased
<1>5. Working = {} /\ \A r \in Ids : /\ row[r].st = "ABSENT" /\ row[r].retry = 0
                                     /\ shown[r] = 0 /\ putOff[r] = 0
  BY <1>1, <1>4 DEF Working, WorkingPoints
<1>6. GroupsInOrder /\ StoredInOrder
  BY <1>4, <1>5 DEF GroupsInOrder, StoredInOrder
<1>7. LeasesApart /\ OneWorking /\ GroupIsFirst
  BY <1>4, <1>5 DEF LeasesApart, OneWorking, GroupIsFirst
<1>8. ShownByFaults
  <2>1. \A r \in Ids : Explained(r) /\ MayBeCalled(r)
    BY <1>1, <1>5 DEF Explained, MayBeCalled
  <2>. QED  BY <1>5, <2>1 DEF ShownByFaults
<1>9. RetriesKnown
  <2>1. MaxRetries > 0 => \A r \in Ids : WithinLimit(r)
    BY <1>1, <1>2, <1>5 DEF WithinLimit
  <2>. QED  BY <1>5, <2>1 DEF RetriesKnown
<1>. QED  BY <1>3, <1>6, <1>7, <1>8, <1>9, TypedIsTypeOK DEF Inv, LeaseInv

\* Every step keeps the leases in order, as long as they outlive the work.
LEMMA LeaseStep ==
    ASSUME Basics, LeaseInv, LeaseOutlivesWork, Basics', [Next]_vars
    PROVE  LeaseInv'
<1>1. CASE UNCHANGED vars
  <2>1. UNCHANGED <<setup, stored, row, worker, human, shown, faults, putOff>>
    BY <1>1 DEF vars
  <2>2. Queued' = Queued /\ Ids' = Ids
    BY <2>1, SetupStays DEF Queued
  <2>3. \A v \in Working : Held(v) \subseteq Queued' \/ (human' = "cancelled" /\ Queued' = {})
    BY <2>1, <2>2 DEF LeaseInv, OneWorking
  <2>. QED  BY <2>1, <2>2, <2>3, LeaseFrame DEF Basics
<1>2. ASSUME NEW r \in 1 .. MaxRows, LeaseExpires(r) PROVE LeaseInv'
  <2>1. r \in Ids
    BY <1>2 DEF LeaseExpires
  <2>. QED  BY <1>2, <2>1, LeaseTime DEF Basics
<1>3. ASSUME StoreAnswer \/ AgentTakesOver \/ AgentCancels PROVE LeaseInv'
  BY <1>3, LeaseStore, LeaseAgent DEF Basics
<1>4. ASSUME NEW w \in Workers, SenderStep(w) \/ SenderMarkRaises(w) \/ SenderCrash(w)
      PROVE  LeaseInv'
  BY <1>4, LeaseLease, LeaseCheck, LeaseCall, LeasePutOff, LeaseMark, LeaseFault, LeaseRelease
     DEF SenderStep, Basics
<1>. QED  BY <1>1, <1>2, <1>3, <1>4 DEF Next

\* The invariant is inductive.
LEMMA InvStep ==
    ASSUME Inv, [Next]_vars
    PROVE  Inv'
<1>1. Basics
  BY TypedIsTypeOK DEF Inv, Basics
<1>2. Basics'
  BY <1>1, BasicsStep
<1>3. TypeOK'
  BY <1>2 DEF Basics, TypeOK, Typed, RowStates, WorkerStates, Items, Points
<1>4. setup' = setup
  BY DEF Next, vars, SenderStep, StoreAnswer, AgentTakesOver, AgentCancels, LeasePendingGroup,
         SenderCheck, SenderSend, SenderFallback, SenderPutOff, SenderMark, SenderMarkRaises, SenderRelease,
         SenderCrash, LeaseExpires
<1>5. LeaseOutlivesWork' => LeaseOutlivesWork
  BY <1>4, SetupStays
<1>6. LeaseOutlivesWork => LeaseInv'
  BY <1>1, <1>2, LeaseStep DEF Inv
<1>. QED  BY <1>2, <1>3, <1>5, <1>6 DEF Inv, Basics

\* The rows, their leases and the workers stay in the states the sender counts on.
THEOREM SenderInvariant == Spec => []Inv
<1>1. Init => Inv
  BY InitInv
<1>2. Inv /\ [Next]_vars => Inv'
  BY InvStep
<1>. QED  BY <1>1, <1>2, PTL DEF Spec

\* However many workers, rows, retries and faults there are: a row the customer
\* sees again is explained by a fault, and a row that LiveChat keeps refusing is
\* given up within the retry limit, as long as leases outlive the work.
THEOREM ShowingsAndRetriesAccounted == Spec => []SendsAccounted
<1>1. Inv => SendsAccounted
  <2>. SUFFICES ASSUME Inv PROVE SendsAccounted
    OBVIOUS
  <2>1. RepeatsNeedFaults
    BY DEF Inv, LeaseInv, ShownByFaults, Explained, RepeatsNeedFaults
  <2>2. RetriesBounded
    BY DEF Inv, LeaseInv, RetriesKnown, WithinLimit, RetriesBounded
  <2>. QED  BY <2>1, <2>2 DEF SendsAccounted, Inv
<1>. QED  BY <1>1, SenderInvariant, PTL

\* Only the worker's call of the first row of its group shows a row.
LEMMA OnlyCallsShow ==
    ASSUME Inv, [Next]_vars, NEW r \in Ids, shown'[r] # shown[r]
    PROVE  \E w \in Working : Cur(w).id = r
<1>1. \E w \in Workers, o \in Outcomes, visible \in BOOLEAN :
          SenderSend(w, o, visible) \/ SenderFallback(w, o, visible)
  BY DEF Next, vars, SenderStep, StoreAnswer, AgentTakesOver, AgentCancels, LeasePendingGroup,
         SenderCheck, SenderPutOff, SenderMark, SenderMarkRaises, SenderRelease, SenderCrash, LeaseExpires
<1>2. PICK w \in Workers, o \in Outcomes, visible \in BOOLEAN :
          SenderSend(w, o, visible) \/ SenderFallback(w, o, visible)
  BY <1>1
<1>3. Typed /\ GroupsInOrder
  BY TypedIsTypeOK DEF Inv
<1>4. Call(w, o, visible) /\ worker[w].pc \in {"send", "fallback"} /\ Cur(w).id \in Ids
  BY <1>2, <1>3, CallStep
<1>5. Cur(w).id = r
  BY <1>3, <1>4, CallMoves
<1>. QED  BY <1>4, <1>5 DEF Working, WorkingPoints

\* A row is shown only when every row that goes before it is settled, whoever
\* leases what and whatever waits for a retry, as long as leases outlive the work.
THEOREM BlocksInOrder == Spec => InOrder
<1>1. ASSUME Inv, [Next]_vars
      PROVE  LeaseOutlivesWork => \A r \in Ids : shown'[r] > shown[r] =>
                 \A q \in 1 .. r - 1 : Blocks[q].rank <= Blocks[r].rank => q \notin Queued
  <2>. SUFFICES ASSUME LeaseOutlivesWork, NEW r \in Ids, shown'[r] > shown[r],
                       NEW q \in 1 .. r - 1, Blocks[q].rank <= Blocks[r].rank, q \in Queued
                PROVE  FALSE
    OBVIOUS
  <2>1. Basics
    BY <1>1, TypedIsTypeOK DEF Inv, Basics
  <2>2. shown[r] \in Nat /\ r \in Nat
    BY <2>1, SetupTyped DEF Basics, Typed
  <2>3. shown'[r] # shown[r] /\ q < r
    BY <2>2
  <2>4. PICK w \in Working : Cur(w).id = r
    BY <1>1, <2>3, OnlyCallsShow
  <2>5. OneWorking /\ GroupIsFirst
    BY <1>1 DEF Inv, LeaseInv
  <2>6. w \in Workers /\ r \in Held(w) /\ worker[w].pc # "idle"
    BY <2>1, <2>4, <2>5, TheWorking
  <2>7. q \in Held(w) /\ q \in Ids
    BY <2>3, <2>4, <2>5, <2>6 DEF GroupIsFirst, Queued
  <2>8. PICK i \in DOMAIN worker[w].group : worker[w].group[i].id = q
    BY <2>7 DEF Held
  <2>9. i = 1 \/ (1 < i /\ 1 \in DOMAIN worker[w].group)
    BY <2>1, <2>6, GroupTyped DEF Basics
  <2>10. q # r
    BY <2>2, <2>3
  <2>11. SendsBefore(r, q)
    <3>1. worker[w].group[1].id = r
      BY <2>4 DEF Cur
    <3>2. i # 1
      BY <2>8, <2>10, <3>1
    <3>3. SendsBefore(worker[w].group[1].id, worker[w].group[i].id)
      BY <2>1, <2>6, <2>9, <3>2 DEF Basics, GroupsInOrder
    <3>. QED  BY <2>8, <3>1, <3>3
  <2>12. SendsBefore(q, r)
    BY <2>1, <2>3, <2>7, SendsBeforeOrder DEF Basics
  <2>. QED  BY <2>1, <2>7, <2>11, <2>12, SendsBeforeOrder DEF Basics
<1>2. ASSUME Inv, [Next]_vars
      PROVE  [LeaseOutlivesWork => \A r \in Ids : shown'[r] > shown[r] =>
                 \A q \in 1 .. r - 1 : Blocks[q].rank <= Blocks[r].rank => q \notin Queued]_vars
  BY <1>1, <1>2
<1>. QED  BY <1>2, SenderInvariant, PTL DEF Spec, InOrder
=============================================================================
