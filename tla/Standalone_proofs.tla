------------------------- MODULE Standalone_proofs --------------------------
(***************************************************************************)
(* Proofs about the four components of MCStandalone, for every set of      *)
(* workers and iteration limit, every set of turnover records, every set   *)
(* of manual runs, topics and days, and every number of inputs to a menu.  *)
(* Each component is proved about on its own; Spec lets one of them run    *)
(* and leaves the others alone.                                            *)
(* The last part is about the content of the report that ReportDelivery    *)
(* posts (ReportContent).                                                  *)
(***************************************************************************)
EXTENDS MCStandalone, MCReportContent, WellFoundedInduction, TLAPS

-----------------------------------------------------------------------------
(* The supervisor of the workers *)

\* Why the runner stops: a stop has a reason, and the reason shows in the
\* errors or in the status.
StopHasReason ==
    /\ stop <=> reason # "none"
    /\ reason = "stop_on_error" => errors /\ stopOnError
    /\ reason = "cancelled" => status # "OK"
    /\ main \in {"grace", "cancelling"} => stop

\* A status is final only after the start; a tick is cut off only while the
\* runner cancels, and then its status tells of it.
StatusTells ==
    /\ main = "start" => status = "OK"
    /\ main = "cancelling" \/ cut # {} => status # "OK"
    /\ main # "over" => status \notin Runner!Refused
    /\ main = "over" /\ status = "OK" => ~stop

\* As long as nothing stops the runner, a worker ends only after its last iteration.
DoneIsExhausted == \A w \in Workers : worker[w] = "done" /\ ~stop => Runner!Exhausted(w)

RunnerInv ==
    /\ Runner!TypeOK /\ Runner!PoolOutlivesWorkers
    /\ StopHasReason /\ StatusTells /\ DoneIsExhausted

\* The supervisor starts with every worker new and nothing stopped.
LEMMA RunnerInit == Runner!Init => RunnerInv
<1>. SUFFICES ASSUME Runner!Init PROVE RunnerInv
  OBVIOUS
<1>1. Runner!TypeOK
  <2>1. maxIterations \in Nat /\ 0 \in 0 .. maxIterations
    BY RunnerAssumption DEF Runner!Init
  <2>. QED  BY <2>1 DEF Runner!Init, Runner!TypeOK, Runner!Refused, Runner!Final
<1>2. StopHasReason /\ StatusTells /\ Runner!PoolOutlivesWorkers /\ DoneIsExhausted
  BY DEF Runner!Init, StopHasReason, StatusTells, Runner!PoolOutlivesWorkers, DoneIsExhausted,
         Runner!Refused
<1>. QED  BY <1>1, <1>2 DEF RunnerInv

\* The steps of a worker keep the invariant: a tick begins only within the limit.
LEMMA RunnerWorker ==
    ASSUME RunnerInv, NEW w \in Workers, Runner!WorkerStep(w)
    PROVE  RunnerInv'
<1>. USE DEF RunnerInv, Runner!TypeOK, Runner!config
<1>1. UNCHANGED <<maxIterations, stopOnError, ready, main, status>>
  BY DEF Runner!WorkerStep, Runner!LoopHead, Runner!TickEnds, Runner!TickFails, Runner!TickHangs,
         Runner!CallHangs, Runner!WorkerCancelled
<1>2. main \in {"wait", "grace", "cancelling"}
  BY DEF Runner!WorkerStep, Runner!LoopHead, Runner!TickEnds, Runner!TickFails, Runner!TickHangs,
         Runner!CallHangs, Runner!WorkerCancelled, Runner!Running
<1>3. Runner!PoolOutlivesWorkers'
  BY <1>1, <1>2 DEF Runner!PoolOutlivesWorkers
<1>4. CASE Runner!LoopHead(w)
  <2>1. Runner!TypeOK'
    BY <1>4, RunnerAssumption DEF Runner!LoopHead, Runner!Exhausted
  <2>2. (StopHasReason /\ StatusTells /\ DoneIsExhausted)'
    BY <1>4 DEF Runner!LoopHead, Runner!Exhausted, StopHasReason, StatusTells, DoneIsExhausted
  <2>. QED  BY <1>3, <2>1, <2>2
<1>5. CASE Runner!TickEnds(w)
  <2>1. Runner!TypeOK'
    BY <1>5 DEF Runner!TickEnds, Runner!AfterTick
  <2>2. (StopHasReason /\ StatusTells /\ DoneIsExhausted)'
    BY <1>5 DEF Runner!TickEnds, Runner!AfterTick, Runner!Exhausted, StopHasReason, StatusTells,
                DoneIsExhausted
  <2>. QED  BY <1>3, <2>1, <2>2
<1>6. CASE Runner!TickFails(w)
  <2>1. Runner!TypeOK'
    BY <1>6 DEF Runner!TickFails, Runner!AfterTick
  <2>2. StopHasReason' /\ StatusTells'
    BY <1>1, <1>2, <1>6 DEF Runner!TickFails, StopHasReason, StatusTells
  <2>3. DoneIsExhausted'
    BY <1>6 DEF Runner!TickFails, Runner!AfterTick, Runner!Exhausted, DoneIsExhausted
  <2>. QED  BY <1>3, <2>1, <2>2, <2>3
<1>7. CASE Runner!TickHangs(w)
  <2>1. Runner!TypeOK'
    BY <1>7 DEF Runner!TickHangs
  <2>2. (StopHasReason /\ StatusTells /\ DoneIsExhausted)'
    BY <1>7 DEF Runner!TickHangs, Runner!Exhausted, StopHasReason, StatusTells, DoneIsExhausted
  <2>. QED  BY <1>3, <2>1, <2>2
<1>8. CASE Runner!WorkerCancelled(w)
  <2>1. Runner!TypeOK'
    BY <1>8 DEF Runner!WorkerCancelled
  <2>2. StopHasReason' /\ StatusTells'
    BY <1>8 DEF Runner!WorkerCancelled, StopHasReason, StatusTells
  <2>3. DoneIsExhausted'
    BY <1>8 DEF Runner!WorkerCancelled, StopHasReason, DoneIsExhausted
  <2>. QED  BY <1>3, <2>1, <2>2, <2>3
<1>9. CASE Runner!CallHangs(w)
  <2>1. Runner!TypeOK'
    BY <1>9 DEF Runner!CallHangs
  <2>2. (StopHasReason /\ StatusTells /\ DoneIsExhausted)'
    BY <1>9 DEF Runner!CallHangs, Runner!Exhausted, StopHasReason, StatusTells, DoneIsExhausted
  <2>. QED  BY <1>3, <2>1, <2>2
<1>. QED  BY <1>4, <1>5, <1>6, <1>7, <1>8, <1>9 DEF Runner!WorkerStep

\* The steps of run_all_workers keep the invariant: it ends when every worker has.
LEMMA RunnerMain ==
    ASSUME RunnerInv,
           Runner!MainStep \/ Runner!Signal \/ Runner!SignalHandled \/ Runner!Cancel
    PROVE  RunnerInv'
<1>. USE DEF RunnerInv, Runner!TypeOK, Runner!config, Runner!tasks
<1>1. UNCHANGED <<maxIterations, stopOnError, ready, worker, iteration, cut, errors>>
  BY DEF Runner!MainStep, Runner!Start, Runner!MainWakes, Runner!GraceTimeout, Runner!Gathered,
         Runner!Signal, Runner!SignalHandled, Runner!Cancel
<1>2. CASE Runner!Start
  BY <1>1, <1>2 DEF Runner!Start, Runner!Refused, Runner!Final, StopHasReason, StatusTells,
     DoneIsExhausted, Runner!PoolOutlivesWorkers, Runner!Exhausted
<1>3. ASSUME Runner!AllDone, Runner!Finish, main \in {"wait", "grace", "cancelling"},
             UNCHANGED <<signal, stop, reason>>
      PROVE  RunnerInv'
  <2>1. Runner!TypeOK'
    BY <1>1, <1>3 DEF Runner!Finish, Runner!Final
  <2>2. StopHasReason' /\ StatusTells'
    BY <1>1, <1>3 DEF Runner!Finish, StopHasReason, StatusTells
  <2>3. Runner!PoolOutlivesWorkers' /\ DoneIsExhausted'
    BY <1>1, <1>3 DEF Runner!AllDone, Runner!PoolOutlivesWorkers, DoneIsExhausted, Runner!Exhausted
  <2>. QED  BY <2>1, <2>2, <2>3
<1>4. CASE Runner!MainWakes
  BY <1>1, <1>3, <1>4 DEF Runner!MainWakes, StopHasReason, StatusTells, DoneIsExhausted,
     Runner!PoolOutlivesWorkers, Runner!Exhausted
<1>5. CASE Runner!GraceTimeout
  BY <1>1, <1>5 DEF Runner!GraceTimeout, Runner!Refused, Runner!Final, StopHasReason, StatusTells,
     DoneIsExhausted, Runner!PoolOutlivesWorkers, Runner!Exhausted
<1>6. CASE Runner!Gathered
  BY <1>3, <1>6 DEF Runner!Gathered
<1>7. CASE Runner!Signal
  BY <1>1, <1>7 DEF Runner!Signal, StopHasReason, StatusTells, DoneIsExhausted,
     Runner!PoolOutlivesWorkers, Runner!Exhausted
<1>8. CASE Runner!SignalHandled
  BY <1>1, <1>8 DEF Runner!SignalHandled, StopHasReason, StatusTells, DoneIsExhausted,
     Runner!PoolOutlivesWorkers, Runner!Exhausted
<1>9. CASE Runner!Cancel
  BY <1>1, <1>9 DEF Runner!Cancel, Runner!Refused, Runner!Final, StopHasReason, StatusTells,
     DoneIsExhausted, Runner!PoolOutlivesWorkers
<1>. QED  BY <1>2, <1>4, <1>5, <1>6, <1>7, <1>8, <1>9 DEF Runner!MainStep

\* The exit code 0 can only come from a runner whose workers made their last iteration.
LEMMA RunnerInvSuffices == RunnerInv => RunnerSound
<1>. SUFFICES ASSUME RunnerInv, main = "over", Runner!ExitCode = 0
              PROVE  /\ ~stop /\ cut = {} /\ maxIterations # 0
                     /\ \A w \in Workers : iteration[w] = maxIterations
  BY DEF RunnerInv, RunnerSound, Runner!ExitZeroMeansComplete
<1>1. status = "OK"
  BY DEF Runner!ExitCode, Runner!Refused
<1>2. ~stop /\ cut = {}
  BY <1>1 DEF RunnerInv, StatusTells
<1>3. \A w \in Workers : Runner!Exhausted(w)
  BY <1>1, <1>2 DEF RunnerInv, Runner!PoolOutlivesWorkers, Runner!AllDone, Runner!Refused,
     DoneIsExhausted
<1>4. \A w \in Workers : maxIterations # 0 /\ iteration[w] = maxIterations
  <2>1. maxIterations \in Nat /\ iteration \in [Workers -> 0 .. maxIterations]
    BY RunnerAssumption DEF RunnerInv, Runner!TypeOK
  <2>2. ASSUME NEW w \in Workers PROVE maxIterations # 0 /\ iteration[w] = maxIterations
    <3>1. maxIterations # 0 /\ iteration[w] >= maxIterations
      BY <1>3 DEF Runner!Exhausted
    <3>2. iteration[w] \in 0 .. maxIterations
      BY <2>1
    <3>. QED  BY <2>1, <3>1, <3>2
  <2>. QED  BY <2>2
<1>. QED  BY <1>2, <1>4, RunnerAssumption

\* The supervisor ends in order, for every number of workers and every iteration limit:
\* the pool is closed after the last worker, and the exit code 0 tells that all ran.
THEOREM SupervisorEndsInOrder == Spec => []RunnerSound
<1>1. Init => RunnerInv
  BY RunnerInit DEF Init
<1>2. RunnerInv /\ [Next]_<<part, runnerVars, queryVars, reportVars, menuVars>> => RunnerInv'
  <2>1. ASSUME RunnerInv, Runner!Next PROVE RunnerInv'
    BY <2>1, RunnerWorker, RunnerMain DEF Runner!Next
  <2>2. ASSUME RunnerInv, UNCHANGED runnerVars PROVE RunnerInv'
    BY <2>2 DEF runnerVars, RunnerInv, Runner!TypeOK, Runner!PoolOutlivesWorkers, Runner!AllDone,
       StopHasReason, StatusTells, DoneIsExhausted, Runner!Exhausted
  <2>. QED  BY <2>1, <2>2 DEF Next
<1>. QED  BY <1>1, <1>2, RunnerInvSuffices, PTL DEF Spec
-----------------------------------------------------------------------------
(* The backend query *)

\* No page read so far shows a requirement that is not met.
NothingActive == \A i \in DOMAIN pages : Query!Active(pages[i]) = {}

\* What the backend has answered at each call of a query that goes on.
Searching ==
    /\ call \in {"start", "USERNAME"} =>
          found = [c \in Query!SearchCodes |-> "unknown"] /\ refusals = 0
    /\ call = "MOBILE" =>
          /\ found["MOBILE"] = "unknown"
          /\ \/ found["USERNAME"] = "none" /\ refusals = 0
             \/ found["USERNAME"] = "unknown" /\ refusals = 1
    /\ call \in {"start", "USERNAME", "MOBILE"} => window = 1 /\ pages = <<>>

ReadingWindows ==
    call = "WINDOW" =>
        /\ \E c \in Query!SearchCodes : found[c] = "found"
        /\ NothingActive
        /\ Len(pages) < window
        /\ refusals <= window
        /\ window <= Len(pages) + refusals + 1

QueryInv ==
    /\ Query!TypeOK /\ Query!ConclusionsFollow
    /\ reply = Query!NoReply <=> call # "done"
    /\ Searching /\ ReadingWindows

\* A query begins with nothing answered.
LEMMA QueryInit == Query!Init => QueryInv
<1>. SUFFICES ASSUME Query!Init PROVE QueryInv
  OBVIOUS
<1>1. Query!TypeOK
  <2>1. 0 \in 0 .. MaxEnded /\ 0 \in 0 .. 5 /\ 0 \in 0 .. 7 /\ 1 \in 1 .. 5
    BY QueryAssumption
  <2>2. pages \in Seq(SUBSET Records) /\ Len(pages) = 0
    BY DEF Query!Init
  <2>3. found \in [Query!SearchCodes -> Query!Players \cup {"unknown"}]
    BY DEF Query!Init
  <2>. QED  BY <2>1, <2>2, <2>3 DEF Query!Init, Query!TypeOK, Query!Windows, Query!NoReply
<1>2. Query!ConclusionsFollow /\ (reply = Query!NoReply <=> call # "done")
  BY DEF Query!Init, Query!ConclusionsFollow, Query!NoReply
<1>3. Searching /\ ReadingWindows
  BY DEF Query!Init, Searching, ReadingWindows
<1>. QED  BY <1>1, <1>2, <1>3 DEF QueryInv

\* Steps that ask nothing of the backend and conclude nothing.
LEMMA QueryQuiet ==
    ASSUME QueryInv, Query!Execute \/ Query!Login \/ Query!SessionEnds \/ Query!Relogin
                     \/ Query!Fails
    PROVE  QueryInv'
<1>1. UNCHANGED <<settings, found, pages, refusals>> /\ window' = window /\ call # "done"
  BY DEF Query!Execute, Query!Login, Query!SessionEnds, Query!Relogin, Query!Fails,
         Query!history, Query!Calling, Query!Reply
<1>2. session' \in Query!Sessions /\ again' \in BOOLEAN /\ ended' \in 0 .. MaxEnded
  <2>1. session' \in Query!Sessions /\ again' \in BOOLEAN
    BY DEF QueryInv, Query!TypeOK, Query!Execute, Query!Login, Query!SessionEnds, Query!Relogin,
       Query!Fails, Query!Sessions
  <2>2. ended' = ended \/ (ended < MaxEnded /\ ended' = ended + 1)
    BY DEF Query!Execute, Query!Login, Query!SessionEnds, Query!Relogin, Query!Fails
  <2>3. ended \in 0 .. MaxEnded /\ MaxEnded \in Nat
    BY QueryAssumption DEF QueryInv, Query!TypeOK
  <2>. QED  BY <2>1, <2>2, <2>3
<1>3. \/ call' = call /\ reply' = reply
      \/ call = "start" /\ call' = "USERNAME" /\ reply' = reply
      \/ call' = "done" /\ reply' \in Query!Failures
  <2>1. Query!CommandError # Query!NoReply => Query!CommandError \in Query!Failures
    BY DEF Query!CommandError, Query!Failures
  <2>. QED  BY <2>1 DEF Query!Execute, Query!Login, Query!SessionEnds, Query!Relogin,
            Query!Fails, Query!Reply, Query!Failures
<1>4. Query!TypeOK'
  BY <1>1, <1>2, <1>3 DEF QueryInv, Query!TypeOK, Query!SearchCodes
<1>5. reply' \notin Query!Conclusions
  BY <1>1, <1>3 DEF QueryInv, Query!Failures, Query!Conclusions, Query!NoReply
<1>6. Query!ConclusionsFollow'
  BY <1>5 DEF Query!ConclusionsFollow, Query!Conclusions
<1>7. (reply = Query!NoReply <=> call # "done")'
  BY <1>1, <1>3 DEF QueryInv, Query!Failures, Query!NoReply
<1>8. Searching' /\ ReadingWindows'
  BY <1>1, <1>3 DEF QueryInv, Searching, ReadingWindows, NothingActive
<1>. QED  BY <1>4, <1>6, <1>7, <1>8 DEF QueryInv

\* An answer to a search, or its second refusal, which counts as no player.
LEMMA QuerySearches ==
    ASSUME QueryInv, call \in Query!SearchCodes, NEW player \in Query!Players,
           Query!SearchAnswer(player), again' = FALSE,
           UNCHANGED <<settings, session, ended, pages>>,
           \/ found' = [found EXCEPT ![call] = player] /\ refusals' = refusals
           \/ found' = found /\ refusals' = refusals + 1 /\ player = "none"
    PROVE  QueryInv'
<1>. USE DEF Query!SearchCodes
<1>1. /\ found \in [Query!SearchCodes -> Query!Players \cup {"unknown"}]
      /\ refusals \in {0, 1} /\ window = 1 /\ pages = <<>>
      /\ reply = Query!NoReply
  BY DEF QueryInv, Query!TypeOK, Searching
<1>2. found' \in [Query!SearchCodes -> Query!Players \cup {"unknown"}] /\ refusals' \in {0, 1, 2}
  BY <1>1
<1>3. \/ player = "found" /\ call' = "WINDOW" /\ window' = window /\ reply' = reply
      \/ player = "none" /\ call = "USERNAME" /\ call' = "MOBILE" /\ window' = window
            /\ reply' = reply
      \/ /\ player # "found" /\ (player = "none" => call = "MOBILE")
         /\ call' = "done" /\ window' = window /\ reply' = "BACKEND_PLAYER_NOT_FOUND"
  BY DEF Query!SearchAnswer, Query!Reply, Query!Players
<1>4. Query!TypeOK'
  <2>1. refusals' \in 0 .. 7 /\ pages' = pages /\ window' = window
    BY <1>2, <1>3
  <2>2. reply' \in Query!Conclusions \cup Query!Failures \cup {Query!NoReply}
    BY <1>1, <1>3 DEF Query!Conclusions
  <2>3. call' \in Query!SearchCodes \cup {"start", "WINDOW", "done"}
    BY <1>3
  <2>. QED  BY <1>2, <2>1, <2>2, <2>3 DEF QueryInv, Query!TypeOK
<1>5. CASE player = "found"
  <2>1. found'[call] = "found" /\ refusals' = refusals /\ call' = "WINDOW" /\ reply' = reply
    BY <1>1, <1>3, <1>5
  <2>2. ReadingWindows' /\ Searching'
    BY <1>1, <1>3, <2>1 DEF ReadingWindows, Searching, NothingActive
  <2>3. Query!ConclusionsFollow' /\ (reply = Query!NoReply <=> call # "done")'
    BY <1>1, <2>1 DEF Query!ConclusionsFollow, Query!NoReply
  <2>. QED  BY <1>4, <2>2, <2>3 DEF QueryInv
<1>6. CASE player = "none" /\ call = "USERNAME"
  <2>1. call' = "MOBILE" /\ window' = 1 /\ pages' = <<>> /\ reply' = Query!NoReply
    BY <1>1, <1>3, <1>6
  <2>2. Searching' /\ ReadingWindows'
    BY <1>1, <1>6, <2>1 DEF Searching, ReadingWindows, QueryInv
  <2>3. Query!ConclusionsFollow' /\ (reply = Query!NoReply <=> call # "done")'
    BY <2>1 DEF Query!ConclusionsFollow, Query!NoReply
  <2>. QED  BY <1>4, <2>2, <2>3 DEF QueryInv
<1>7. CASE player # "found" /\ (player = "none" => call = "MOBILE")
  <2>1. call' = "done" /\ reply' = "BACKEND_PLAYER_NOT_FOUND"
    BY <1>3, <1>7
  <2>2. found'["USERNAME"] # "found" /\ found'["MOBILE"] # "found"
    BY <1>1, <1>7 DEF QueryInv, Searching
  <2>3. \/ found'["USERNAME"] = "without_id" \/ found'["MOBILE"] = "without_id"
        \/ refusals' = 2
        \/ refusals' = 1 /\ (found'["USERNAME"] = "none" \/ found'["MOBILE"] = "none")
        \/ found'["USERNAME"] = "none" /\ found'["MOBILE"] = "none"
    BY <1>1, <1>7 DEF QueryInv, Searching, Query!Players
  <2>4. Query!ConclusionsFollow'
    BY <2>1, <2>2, <2>3 DEF Query!ConclusionsFollow
  <2>. QED
    BY <1>4, <2>1, <2>4 DEF QueryInv, Searching, ReadingWindows, Query!NoReply
<1>. QED  BY <1>5, <1>6, <1>7

\* An answer to a window, or its second refusal, which counts as an empty page.
LEMMA QueryReads ==
    ASSUME QueryInv, call = "WINDOW", NEW records \in SUBSET Records,
           Query!WindowAnswer(records), again' = FALSE,
           UNCHANGED <<settings, session, ended, found>>,
           \/ pages' = Append(pages, records) /\ refusals' = refusals
           \/ pages' = pages /\ refusals' = refusals + 1 /\ records = {}
    PROVE  QueryInv'
<1>1. /\ window \in 1 .. 5 /\ pages \in Seq(SUBSET Records) /\ Len(pages) \in 0 .. 4
      /\ refusals \in 0 .. window /\ Len(pages) < window
      /\ window <= Len(pages) + refusals + 1 /\ NothingActive /\ reply = Query!NoReply
      /\ \E c \in Query!SearchCodes : found[c] = "found"
  <2>1. /\ window \in 1 .. 5 /\ pages \in Seq(SUBSET Records) /\ Len(pages) \in 0 .. 5
        /\ refusals \in 0 .. 7 /\ reply = Query!NoReply
    BY DEF QueryInv, Query!TypeOK, Query!Windows
  <2>2. /\ Len(pages) < window /\ refusals <= window /\ window <= Len(pages) + refusals + 1
        /\ NothingActive /\ \E c \in Query!SearchCodes : found[c] = "found"
    BY DEF QueryInv, ReadingWindows
  <2>3. Len(pages) \in 0 .. 4 /\ refusals \in 0 .. window
    BY <2>1, <2>2
  <2>. QED  BY <2>1, <2>2, <2>3, Zenon
<1>2. \/ Query!Active(records) # {} /\ call' = "done" /\ window' = window
            /\ reply' = "BACKEND_TURNOVER_REMAINING"
      \/ Query!Active(records) = {} /\ window < 5 /\ window' = window + 1 /\ call' = call
            /\ reply' = reply
      \/ Query!Active(records) = {} /\ window = 5 /\ window' = window /\ call' = "done"
            /\ reply' = "BACKEND_TURNOVER_MET"
  BY <1>1 DEF Query!WindowAnswer, Query!Reply
<1>3. /\ pages' \in Seq(SUBSET Records) /\ Len(pages') \in 0 .. 5 /\ refusals' \in 0 .. 7
      /\ Len(pages') <= window /\ refusals' <= window + 1
      /\ window <= Len(pages') + refusals'
  <2>1. CASE pages' = Append(pages, records)
    BY <1>1, <2>1
  <2>2. CASE pages' = pages
    BY <1>1, <2>2
  <2>. QED  BY <2>1, <2>2
<1>4. Query!TypeOK'
  <2>1. window' \in Query!Windows
    BY <1>1, <1>2 DEF Query!Windows
  <2>2. reply' \in Query!Conclusions \cup Query!Failures \cup {Query!NoReply}
    BY <1>1, <1>2 DEF Query!Conclusions
  <2>. QED  BY <1>2, <1>3, <2>1, <2>2 DEF QueryInv, Query!TypeOK
<1>5. Query!Active(records) = {} => NothingActive'
  <2>. SUFFICES ASSUME Query!Active(records) = {}, NEW i \in DOMAIN pages'
                PROVE  Query!Active(pages'[i]) = {}
    BY DEF NothingActive
  <2>1. pages'[i] = records \/ (i \in DOMAIN pages /\ pages'[i] = pages[i])
    <3>1. CASE pages' = Append(pages, records)
      BY <1>1, <3>1
    <3>2. CASE pages' = pages
      BY <3>2
    <3>. QED  BY <3>1, <3>2
  <2>. QED  BY <1>1, <2>1 DEF NothingActive
<1>6. CASE Query!Active(records) # {}
  <2>1. pages' = Append(pages, records)
    BY <1>6 DEF Query!Active
  <2>2. pages'[Len(pages')] = records
    BY <1>1, <2>1
  <2>. QED
    BY <1>2, <1>4, <1>6, <2>2
       DEF QueryInv, Query!ConclusionsFollow, Searching, ReadingWindows, Query!NoReply
<1>7. CASE Query!Active(records) = {} /\ window < 5
  <2>1. Query!ConclusionsFollow' /\ (reply = Query!NoReply <=> call # "done")' /\ Searching'
    BY <1>1, <1>2, <1>7 DEF Query!ConclusionsFollow, Searching, Query!NoReply
  <2>2. ReadingWindows'
    BY <1>1, <1>2, <1>3, <1>5, <1>7 DEF ReadingWindows
  <2>. QED  BY <1>4, <2>1, <2>2 DEF QueryInv
<1>8. CASE Query!Active(records) = {} /\ window = 5
  <2>1. call' = "done" /\ reply' = "BACKEND_TURNOVER_MET" /\ Len(pages') + refusals' >= 5
    BY <1>1, <1>2, <1>3, <1>8
  <2>2. Query!ConclusionsFollow'
    BY <1>1, <1>5, <1>8, <2>1 DEF Query!ConclusionsFollow, NothingActive
  <2>. QED  BY <1>4, <2>1, <2>2 DEF QueryInv, Searching, ReadingWindows, Query!NoReply
<1>. QED  BY <1>1, <1>6, <1>7, <1>8

\* Every step of a query keeps the invariant.
LEMMA QueryStep == QueryInv /\ Query!Next => QueryInv'
<1>. SUFFICES ASSUME QueryInv, Query!Next PROVE QueryInv'
  OBVIOUS
<1>1. CASE Query!Answered
  <2>1. ASSUME NEW player \in Query!Players, call \in Query!SearchCodes,
               Query!SearchAnswer(player), found' = [found EXCEPT ![call] = player],
               UNCHANGED pages
        PROVE  QueryInv'
    BY <1>1, <2>1, QuerySearches DEF Query!Answered
  <2>2. ASSUME NEW records \in SUBSET Records, call = "WINDOW",
               Query!WindowAnswer(records), pages' = Append(pages, records),
               UNCHANGED found
        PROVE  QueryInv'
    BY <1>1, <2>2, QueryReads DEF Query!Answered
  <2>. QED  BY <1>1, <2>1, <2>2 DEF Query!Answered
<1>2. CASE Query!RefusedTwice
  <2>1. CASE call \in Query!SearchCodes
    <3>1. "none" \in Query!Players /\ Query!SearchAnswer("none")
      BY <1>2, <2>1 DEF Query!RefusedTwice, Query!Players
    <3>. QED  BY <1>2, <2>1, <3>1, QuerySearches DEF Query!RefusedTwice
  <2>2. CASE call \notin Query!SearchCodes
    <3>1. call = "WINDOW" /\ Query!WindowAnswer({})
      BY <1>2, <2>2 DEF Query!RefusedTwice, Query!Calling, QueryInv, Query!TypeOK
    <3>2. {} \in SUBSET Records
      OBVIOUS
    <3>. QED  BY <1>2, <3>1, <3>2, QueryReads DEF Query!RefusedTwice
  <2>. QED  BY <2>1, <2>2
<1>. QED  BY <1>1, <1>2, QueryQuiet DEF Query!Next, Query!QueryStep

\* What a customer is told of their turnover follows from the answers of the backend,
\* for every set of records it may show and however often it ends the session.
THEOREM RepliesFollow == Spec => []ConclusionsFollow
<1>1. Init => QueryInv
  BY QueryInit DEF Init
<1>2. QueryInv /\ [Next]_<<part, runnerVars, queryVars, reportVars, menuVars>> => QueryInv'
  <2>1. ASSUME QueryInv, UNCHANGED queryVars PROVE QueryInv'
    BY <2>1 DEF queryVars, QueryInv, Query!TypeOK, Query!ConclusionsFollow, Searching,
       ReadingWindows, NothingActive
  <2>. QED  BY <2>1, QueryStep DEF Next
<1>3. QueryInv => ConclusionsFollow
  BY DEF QueryInv, ConclusionsFollow
<1>. QED  BY <1>1, <1>2, <1>3, PTL DEF Spec
-----------------------------------------------------------------------------
(* The delivery of the daily report *)

RunStates == [pc : Report!Steps, date : Report!Dates \cup {Report!NoDate}, topic : Topics]

\* Where a run has claimed its report and has not returned.
Holding == {"send", "sent", "failed"}

KeyOf(r) == <<run[r].date, run[r].topic>>

\* Runs under way have a date, and no two of them hold the same report.
RunsApart ==
    /\ \A r \in Report!Runs : run[r].pc # "idle" => run[r].date \in Report!Dates
    /\ \A r \in Report!Runs : run[r].pc \in Holding => KeyOf(r) \in DOMAIN audit
    /\ \A r, s \in Report!Runs :
          r # s /\ run[r].pc \in Holding /\ run[s].pc \in Holding => KeyOf(r) # KeyOf(s)

\* How often a report is in the group tells how far the run that claimed it is.
PostedByClaim ==
    /\ \A k \in Report!Dates \X Topics :
          /\ posted[k] \in {0, 1}
          /\ k \notin DOMAIN audit => posted[k] = 0
          /\ k \in DOMAIN audit /\ audit[k] = "SENT" => posted[k] = 1
    /\ \A r \in Report!Runs :
          /\ run[r].pc = "send" => posted[KeyOf(r)] = 0
          /\ run[r].pc = "sent" => posted[KeyOf(r)] = 1

ReportInv == Report!TypeOK /\ RunsApart /\ PostedByClaim

\* The row of a run that is under way.
LEMMA KeyTyped ==
    ASSUME ReportInv, NEW r \in Report!Runs, run[r].pc # "idle"
    PROVE  Report!Key(r) = KeyOf(r) /\ KeyOf(r) \in Report!Dates \X Topics
BY DEF ReportInv, RunsApart, Report!TypeOK, Report!Key, Report!_thread_key, KeyOf

\* Half days and dates.
LEMMA DatesOfClock ==
    ASSUME NEW now \in 2 .. MaxClock
    PROVE  /\ Report!_report_date(now) \in Report!Dates
           /\ 0 .. now \div 2 \subseteq Report!Dates
           /\ Report!_next_run_at(now) \in Nat
BY ReportAssumption DEF Report!_report_date, Report!Dates, Report!_next_run_at

\* The delivery begins with no run, no row and no document.
LEMMA ReportInit == Report!Init => ReportInv
<1>. SUFFICES ASSUME Report!Init PROVE ReportInv
  OBVIOUS
<1>1. run \in [Report!Runs -> RunStates] /\ \A r \in Report!Runs : run[r].pc = "idle"
  BY ReportAssumption DEF Report!Init, Report!Idle, RunStates, Report!Steps, Report!NoTopic
<1>2. DOMAIN audit = {} /\ posted = [k \in Report!Dates \X Topics |-> 0]
  BY DEF Report!Init
<1>3. Report!TypeOK
  <2>1. clock \in 2 .. MaxClock /\ next \in Nat /\ faults \in 0 .. MaxFaults
    BY ReportAssumption, DatesOfClock DEF Report!Init
  <2>. QED  BY <1>1, <1>2, <2>1 DEF Report!TypeOK, RunStates
<1>4. RunsApart
  BY <1>1 DEF RunsApart, Holding
<1>5. PostedByClaim
  BY <1>1, <1>2 DEF PostedByClaim
<1>. QED  BY <1>3, <1>4, <1>5 DEF ReportInv

\* A run begins, goes on to its claim, returns or dies: the others keep what they hold.
LEMMA RunMoves ==
    ASSUME ReportInv, NEW r \in Report!Runs, NEW x \in RunStates,
           run' = [run EXCEPT ![r] = x], x.pc \notin Holding,
           x.pc # "idle" => x.date \in Report!Dates,
           audit' = audit, posted' = posted
    PROVE  RunsApart' /\ PostedByClaim'
<1>1. run'[r] = x /\ \A s \in Report!Runs : s # r => run'[s] = run[s] /\ KeyOf(s)' = KeyOf(s)
  BY DEF ReportInv, Report!TypeOK, KeyOf
<1>2. RunsApart'
  BY <1>1 DEF ReportInv, RunsApart
<1>3. PostedByClaim'
  BY <1>1 DEF ReportInv, PostedByClaim, Holding
<1>. QED  BY <1>2, <1>3

\* A run keeps what it holds and goes on, or the row of its report changes.
LEMMA HolderMoves ==
    ASSUME ReportInv, NEW r \in Report!Runs, run[r].pc \in Holding,
           NEW pc \in Holding \cup {"idle"},
           run' = [run EXCEPT ![r] = IF pc = "idle" THEN Report!Idle ELSE [@ EXCEPT !.pc = pc]],
           DOMAIN audit' = DOMAIN audit,
           \A k \in DOMAIN audit : k # KeyOf(r) => audit'[k] = audit[k],
           posted' \in [Report!Dates \X Topics -> Nat],
           \A k \in Report!Dates \X Topics : k # KeyOf(r) => posted'[k] = posted[k],
           posted'[KeyOf(r)] \in {0, 1},
           audit'[KeyOf(r)] = "SENT" => posted'[KeyOf(r)] = 1,
           pc # "send", pc = "sent" => posted'[KeyOf(r)] = 1
    PROVE  RunsApart' /\ PostedByClaim'
<1>. USE DEF Holding
<1>0. KeyOf(r) \in Report!Dates \X Topics /\ KeyOf(r) \in DOMAIN audit
  BY KeyTyped DEF ReportInv, RunsApart
<1>1. \A s \in Report!Runs : s # r => run'[s] = run[s] /\ KeyOf(s)' = KeyOf(s)
  BY DEF ReportInv, Report!TypeOK, KeyOf
<1>2. run'[r].pc = pc /\ (pc # "idle" => KeyOf(r)' = KeyOf(r) /\ run'[r].date = run[r].date)
  BY DEF ReportInv, Report!TypeOK, KeyOf, Report!Idle
<1>3. RunsApart'
  <2>1. \A s \in Report!Runs : run'[s].pc # "idle" => run'[s].date \in Report!Dates
    BY <1>1, <1>2 DEF ReportInv, RunsApart
  <2>2. \A s \in Report!Runs : run'[s].pc \in Holding =>
            run[s].pc \in Holding /\ KeyOf(s)' = KeyOf(s)
    BY <1>1, <1>2
  <2>. QED  BY <2>1, <2>2 DEF ReportInv, RunsApart
<1>4. \A k \in Report!Dates \X Topics :
          /\ posted'[k] \in {0, 1}
          /\ k \notin DOMAIN audit' => posted'[k] = 0
          /\ k \in DOMAIN audit' /\ audit'[k] = "SENT" => posted'[k] = 1
  <2>. TAKE k \in Report!Dates \X Topics
  <2>1. CASE k = KeyOf(r)
    BY <1>0, <2>1
  <2>2. CASE k # KeyOf(r)
    BY <2>2 DEF ReportInv, PostedByClaim
  <2>. QED  BY <2>1, <2>2
<1>5. \A s \in Report!Runs :
          /\ run'[s].pc = "send" => posted'[KeyOf(s)'] = 0
          /\ run'[s].pc = "sent" => posted'[KeyOf(s)'] = 1
  <2>. TAKE s \in Report!Runs
  <2>1. CASE s = r
    BY <1>2, <2>1
  <2>2. CASE s # r /\ run[s].pc \in {"send", "sent"}
    <3>1. KeyOf(s) # KeyOf(r) /\ KeyOf(s) \in Report!Dates \X Topics
      BY <2>2, KeyTyped DEF ReportInv, RunsApart
    <3>. QED  BY <1>1, <2>2, <3>1 DEF ReportInv, PostedByClaim
  <2>. QED  BY <1>1, <2>1, <2>2
<1>6. PostedByClaim'
  BY <1>4, <1>5 DEF PostedByClaim
<1>. QED  BY <1>3, <1>6

\* What a step does to the run it is about.
LEMMA RunTyped ==
    ASSUME ReportInv, NEW r \in Report!Runs, NEW pc \in Report!Steps
    PROVE  /\ run \in [Report!Runs -> RunStates] /\ Report!Idle \in RunStates
           /\ [run[r] EXCEPT !.pc = pc] \in RunStates
           /\ [run[r] EXCEPT !.pc = pc].pc = pc
           /\ [run[r] EXCEPT !.pc = pc].date = run[r].date
           /\ Report!Idle.pc = "idle"
<1>1. run \in [Report!Runs -> RunStates]
  BY DEF ReportInv, Report!TypeOK, RunStates
<1>2. Report!Idle \in RunStates /\ Report!Idle.pc = "idle"
  BY ReportAssumption DEF Report!Idle, RunStates, Report!Steps
<1>. QED  BY <1>1, <1>2 DEF RunStates

\* The clock, the next run time and the fault counter stay in their types.
LEMMA TimesTyped ==
    ASSUME ReportInv, NEW r \in Report!Runs,
           clock' = clock \/ (clock < MaxClock /\ clock' = clock + 1),
           next' = next \/ next' = Report!_next_run_at(clock),
           faults' = faults \/ Report!Fault
    PROVE  clock' \in 2 .. MaxClock /\ next' \in Nat /\ faults' \in 0 .. MaxFaults
<1>1. clock \in 2 .. MaxClock /\ next \in Nat /\ faults \in 0 .. MaxFaults
  BY DEF ReportInv, Report!TypeOK
<1>2. clock' \in 2 .. MaxClock
  BY <1>1, ReportAssumption
<1>3. next' \in Nat
  BY <1>1, DatesOfClock
<1>4. faults' \in 0 .. MaxFaults
  BY <1>1, ReportAssumption DEF Report!Fault
<1>. QED  BY <1>2, <1>3, <1>4

\* Only the clock, the next run time and the fault counter change, or a run that
\* holds nothing afterwards does.
LEMMA QuietStep ==
    ASSUME ReportInv, NEW r \in Report!Runs,
           clock' = clock \/ (clock < MaxClock /\ clock' = clock + 1),
           next' = next \/ next' = Report!_next_run_at(clock),
           faults' = faults \/ Report!Fault,
           audit' = audit, posted' = posted,
           NEW x \in RunStates, x.pc \notin Holding,
           x.pc # "idle" => x.date \in Report!Dates,
           run' = run \/ run' = [run EXCEPT ![r] = x]
    PROVE  ReportInv'
<1>1. clock' \in 2 .. MaxClock /\ next' \in Nat /\ faults' \in 0 .. MaxFaults
  BY TimesTyped
<1>2. run' \in [Report!Runs -> RunStates]
  BY DEF ReportInv, Report!TypeOK, RunStates
<1>3. Report!TypeOK'
  BY <1>1, <1>2 DEF ReportInv, Report!TypeOK, RunStates
<1>4. CASE run' = run
  BY <1>3, <1>4 DEF ReportInv, RunsApart, PostedByClaim, KeyOf
<1>5. CASE run' = [run EXCEPT ![r] = x]
  BY <1>3, <1>5, RunMoves DEF ReportInv
<1>. QED  BY <1>4, <1>5

\* The claim of start_once: an INSERT of a key that is not there yet.
LEMMA ClaimStep ==
    ASSUME ReportInv, NEW r \in Report!Runs, Report!start_once(r)
    PROVE  ReportInv'
<1>1. run[r].pc = "claim" /\ UNCHANGED <<clock, posted, faults>>
  BY DEF Report!start_once
<1>2. Report!Key(r) = KeyOf(r) /\ KeyOf(r) \in Report!Dates \X Topics
  BY <1>1, KeyTyped
<1>3. CASE KeyOf(r) \in DOMAIN audit
  BY <1>1, <1>2, <1>3, QuietStep, RunTyped
     DEF Report!start_once, Report!AfterRun, Holding, Report!Steps
<1>4. CASE KeyOf(r) \notin DOMAIN audit
  <2>1. /\ audit' = [k \in DOMAIN audit \cup {KeyOf(r)} |->
                        IF k = KeyOf(r) THEN "STARTED" ELSE audit[k]]
        /\ run' = [run EXCEPT ![r] = [@ EXCEPT !.pc = "send"]] /\ next' = next
    BY <1>2, <1>4 DEF Report!start_once, Report!Goto
  <2>2. DOMAIN audit' = DOMAIN audit \cup {KeyOf(r)} /\ audit'[KeyOf(r)] = "STARTED"
        /\ \A k \in DOMAIN audit : audit'[k] = audit[k]
    BY <1>4, <2>1
  <2>3. \A s \in Report!Runs : s # r => run'[s] = run[s] /\ KeyOf(s)' = KeyOf(s)
    BY <2>1 DEF ReportInv, Report!TypeOK, KeyOf
  <2>4. run'[r].pc = "send" /\ run'[r].date = run[r].date /\ KeyOf(r)' = KeyOf(r)
    BY <2>1 DEF ReportInv, Report!TypeOK, KeyOf
  <2>5. Report!TypeOK'
    <3>1. run' \in [Report!Runs -> RunStates]
      BY <2>1, RunTyped DEF Report!Steps
    <3>2. \A k \in DOMAIN audit' : k \in Report!Dates \X Nat
                                   /\ audit'[k] \in {"STARTED", "SENT", "FAILED"}
      BY <1>2, <2>2, ReportAssumption DEF ReportInv, Report!TypeOK
    <3>. QED  BY <1>1, <2>1, <3>1, <3>2 DEF ReportInv, Report!TypeOK, RunStates
  <2>6. RunsApart'
    <3>1. \A s \in Report!Runs : s # r /\ run[s].pc \in Holding => KeyOf(s) # KeyOf(r)
      BY <1>4 DEF ReportInv, RunsApart
    <3>. QED
      BY <1>1, <2>2, <2>3, <2>4, <3>1 DEF ReportInv, RunsApart, Holding
  <2>7. PostedByClaim'
    <3>1. posted[KeyOf(r)] = 0
      BY <1>2, <1>4 DEF ReportInv, PostedByClaim
    <3>. QED  BY <1>1, <2>2, <2>3, <2>4, <3>1 DEF ReportInv, PostedByClaim
  <2>. QED  BY <2>5, <2>6, <2>7 DEF ReportInv
<1>. QED  BY <1>3, <1>4

\* The post, and the marks after it, whether they succeed or not.
LEMMA HolderStep ==
    ASSUME ReportInv, NEW r \in Report!Runs,
           Report!SendDocument(r) \/ Report!mark_sent(r) \/ Report!mark_failed(r)
    PROVE  ReportInv'
<1>1. run[r].pc \in Holding /\ clock' = clock
  BY DEF Report!SendDocument, Report!mark_sent, Report!mark_failed, Holding
<1>2. /\ Report!Key(r) = KeyOf(r) /\ KeyOf(r) \in Report!Dates \X Topics
      /\ KeyOf(r) \in DOMAIN audit
  BY <1>1, KeyTyped DEF Holding, ReportInv, RunsApart
<1>3. /\ next' = next \/ next' = Report!_next_run_at(clock)
      /\ faults' = faults \/ Report!Fault
  BY DEF Report!SendDocument, Report!mark_sent, Report!mark_failed, Report!AfterRun, Report!Raised
<1>4. clock' \in 2 .. MaxClock /\ next' \in Nat /\ faults' \in 0 .. MaxFaults
  BY <1>1, <1>3, TimesTyped
<1>5. PICK pc \in {"sent", "failed", "idle"} :
          run' = [run EXCEPT ![r] = IF pc = "idle" THEN Report!Idle ELSE [@ EXCEPT !.pc = pc]]
  <2>1. \/ Report!Goto(r, "sent") \/ Report!Goto(r, "failed") \/ Report!AfterRun(r)
    BY DEF Report!SendDocument, Report!mark_sent, Report!mark_failed, Report!Raised
  <2>. QED  BY <2>1 DEF Report!Goto, Report!AfterRun
<1>6. run' \in [Report!Runs -> RunStates]
  BY <1>5, RunTyped DEF Report!Steps
<1>7. /\ posted' \in [Report!Dates \X Topics -> Nat]
      /\ \A k \in Report!Dates \X Topics : k # KeyOf(r) => posted'[k] = posted[k]
      /\ posted' = posted \/ posted'[KeyOf(r)] = posted[KeyOf(r)] + 1
  <2>1. \/ posted' = posted
        \/ posted' = [posted EXCEPT ![KeyOf(r)] = @ + 1]
    BY DEF Report!SendDocument, Report!mark_sent, Report!mark_failed, KeyOf
  <2>. QED  BY <1>2, <2>1 DEF ReportInv, Report!TypeOK
<1>8. /\ DOMAIN audit' = DOMAIN audit
      /\ \A k \in DOMAIN audit : k # KeyOf(r) => audit'[k] = audit[k]
      /\ \A k \in DOMAIN audit : audit'[k] \in {audit[k], "SENT", "FAILED"}
  <2>1. \/ audit' = audit
        \/ \E st \in {"SENT", "FAILED"} :
              audit' = [k \in DOMAIN audit |-> IF k = KeyOf(r) THEN st ELSE audit[k]]
    BY <1>2 DEF Report!SendDocument, Report!mark_sent, Report!mark_failed, Report!SetStatus
  <2>. QED  BY <2>1
<1>9. Report!TypeOK'
  BY <1>4, <1>6, <1>7, <1>8 DEF ReportInv, Report!TypeOK, RunStates
<1>10. /\ posted'[KeyOf(r)] \in {0, 1}
       /\ audit'[KeyOf(r)] = "SENT" => posted'[KeyOf(r)] = 1
       /\ pc = "sent" => posted'[KeyOf(r)] = 1
  <2>1. CASE Report!SendDocument(r)
    <3>1. posted[KeyOf(r)] = 0 /\ audit' = audit /\ audit[KeyOf(r)] # "SENT"
      BY <1>2, <2>1 DEF Report!SendDocument, ReportInv, PostedByClaim
    <3>2. run'[r].pc = "sent" => posted'[KeyOf(r)] = posted[KeyOf(r)] + 1
      BY <1>2, <2>1, RunTyped
         DEF Report!SendDocument, Report!Goto, Report!Steps, ReportInv, Report!TypeOK, KeyOf
    <3>3. run'[r].pc = pc
      BY <1>5, RunTyped DEF Report!Steps
    <3>. QED  BY <1>7, <3>1, <3>2, <3>3
  <2>2. CASE Report!mark_sent(r)
    <3>1. posted' = posted /\ posted[KeyOf(r)] = 1
      BY <2>2 DEF Report!mark_sent, ReportInv, PostedByClaim
    <3>. QED  BY <3>1
  <2>3. CASE Report!mark_failed(r)
    <3>1. posted' = posted /\ run'[r].pc = "idle"
      BY <2>3 DEF Report!mark_failed, Report!Raised, Report!AfterRun, Report!Idle, ReportInv,
         Report!TypeOK
    <3>2. run'[r].pc = pc
      BY <1>5, RunTyped DEF Report!Steps
    <3>3. audit'[KeyOf(r)] \in {audit[KeyOf(r)], "FAILED"}
      BY <1>2, <2>3 DEF Report!mark_failed, Report!SetStatus
    <3>. QED  BY <1>2, <3>1, <3>2, <3>3 DEF ReportInv, PostedByClaim
  <2>. QED  BY <2>1, <2>2, <2>3
<1>11. RunsApart' /\ PostedByClaim'
  BY <1>1, <1>5, <1>7, <1>8, <1>10, HolderMoves DEF Holding
<1>. QED  BY <1>9, <1>11 DEF ReportInv

\* Every step of the delivery keeps the invariant.
LEMMA ReportStep == ReportInv /\ Report!Next => ReportInv'
<1>. SUFFICES ASSUME ReportInv, Report!Next PROVE ReportInv'
  OBVIOUS
<1>0. Report!scheduler \in Report!Runs /\ clock \in 2 .. MaxClock
  BY DEF Report!Runs, ReportInv, Report!TypeOK
<1>1. CASE Report!Tick
  BY <1>0, <1>1, QuietStep, RunTyped DEF Report!Tick, Holding, Report!Steps
<1>2. CASE Report!ScheduledRun
  <2>1. [pc |-> "read", date |-> Report!_report_date(clock), topic |-> Report!NoTopic] \in RunStates
    BY <1>0, DatesOfClock, ReportAssumption DEF RunStates, Report!Steps
  <2>. QED  BY <1>0, <1>2, <2>1, QuietStep, DatesOfClock DEF Report!ScheduledRun, Holding
<1>3. ASSUME NEW r \in Report!Runs, Report!ManualRun(r) PROVE ReportInv'
  <2>1. PICK d \in 0 .. Report!Today, t \in Topics :
            run' = [run EXCEPT ![r] = [pc |-> "read", date |-> d, topic |-> t]]
    BY <1>3 DEF Report!ManualRun
  <2>2. d \in Report!Dates
    BY <1>0, <2>1, DatesOfClock DEF Report!Today
  <2>3. [pc |-> "read", date |-> d, topic |-> t] \in RunStates
    BY <2>2 DEF RunStates, Report!Steps
  <2>. QED  BY <1>3, <2>1, <2>2, <2>3, QuietStep DEF Report!ManualRun, Holding
<1>4. ASSUME NEW r \in Report!Runs, Report!Render(r) PROVE ReportInv'
  <2>1. run[r].date \in Report!Dates
    BY <1>4 DEF Report!Render, ReportInv, RunsApart
  <2>2. CASE Report!Goto(r, "claim") /\ UNCHANGED <<next, faults>>
    <3>1. [run[r] EXCEPT !.pc = "claim"] \in RunStates
          /\ [run[r] EXCEPT !.pc = "claim"].pc = "claim"
          /\ [run[r] EXCEPT !.pc = "claim"].date = run[r].date
      BY RunTyped DEF Report!Steps
    <3>. QED
      BY <1>4, <2>1, <2>2, <3>1, QuietStep DEF Report!Render, Report!Goto, Holding
  <2>3. CASE Report!AfterRun(r)
    BY <1>4, <2>3, QuietStep, RunTyped
       DEF Report!Render, Report!AfterRun, Report!Raised, Holding, Report!Steps
  <2>. QED  BY <1>4, <2>2, <2>3 DEF Report!Render, Report!Raised
<1>5. ASSUME NEW r \in Report!Runs, Report!Killed(r) PROVE ReportInv'
  BY <1>5, QuietStep, RunTyped DEF Report!Killed, Report!AfterRun, Holding, Report!Steps
<1>6. ASSUME NEW r \in Report!Runs, Report!RunStep(r) PROVE ReportInv'
  BY <1>4, <1>6, ClaimStep, HolderStep DEF Report!RunStep
<1>. QED  BY <1>1, <1>2, <1>3, <1>5, <1>6 DEF Report!Next

\* The daily report is posted at most once for a date and a topic, and a row SENT is the
\* truth, for every number of overlapping runs, topics, days and faults.
THEOREM ReportPostedOnce == Spec => []DeliverySound
<1>1. Init => ReportInv
  BY ReportInit DEF Init
<1>2. ReportInv /\ [Next]_<<part, runnerVars, queryVars, reportVars, menuVars>> => ReportInv'
  <2>1. ASSUME ReportInv, UNCHANGED reportVars PROVE ReportInv'
    BY <2>1 DEF reportVars, ReportInv, Report!TypeOK, RunsApart, PostedByClaim, KeyOf
  <2>. QED  BY <2>1, ReportStep DEF Next
<1>3. ReportInv => DeliverySound
  <2>. SUFFICES ASSUME ReportInv
                PROVE  Report!DeliveredAtMostOnce /\ Report!SentMeansDelivered
    BY DEF ReportInv, DeliverySound
  <2>1. Report!DeliveredAtMostOnce
    BY DEF ReportInv, Report!TypeOK, PostedByClaim, Report!DeliveredAtMostOnce
  <2>2. Report!SentMeansDelivered
    BY DEF ReportInv, PostedByClaim, Report!SentMeansDelivered, Report!_thread_key
  <2>. QED  BY <2>1, <2>2
<1>. QED  BY <1>1, <1>2, <1>3, PTL DEF Spec

-----------------------------------------------------------------------------
(* The menus *)

\* The menus that the system shows without those of FAQ answers.
ShownMenus == {"main", "deposit", "withdrawal", "other"}

\* What the customer has on the screen once everything queued is sent.
Screen == IF outbox = <<>> THEN shown ELSE outbox[Len(outbox)]

\* An input is one that the screen allowed.
InputTrue(e) ==
    e.input.kind \in {"click", "label"} =>
        e.shown \in ShownMenus /\ e.input.button \in Menus!Range(Menus!MENUS[e.shown])

MenusTyped ==
    /\ memory \in [context : Menus!Contexts, previous : Menus!Contexts]
    /\ outbox \in Seq(ShownMenus) /\ shown \in ShownMenus \cup {Menus!NoMenu}
    /\ inbox \in Seq(Menus!Entries) /\ last \in Menus!Entries
    /\ human \in BOOLEAN /\ patient \in BOOLEAN /\ inputs \in 0 .. MaxInputs
    /\ \A k \in DOMAIN inbox : InputTrue(inbox[k])

\* The menu memory knows the screen, while the customer waits for each answer.
MemoryKnowsScreen ==
    patient => /\ Screen # Menus!NoMenu => memory.context = Screen
               /\ \A k \in DOMAIN inbox : inbox[k].patient

\* What a patient customer wrote is the next input, and the screen is still the same.
PatientIsNext ==
    \A k \in DOMAIN inbox : inbox[k].input.kind # "start" /\ inbox[k].patient =>
        /\ k = 1 /\ outbox = <<>> /\ inbox[k].shown = shown
        /\ shown # Menus!NoMenu => memory.context = shown

MenusInv == MenusTyped /\ MemoryKnowsScreen /\ PatientIsNext /\ Menus!PickMeansShownItem

\* The menus as the customer sees them.
LEMMA MenuItems ==
    /\ DOMAIN Menus!MENUS = {"main", "deposit", "withdrawal", "other", "main_recovery",
                             "deposit_recovery", "withdrawal_recovery", "other_recovery"}
    /\ Menus!MENUS["main"] = Menus!MainMenu /\ Menus!MENUS["deposit"] = Menus!DepositMenu
    /\ Menus!MENUS["withdrawal"] = Menus!WithdrawalMenu /\ Menus!MENUS["other"] = Menus!OtherMenu
BY DEF Menus!MENUS

LEMMA ItemsAre ==
    /\ Menus!Range(Menus!MainMenu) =
          {"deposit_menu", "withdrawal_menu", "main_pending_reply", "other_menu"}
    /\ Menus!Range(Menus!DepositMenu) = {"main_deposito", "deposit_howto"}
    /\ Menus!Range(Menus!WithdrawalMenu) =
          {"main_retiro", "withdrawal_blocked", "withdrawal_howto", "global_human"}
    /\ Menus!Range(Menus!OtherMenu) = {"forgot_password", "global_human"}
    /\ Len(Menus!MainMenu) = 4 /\ Len(Menus!DepositMenu) = 2
    /\ Len(Menus!WithdrawalMenu) = 4 /\ Len(Menus!OtherMenu) = 2
<1>1. Menus!Range(Menus!MainMenu) =
          {"deposit_menu", "withdrawal_menu", "main_pending_reply", "other_menu"}
      /\ Len(Menus!MainMenu) = 4
  BY DEF Menus!Range, Menus!MainMenu
<1>2. Menus!Range(Menus!DepositMenu) = {"main_deposito", "deposit_howto"} /\ Len(Menus!DepositMenu) = 2
  BY DEF Menus!Range, Menus!DepositMenu
<1>3. Menus!Range(Menus!WithdrawalMenu) =
          {"main_retiro", "withdrawal_blocked", "withdrawal_howto", "global_human"}
      /\ Len(Menus!WithdrawalMenu) = 4
  BY DEF Menus!Range, Menus!WithdrawalMenu
<1>4. Menus!Range(Menus!OtherMenu) = {"forgot_password", "global_human"} /\ Len(Menus!OtherMenu) = 2
  BY DEF Menus!Range, Menus!OtherMenu
<1>. QED  BY <1>1, <1>2, <1>3, <1>4

\* A menu is a sequence of its items.
LEMMA MenuParts ==
    ASSUME NEW m \in ShownMenus
    PROVE  /\ Len(Menus!MENUS[m]) \in 1 .. 4 /\ DOMAIN Menus!MENUS[m] = 1 .. Len(Menus!MENUS[m])
           /\ \A n \in 1 .. Len(Menus!MENUS[m]) : Menus!MENUS[m][n] \in Menus!Range(Menus!MENUS[m])
           /\ Menus!Range(Menus!MENUS[m]) \subseteq Menus!Buttons
<1>1. /\ DOMAIN Menus!MainMenu = 1 .. Len(Menus!MainMenu)
      /\ DOMAIN Menus!DepositMenu = 1 .. Len(Menus!DepositMenu)
      /\ DOMAIN Menus!WithdrawalMenu = 1 .. Len(Menus!WithdrawalMenu)
      /\ DOMAIN Menus!OtherMenu = 1 .. Len(Menus!OtherMenu)
  BY DEF Menus!MainMenu, Menus!DepositMenu, Menus!WithdrawalMenu, Menus!OtherMenu
<1>2. Len(Menus!MENUS[m]) \in 1 .. 4 /\ DOMAIN Menus!MENUS[m] = 1 .. Len(Menus!MENUS[m])
  BY <1>1, MenuItems, ItemsAre DEF ShownMenus
<1>3. m \in DOMAIN Menus!MENUS
  BY MenuItems DEF ShownMenus
<1>. QED  BY <1>2, <1>3 DEF Menus!Range, Menus!Buttons

\* A digit is the place in the menu that is visible, if one is.
LEMMA NthOfMenu ==
    ASSUME NEW m \in ShownMenus, NEW n \in Menus!Digits
    PROVE  Menus!NthButton(m, n) =
              IF n <= Len(Menus!MENUS[m]) THEN Menus!MENUS[m][n] ELSE Menus!NoButton
<1>1. PICK menus : menus = <<m>>
  OBVIOUS
<1>2. Menus!Visible(m) = menus
  BY <1>1 DEF Menus!Visible, Menus!NoMenu, ShownMenus
<1>3. PICK places : places = {k \in DOMAIN menus : n <= Len(Menus!MENUS[menus[k]])}
  OBVIOUS
<1>4. places = IF n <= Len(Menus!MENUS[m]) THEN {1} ELSE {}
  BY <1>1, <1>3
<1>5. Menus!Min({1}) = 1
  BY DEF Menus!Min
<1>6. Menus!NthButton(m, n) =
         IF places = {} THEN Menus!NoButton ELSE Menus!MENUS[menus[Menus!Min(places)]][n]
  BY <1>2, <1>3 DEF Menus!NthButton
<1>. QED  BY <1>1, <1>4, <1>5, <1>6

LEMMA NthOfAll ==
    ASSUME NEW n \in Menus!Digits
    PROVE  Menus!NthButton(Menus!NoMenu, n) \in Menus!Buttons \cup {Menus!NoButton}
<1>1. PICK menus : menus = <<"main", "deposit", "withdrawal", "other">>
  OBVIOUS
<1>2. Menus!Visible(Menus!NoMenu) = menus
  BY <1>1 DEF Menus!Visible
<1>3. PICK places : places = {k \in DOMAIN menus : n <= Len(Menus!MENUS[menus[k]])}
  OBVIOUS
<1>4. Menus!NthButton(Menus!NoMenu, n) =
         IF places = {} THEN Menus!NoButton ELSE Menus!MENUS[menus[Menus!Min(places)]][n]
  BY <1>2, <1>3 DEF Menus!NthButton
<1>5. DOMAIN menus = 1 .. 4 /\ \A k \in 1 .. 4 : menus[k] \in ShownMenus
  BY <1>1 DEF ShownMenus
<1>6. ASSUME places # {} PROVE Menus!Min(places) \in places
  <2>1. places \subseteq {1, 2, 3, 4}
    BY <1>3, <1>5
  <2>2. \E k \in places : \A j \in places : k <= j
    <3>1. CASE 1 \in places
      BY <2>1, <3>1
    <3>2. CASE 1 \notin places /\ 2 \in places
      BY <2>1, <3>2
    <3>3. CASE 1 \notin places /\ 2 \notin places /\ 3 \in places
      BY <2>1, <3>3
    <3>4. CASE 1 \notin places /\ 2 \notin places /\ 3 \notin places
      <4>1. places = {4}
        BY <1>6, <2>1, <3>4
      <4>. QED  BY <4>1
    <3>. QED  BY <3>1, <3>2, <3>3, <3>4
  <2>. QED  BY <2>2 DEF Menus!Min
<1>7. ASSUME NEW k \in places PROVE Menus!MENUS[menus[k]][n] \in Menus!Buttons
  <2>1. menus[k] \in ShownMenus /\ n <= Len(Menus!MENUS[menus[k]]) /\ n \in 1 .. 5
    BY <1>3, <1>5 DEF Menus!Digits
  <2>. QED  BY <2>1, MenuParts
<1>. QED  BY <1>4, <1>6, <1>7

\* What an input is taken for: one of the buttons or none.
LEMMA FastIsButton ==
    ASSUME NEW e \in Menus!Entries, NEW context \in Menus!Contexts
    PROVE  /\ Menus!_extract_livechat_button_id(e.input, context) \in Menus!Buttons \cup {Menus!NoButton}
           /\ Menus!detect_button_id(e.input, context) \in Menus!Buttons \cup {Menus!NoButton}
<1>1. /\ e.input.kind = "digit" => e.input.n \in Menus!Digits
      /\ e.input.kind \in {"click", "label", "words"} => e.input.button \in Menus!Buttons
  BY DEF Menus!Entries, Menus!Nothing, Menus!FreeText, Menus!Start, Menus!Digit, Menus!Click,
         Menus!Label, Menus!Words
<1>2. e.input.kind = "digit" =>
         Menus!NthButton(context, e.input.n) \in Menus!Buttons \cup {Menus!NoButton}
  <2>1. CASE context = Menus!NoMenu
    BY <1>1, <2>1, NthOfAll
  <2>2. CASE context \in ShownMenus
    <3>1. \A n \in 1 .. 5 : Menus!NthButton(context, n) \in Menus!Buttons \cup {Menus!NoButton}
      BY <2>2, NthOfMenu, MenuParts DEF Menus!Digits
    <3>. QED  BY <1>1, <3>1 DEF Menus!Digits
  <2>. QED  BY <2>1, <2>2 DEF Menus!Contexts, ShownMenus
<1>. QED  BY <1>1, <1>2 DEF Menus!_extract_livechat_button_id,
             Menus!_detect_visible_menu_button_label, Menus!detect_button_id

\* While the memory knows the menu on the screen, its items are found.
LEMMA FastIsMeant ==
    ASSUME NEW e \in Menus!Entries, InputTrue(e), e.shown \in ShownMenus,
           e.input.kind \in {"digit", "label"},
           e.input.kind = "digit" => e.input.n <= Len(Menus!MENUS[e.shown])
    PROVE  /\ Menus!_extract_livechat_button_id(e.input, e.shown) = Menus!Meant(e)
           /\ Menus!Meant(e) # Menus!NoButton
<1>1. PICK m \in ShownMenus : m = e.shown
  OBVIOUS
<1>2. e.input.kind = "digit" => e.input.n \in Menus!Digits /\ e.input.n \in 1 .. Len(Menus!MENUS[m])
  <2>1. e.input.kind = "digit" => e.input.n \in Menus!Digits
    BY DEF Menus!Entries, Menus!Nothing, Menus!FreeText, Menus!Start, Menus!Digit, Menus!Click,
           Menus!Label, Menus!Words
  <2>. QED  BY <1>1, <2>1, MenuParts DEF Menus!Digits
<1>3. Menus!Range(Menus!Visible(m)) = {m}
  BY DEF Menus!Visible, Menus!NoMenu, ShownMenus, Menus!Range
<1>4. \A b \in Menus!Range(Menus!MENUS[m]) : b # Menus!NoButton
  BY MenuItems, ItemsAre DEF ShownMenus, Menus!NoButton
<1>5. CASE e.input.kind = "digit"
  <2>1. Menus!_extract_livechat_button_id(e.input, m) = Menus!NthButton(m, e.input.n)
    BY <1>5 DEF Menus!_extract_livechat_button_id, Menus!_detect_visible_menu_button_label
  <2>2. Menus!NthButton(m, e.input.n) = Menus!MENUS[m][e.input.n]
    BY <1>2, <1>5, NthOfMenu
  <2>3. Menus!MENUS[m][e.input.n] \in Menus!Range(Menus!MENUS[m])
    BY <1>2, <1>5, MenuParts
  <2>. QED  BY <1>1, <1>4, <1>5, <2>1, <2>2, <2>3 DEF Menus!Meant
<1>6. CASE e.input.kind = "label"
  <2>1. e.input.button \in Menus!Range(Menus!MENUS[m])
    BY <1>1, <1>6 DEF InputTrue
  <2>2. Menus!_extract_livechat_button_id(e.input, m) = e.input.button
    BY <1>3, <1>6, <2>1 DEF Menus!_extract_livechat_button_id, Menus!_detect_visible_menu_button_label
  <2>. QED  BY <1>1, <1>4, <1>6, <2>1, <2>2 DEF Menus!Meant
<1>. QED  BY <1>5, <1>6

\* What a button of the menu on the screen leaves in the memory: its menu.
LEMMA ButtonKeepsMenu ==
    ASSUME NEW m \in ShownMenus, NEW b \in Menus!Range(Menus!MENUS[m]),
           b \notin Menus!NavButtons, b # "global_human", NEW mem, mem.context = m
    PROVE  Menus!ButtonContext(b, mem) = m
<1>1. Menus!NavButtons = {"deposit_menu", "withdrawal_menu", "other_menu", "route_main", "route_previous"}
  BY DEF Menus!NavButtons, Menus!MENU_BY_NAV_BUTTON
<1>2. \/ m = "main" /\ b = "main_pending_reply"
      \/ m = "deposit" /\ b \in {"main_deposito", "deposit_howto"}
      \/ m = "withdrawal" /\ b \in {"main_retiro", "withdrawal_blocked", "withdrawal_howto"}
      \/ m = "other" /\ b = "forgot_password"
  BY <1>1, MenuItems, ItemsAre DEF ShownMenus
<1>. QED  BY <1>2 DEF Menus!ButtonContext

\* A navigation button opens a menu that the memory then holds.
LEMMA NavOpensMenu ==
    ASSUME NEW mem \in [context : Menus!Contexts, previous : Menus!Contexts], NEW b \in Menus!NavButtons
    PROVE  /\ Menus!_navigation_menu_key(b, mem) \in ShownMenus
           /\ Menus!_next_menu_memory(mem, b).context = Menus!_navigation_menu_key(b, mem)
<1>1. DOMAIN Menus!MENU_BY_NAV_BUTTON = {"deposit_menu", "withdrawal_menu", "other_menu"}
      /\ Menus!MENU_BY_NAV_BUTTON["deposit_menu"] = "deposit"
      /\ Menus!MENU_BY_NAV_BUTTON["withdrawal_menu"] = "withdrawal"
      /\ Menus!MENU_BY_NAV_BUTTON["other_menu"] = "other"
  BY DEF Menus!MENU_BY_NAV_BUTTON
<1>2. Menus!Previous(mem) \in ShownMenus
  BY DEF Menus!Previous, Menus!Contexts, Menus!NoMenu, ShownMenus
<1>3. b \in {"deposit_menu", "withdrawal_menu", "other_menu", "route_main", "route_previous"}
  BY <1>1 DEF Menus!NavButtons
<1>4. CASE b \in {"deposit_menu", "withdrawal_menu", "other_menu"}
  BY <1>1, <1>4 DEF Menus!_navigation_menu_key, Menus!_next_menu_memory, ShownMenus
<1>5. CASE b = "route_main"
  BY <1>1, <1>5 DEF Menus!_navigation_menu_key, Menus!_next_menu_memory, ShownMenus
<1>6. CASE b = "route_previous"
  BY <1>1, <1>2, <1>6 DEF Menus!_navigation_menu_key, Menus!_next_menu_memory
<1>. QED  BY <1>3, <1>4, <1>5, <1>6

\* The memories a button leaves are memories.
LEMMA MemoryTyped ==
    ASSUME NEW mem \in [context : Menus!Contexts, previous : Menus!Contexts], NEW b
    PROVE  /\ Menus!_next_menu_memory(mem, b) \in [context : Menus!Contexts, previous : Menus!Contexts]
           /\ Menus!_business_button_menu_memory(mem, b) \in
                 [context : Menus!Contexts, previous : Menus!Contexts]
<1>1. Menus!Context(mem) \in Menus!Contexts /\ Menus!Previous(mem) \in Menus!Contexts
      /\ "main" \in Menus!Contexts
  BY DEF Menus!Context, Menus!Previous, Menus!Contexts, Menus!NoMenu
<1>2. Menus!ButtonContext(b, mem) \in Menus!Contexts
  BY <1>1 DEF Menus!ButtonContext, Menus!Contexts
<1>3. Menus!_business_button_menu_memory(mem, b) \in [context : Menus!Contexts, previous : Menus!Contexts]
  BY <1>1, <1>2 DEF Menus!_business_button_menu_memory
<1>4. ASSUME b \in Menus!NavButtons
      PROVE  Menus!_next_menu_memory(mem, b) \in [context : Menus!Contexts, previous : Menus!Contexts]
  <2>1. Menus!_navigation_menu_key(b, mem) \in Menus!Contexts
    BY <1>4, NavOpensMenu DEF ShownMenus, Menus!Contexts
  <2>2. DOMAIN Menus!MENU_BY_NAV_BUTTON = {"deposit_menu", "withdrawal_menu", "other_menu"}
    BY DEF Menus!MENU_BY_NAV_BUTTON
  <2>3. CASE b = "route_previous"
    BY <1>1, <2>2, <2>3 DEF Menus!_next_menu_memory
  <2>4. CASE b # "route_previous"
    BY <1>1, <1>4, <2>1, <2>2, <2>4 DEF Menus!_next_menu_memory, Menus!NavButtons
  <2>. QED  BY <2>3, <2>4
<1>5. ASSUME b \notin Menus!NavButtons
      PROVE  Menus!_next_menu_memory(mem, b) \in [context : Menus!Contexts, previous : Menus!Contexts]
  <2>1. Menus!_next_menu_memory(mem, b) = [mem EXCEPT !.context = Menus!Context(mem)]
    BY <1>5 DEF Menus!_next_menu_memory, Menus!NavButtons
  <2>. QED  BY <1>1, <2>1
<1>. QED  BY <1>3, <1>4, <1>5

\* Without menus in FAQ answers a turn queues what its button opens.
LEMMA NoFaqMenus ==
    ASSUME FaqMenus = {}
    PROVE  Menus!FaqAnswers = {<<>>}
BY DEF Menus!FaqAnswers

LEMMA Appended ==
    ASSUME NEW S, NEW s \in Seq(S), NEW e \in S
    PROVE  Append(s, e) \in Seq(S) /\ Append(s, e) # <<>> /\ Append(s, e)[Len(Append(s, e))] = e
<1>1. Append(s, e) \in Seq(S) /\ Len(Append(s, e)) = Len(s) + 1 /\ Len(s) \in Nat
      /\ Append(s, e)[Len(s) + 1] = e
  OBVIOUS
<1>. QED  BY <1>1

\* While the memory knows the screen, a button is one of its items.
LEMMA FastIsOnScreen ==
    ASSUME NEW e \in Menus!Entries, InputTrue(e), e.shown \in ShownMenus,
           Menus!_extract_livechat_button_id(e.input, e.shown) # Menus!NoButton
    PROVE  Menus!_extract_livechat_button_id(e.input, e.shown) \in Menus!Range(Menus!MENUS[e.shown])
<1>1. PICK m \in ShownMenus : m = e.shown
  OBVIOUS
<1>2. e.input.kind = "digit" => e.input.n \in Menus!Digits
  BY DEF Menus!Entries, Menus!Nothing, Menus!FreeText, Menus!Start, Menus!Digit, Menus!Click,
         Menus!Label, Menus!Words
<1>3. CASE e.input.kind = "digit"
  <2>1. Menus!_extract_livechat_button_id(e.input, m) = Menus!NthButton(m, e.input.n)
    BY <1>3 DEF Menus!_extract_livechat_button_id, Menus!_detect_visible_menu_button_label
  <2>2. e.input.n \in 1 .. Len(Menus!MENUS[m])
    BY <1>1, <1>2, <1>3, <2>1, NthOfMenu, MenuParts DEF Menus!Digits
  <2>. QED  BY <1>1, <1>2, <1>3, <2>1, <2>2, NthOfMenu, MenuParts
<1>4. CASE e.input.kind \in {"click", "label"}
  BY <1>4 DEF InputTrue, Menus!_extract_livechat_button_id, Menus!_detect_visible_menu_button_label
<1>5. CASE e.input.kind \notin {"digit", "click", "label"}
  BY <1>5 DEF Menus!_extract_livechat_button_id, Menus!_detect_visible_menu_button_label
<1>. QED  BY <1>3, <1>4, <1>5

LEMMA MenusTypes == MenusTyped => Menus!TypeOK
<1>. SUFFICES ASSUME MenusTyped PROVE Menus!TypeOK
  OBVIOUS
<1>1. Menus!Range(outbox) \subseteq ShownMenus /\ Menus!Range(inbox) \subseteq Menus!Entries
  BY DEF MenusTyped, Menus!Range
<1>. QED  BY <1>1, MenuItems DEF MenusTyped, Menus!TypeOK, ShownMenus

LEMMA MenusInit == Menus!Init => MenusInv
<1>. SUFFICES ASSUME Menus!Init PROVE MenusInv
  OBVIOUS
<1>1. MenusTyped
  <2>1. last \in Menus!Entries
    BY DEF Menus!Init, Menus!Entries
  <2>2. inputs \in 0 .. MaxInputs
    BY MenuAssumption DEF Menus!Init
  <2>3. memory \in [context : Menus!Contexts, previous : Menus!Contexts]
    BY DEF Menus!Init, Menus!Contexts
  <2>4. <<>> \in Seq(ShownMenus) /\ <<>> \in Seq(Menus!Entries) /\ DOMAIN <<>> = {}
    OBVIOUS
  <2>5. outbox = <<>> /\ inbox = <<>> /\ shown = Menus!NoMenu /\ human \in BOOLEAN /\ patient \in BOOLEAN
    BY DEF Menus!Init
  <2>. QED  BY <2>1, <2>2, <2>3, <2>4, <2>5 DEF MenusTyped
<1>2. MemoryKnowsScreen /\ PatientIsNext
  BY DEF Menus!Init, MemoryKnowsScreen, PatientIsNext, Screen
<1>3. Menus!PickMeansShownItem
  BY DEF Menus!Init, Menus!PickMeansShownItem
<1>. QED  BY <1>1, <1>2, <1>3 DEF MenusInv

\* The oldest menu leaves the outbox: the rest is what waited behind it.
LEMMA OutboxTail ==
    ASSUME NEW S, NEW s \in Seq(S), s # <<>>
    PROVE  /\ Head(s) \in S /\ Tail(s) \in Seq(S) /\ Len(s) \in Nat \ {0}
           /\ IF Tail(s) = <<>> THEN Head(s) = s[Len(s)] ELSE Tail(s)[Len(Tail(s))] = s[Len(s)]
<1>1. /\ Tail(s) \in Seq(S) /\ Len(Tail(s)) = Len(s) - 1 /\ Len(s) \in Nat /\ Len(s) # 0
      /\ Head(s) = s[1] /\ s[1] \in S
      /\ \A k \in 1 .. Len(Tail(s)) : Tail(s)[k] = s[k + 1]
  OBVIOUS
<1>2. CASE Tail(s) = <<>>
  <2>1. Len(Tail(s)) = 0
    <3>1. DOMAIN <<>> = {} /\ DOMAIN Tail(s) = 1 .. Len(Tail(s)) /\ Len(Tail(s)) \in Nat
      BY <1>1
    <3>2. PICK l \in Nat : l = Len(Tail(s))
      BY <3>1
    <3>3. l # 0 => 1 \in 1 .. l
      OBVIOUS
    <3>4. DOMAIN Tail(s) = {}
      BY <1>2, <3>1
    <3>5. 1 .. l = {}
      BY <3>1, <3>2, <3>4
    <3>. QED  BY <3>2, <3>3, <3>5
  <2>2. Len(s) = 1
    <3>1. PICK l \in Nat : l = Len(s)
      BY <1>1
    <3>. QED  BY <1>1, <2>1, <3>1
  <2>. QED  BY <1>1, <1>2, <2>2
<1>3. CASE Tail(s) # <<>>
  <2>1. Len(Tail(s)) # 0
    BY <1>1, <1>3
  <2>2. Len(Tail(s)) \in 1 .. Len(Tail(s)) /\ Len(Tail(s)) + 1 = Len(s)
    BY <1>1, <2>1
  <2>. QED  BY <1>1, <1>3, <2>2
<1>. QED  BY <1>2, <1>3

LEMMA SendSound ==
    ASSUME MenusInv, Menus!Send \/ Menus!SendFails
    PROVE  MenusInv'
<1>1. /\ outbox # <<>> /\ outbox' = Tail(outbox) /\ UNCHANGED <<memory, inbox, human, inputs, last>>
      /\ \/ shown' = Head(outbox) /\ patient' = patient
         \/ shown' = shown /\ patient' = FALSE
  BY DEF Menus!Send, Menus!SendFails
<1>2. MenusTyped /\ MemoryKnowsScreen /\ PatientIsNext /\ Menus!PickMeansShownItem
  BY DEF MenusInv
<1>3. /\ Head(outbox) \in ShownMenus /\ Tail(outbox) \in Seq(ShownMenus)
      /\ IF Tail(outbox) = <<>> THEN Head(outbox) = outbox[Len(outbox)]
         ELSE Tail(outbox)[Len(Tail(outbox))] = outbox[Len(outbox)]
  BY <1>1, <1>2, OutboxTail DEF MenusTyped
<1>4. MenusTyped'
  BY <1>1, <1>2, <1>3 DEF MenusTyped, InputTrue
<1>5. patient' => patient /\ Screen' = Screen
  BY <1>1, <1>2, <1>3 DEF Screen, MenusTyped
<1>6. MemoryKnowsScreen'
  BY <1>1, <1>2, <1>5 DEF MemoryKnowsScreen
<1>7. PatientIsNext'
  BY <1>1, <1>2 DEF PatientIsNext
<1>8. Menus!PickMeansShownItem'
  BY <1>1, <1>2 DEF Menus!PickMeansShownItem, Menus!Meant
<1>. QED  BY <1>4, <1>6, <1>7, <1>8 DEF MenusInv

\* One more event waits.
LEMMA Arrives ==
    ASSUME MenusInv, NEW e \in Menus!Entries, InputTrue(e), inbox' = Append(inbox, e),
           UNCHANGED <<memory, outbox, shown, human, last>>, inputs' \in 0 .. MaxInputs,
           patient' \in BOOLEAN, patient' => patient /\ e.patient,
           e.input.kind # "start" /\ e.patient => patient /\ inbox = <<>> /\ outbox = <<>> /\ e.shown = shown
    PROVE  MenusInv'
<1>1. MenusTyped /\ MemoryKnowsScreen /\ PatientIsNext /\ Menus!PickMeansShownItem
  BY DEF MenusInv
<1>2. /\ inbox' \in Seq(Menus!Entries) /\ Len(inbox) \in Nat /\ DOMAIN inbox = 1 .. Len(inbox)
      /\ DOMAIN inbox' = 1 .. Len(inbox) + 1 /\ inbox'[Len(inbox) + 1] = e
      /\ \A k \in DOMAIN inbox : inbox'[k] = inbox[k]
  <2>1. inbox \in Seq(Menus!Entries)
    BY <1>1 DEF MenusTyped
  <2>. QED  BY <2>1
<1>3. \A k \in DOMAIN inbox' : k \in DOMAIN inbox \/ k = Len(inbox) + 1
  BY <1>2
<1>4. MenusTyped'
  BY <1>1, <1>2, <1>3 DEF MenusTyped, InputTrue
<1>5. MemoryKnowsScreen'
  BY <1>1, <1>2, <1>3 DEF MemoryKnowsScreen, Screen
<1>6. PatientIsNext'
  <2>1. e.input.kind # "start" /\ e.patient =>
           Len(inbox) = 0 /\ (shown # Menus!NoMenu => memory.context = shown)
    BY <1>1, <1>2 DEF MemoryKnowsScreen, Screen
  <2>. QED  BY <1>1, <1>2, <1>3, <2>1 DEF PatientIsNext
<1>7. Menus!PickMeansShownItem'
  BY <1>1 DEF Menus!PickMeansShownItem, Menus!Meant
<1>. QED  BY <1>4, <1>5, <1>6, <1>7 DEF MenusInv

\* An input is written, or a chat reported as started.
LEMMA EventSound ==
    ASSUME MenusInv, Menus!Started \/ Menus!CustomerWrites
    PROVE  MenusInv'
<1>1. MenusTyped /\ inputs' \in 0 .. MaxInputs
      /\ UNCHANGED <<memory, outbox, shown, human, last>>
  BY MenuAssumption DEF MenusInv, MenusTyped, Menus!Started, Menus!CustomerWrites
<1>2. \A m \in ShownMenus : m \in DOMAIN Menus!MENUS
  BY MenuItems DEF ShownMenus
<1>3. CASE Menus!Started
  <2>1. PICK e : e = [input |-> Menus!Start, shown |-> shown, patient |-> patient,
                      button |-> Menus!NoButton]
    OBVIOUS
  <2>3. e \in Menus!Entries /\ e.input.kind = "start" /\ e.patient = patient
    BY <1>1, <1>2, <2>1 DEF MenusTyped, Menus!Entries, Menus!Start
  <2>4. inbox' = Append(inbox, e) /\ patient' = patient
    BY <1>3, <2>1 DEF Menus!Started
  <2>5. InputTrue(e)
    BY <2>3 DEF InputTrue
  <2>. QED  BY <1>1, <2>3, <2>4, <2>5, Arrives DEF MenusTyped
<1>4. CASE Menus!CustomerWrites
  <2>1. PICK input \in Menus!CustomerInputs :
           inbox' = Append(inbox, [input |-> input, shown |-> shown, patient |-> patient',
                                   button |-> Menus!NoButton])
    BY <1>4 DEF Menus!CustomerWrites
  <2>2. patient' = (patient /\ inbox = <<>> /\ outbox = <<>>)
    BY <1>4 DEF Menus!CustomerWrites
  <2>3. PICK p \in BOOLEAN : p = patient'
    BY <2>2
  <2>4. PICK e : e = [input |-> input, shown |-> shown, patient |-> p, button |-> Menus!NoButton]
    OBVIOUS
  <2>5. inbox' = Append(inbox, e)
    BY <2>1, <2>3, <2>4
  <2>6. /\ input \in {Menus!FreeText} \cup {Menus!Digit(n) : n \in Menus!Digits}
                \cup {Menus!Click(b) : b \in Menus!Buttons} \cup {Menus!Label(b) : b \in Menus!Buttons}
                \cup {Menus!Words(b) : b \in Menus!Buttons}
        /\ input.kind \in {"click", "label"} =>
              shown \in ShownMenus /\ input.button \in Menus!Range(Menus!MENUS[shown])
    <3>1. CASE input = Menus!FreeText
      BY <3>1 DEF Menus!FreeText
    <3>2. CASE input \in {Menus!Digit(n) : n \in Menus!Digits}
      BY <3>2 DEF Menus!Digit
    <3>3. ASSUME NEW b \in {"deposit_menu", "forgot_password", "route_previous", "route_main",
                            "global_human"}, input = Menus!Words(b)
          PROVE  <2>6!1 /\ <2>6!2
      <4>1. b \in Menus!Buttons
        <5>1. Menus!MENUS["main_recovery"] = <<"route_previous", "route_main", "global_human">>
          BY DEF Menus!MENUS, Menus!RecoveryMenu
        <5>2. {"route_previous", "route_main", "global_human"} \subseteq
                 Menus!Range(Menus!MENUS["main_recovery"])
          BY <5>1 DEF Menus!Range
        <5>3. "main_recovery" \in DOMAIN Menus!MENUS
          BY MenuItems
        <5>4. "deposit_menu" \in Menus!Buttons /\ "forgot_password" \in Menus!Buttons
          BY MenuItems, ItemsAre, MenuParts DEF ShownMenus
        <5>. QED  BY <5>2, <5>3, <5>4 DEF Menus!Buttons
      <4>. QED  BY <3>3, <4>1 DEF Menus!Words
    <3>4. ASSUME shown # Menus!NoMenu, NEW b \in Menus!Range(Menus!MENUS[shown]),
                 input = Menus!Click(b) \/ input = Menus!Label(b)
          PROVE  <2>6!1 /\ <2>6!2
      <4>1. shown \in ShownMenus /\ b \in Menus!Buttons
        BY <1>1, <3>4, MenuParts DEF MenusTyped
      <4>. QED  BY <3>4, <4>1 DEF Menus!Click, Menus!Label
    <3>. QED  BY <2>1, <3>1, <3>2, <3>3, <3>4 DEF Menus!CustomerInputs
  <2>7. e \in Menus!Entries /\ InputTrue(e) /\ e.patient = patient' /\ e.shown = shown
    BY <1>1, <1>2, <2>3, <2>4, <2>6 DEF MenusTyped, Menus!Entries, InputTrue
  <2>. QED  BY <1>1, <2>2, <2>5, <2>7, Arrives
<1>. QED  BY <1>3, <1>4

\* The gateway takes the first event; nothing else waits for a patient customer.
LEMMA Taken ==
    ASSUME MenusInv, NEW e, e = Head(inbox), inbox # <<>>, inbox' = Tail(inbox),
           NEW b \in Menus!Buttons \cup {Menus!NoButton}, last' = [e EXCEPT !.button = b],
           UNCHANGED <<shown, inputs, patient>>, human' \in BOOLEAN,
           memory' \in [context : Menus!Contexts, previous : Menus!Contexts],
           outbox' \in Seq(ShownMenus),
           patient => (Screen' # Menus!NoMenu => memory'.context = Screen'),
           ~ human' /\ e.patient /\ e.shown # Menus!NoMenu /\ e.input.kind \in {"digit", "label"}
               /\ (e.input.kind = "digit" => e.input.n <= Len(Menus!MENUS[e.shown]))
             => b = Menus!Meant(e)
    PROVE  MenusInv'
<1>1. MenusTyped /\ MemoryKnowsScreen /\ PatientIsNext
  BY DEF MenusInv
<1>2. PICK s \in Seq(Menus!Entries) : s = inbox
  BY <1>1 DEF MenusTyped
<1>3. /\ Tail(s) \in Seq(Menus!Entries) /\ Len(s) \in Nat /\ DOMAIN s = 1 .. Len(s)
      /\ e \in Menus!Entries /\ s[1] = e /\ 1 \in DOMAIN s
      /\ \A k \in DOMAIN Tail(s) : k \in Nat \ {0} /\ k + 1 \in DOMAIN s /\ Tail(s)[k] = s[k + 1]
  <2>1. /\ Tail(s) \in Seq(Menus!Entries) /\ Len(Tail(s)) = Len(s) - 1 /\ Len(s) \in Nat /\ Len(s) # 0
        /\ DOMAIN Tail(s) = 1 .. Len(Tail(s)) /\ DOMAIN s = 1 .. Len(s)
        /\ Head(s) = s[1] /\ s[1] \in Menus!Entries
        /\ \A k \in 1 .. Len(Tail(s)) : Tail(s)[k] = s[k + 1]
    BY <1>2
  <2>. QED  BY <1>2, <2>1
<1>4. last' \in Menus!Entries /\ last'.input = e.input /\ last'.shown = e.shown
      /\ last'.patient = e.patient /\ last'.button = b
  BY <1>3 DEF Menus!Entries
<1>5. MenusTyped'
  <2>1. \A k \in DOMAIN inbox' : InputTrue(inbox[k])'
    BY <1>1, <1>2, <1>3 DEF MenusTyped, InputTrue
  <2>. QED  BY <1>1, <1>2, <1>3, <1>4, <2>1 DEF MenusTyped
<1>6. MemoryKnowsScreen'
  BY <1>1, <1>2, <1>3 DEF MemoryKnowsScreen
<1>7. \A k \in DOMAIN inbox' : inbox'[k].patient => inbox'[k].input.kind = "start"
  <2>1. \A k \in DOMAIN Tail(s) : k + 1 # 1
    BY <1>3
  <2>. QED  BY <1>1, <1>2, <1>3, <2>1 DEF PatientIsNext
<1>8. PatientIsNext'
  BY <1>7 DEF PatientIsNext
<1>9. Menus!PickMeansShownItem'
  BY <1>4 DEF Menus!PickMeansShownItem, Menus!Meant
<1>. QED  BY <1>5, <1>6, <1>8, <1>9 DEF MenusInv

\* What a turn leaves on the screen and in the memory, whatever the event was.
LEMMA GatewaySound ==
    ASSUME FaqMenus = {}, MenusInv, Menus!Gateway
    PROVE  MenusInv'
<1>1. MenusTyped /\ MemoryKnowsScreen /\ PatientIsNext /\ inbox # <<>>
  BY DEF MenusInv, Menus!Gateway
<1>2. PICK e \in Menus!Entries : e = Head(inbox) /\ e = inbox[1] /\ InputTrue(e) /\ 1 \in DOMAIN inbox
  <2>1. PICK s \in Seq(Menus!Entries) : s = inbox
    BY <1>1 DEF MenusTyped
  <2>2. Head(s) = s[1] /\ 1 \in DOMAIN s /\ s[1] \in Menus!Entries
    <3>1. Len(s) \in Nat /\ DOMAIN s = 1 .. Len(s) /\ Len(s) # 0 /\ Head(s) = s[1]
      BY <1>1, <2>1
    <3>. QED  BY <3>1
  <2>. QED  BY <1>1, <2>1, <2>2 DEF MenusTyped
<1>3. /\ e.input.kind # "start" /\ e.patient =>
            /\ outbox = <<>> /\ e.shown = shown /\ (shown # Menus!NoMenu => memory.context = shown)
      /\ patient => e.patient
  BY <1>1, <1>2 DEF PatientIsNext, MemoryKnowsScreen
<1>4. memory \in [context : Menus!Contexts, previous : Menus!Contexts] /\ outbox \in Seq(ShownMenus)
      /\ human \in BOOLEAN /\ memory.context \in Menus!Contexts
      /\ shown \in ShownMenus \cup {Menus!NoMenu}
  BY <1>1 DEF MenusTyped
<1>5. patient => (Screen # Menus!NoMenu => memory.context = Screen)
  BY <1>1 DEF MemoryKnowsScreen
<1>6. CASE human
  <2>1. UNCHANGED <<memory, outbox, human, shown, inputs, patient>> /\ inbox' = Tail(inbox)
        /\ last' = [e EXCEPT !.button = Menus!NoButton]
    BY <1>2, <1>6 DEF Menus!Gateway, Menus!RecordOnly, Menus!Take
  <2>2. Screen' = Screen
    BY <2>1 DEF Screen
  <2>. QED  BY <1>1, <1>2, <1>4, <1>5, <1>6, <2>1, <2>2, Taken
<1>7. CASE ~ human /\ Menus!BuildIntroMenu
  <2>1. UNCHANGED <<human, shown, inputs, patient>> /\ inbox' = Tail(inbox)
        /\ last' = [e EXCEPT !.button = Menus!NoButton] /\ e.input.kind = "start"
        /\ memory' = [memory EXCEPT !.context = "main"] /\ outbox' = Append(outbox, "main")
    BY <1>2, <1>7 DEF Menus!BuildIntroMenu, Menus!Take
  <2>2. "main" \in ShownMenus /\ "main" \in Menus!Contexts
    BY DEF ShownMenus, Menus!Contexts
  <2>3. outbox' \in Seq(ShownMenus) /\ Screen' = "main"
    BY <1>4, <2>1, <2>2, Appended DEF Screen
  <2>4. memory' \in [context : Menus!Contexts, previous : Menus!Contexts] /\ memory'.context = "main"
    BY <1>4, <2>1, <2>2
  <2>. QED  BY <1>1, <1>2, <1>4, <2>1, <2>3, <2>4, Taken
<1>8. CASE ~ human /\ Menus!ProcessMessage
  <2>. DEFINE fast == Menus!_extract_livechat_button_id(e.input, memory.context)
              slow == Menus!detect_button_id(e.input, memory.context)
              b == IF fast # Menus!NoButton THEN fast ELSE slow
  <2>1. /\ e.input.kind # "start" /\ UNCHANGED <<shown, inputs, patient>> /\ inbox' = Tail(inbox)
        /\ last' = [e EXCEPT !.button = b]
        /\ IF fast # Menus!NoButton
           THEN \/ Menus!BuildNavButton(fast) \/ Menus!BuildFastHandoff(fast)
                \/ Menus!BuildBusinessButton(fast)
           ELSE IF slow # Menus!NoButton THEN Menus!ApplyMenuButtonRoute(slow) ELSE Menus!OtherTurn
    BY <1>2, <1>8 DEF Menus!ProcessMessage, Menus!Take
  <2>2. fast \in Menus!Buttons \cup {Menus!NoButton} /\ slow \in Menus!Buttons \cup {Menus!NoButton}
    BY <1>2, <1>4, FastIsButton
  <2>3. slow # Menus!NoButton => memory.context # Menus!NoMenu
    BY DEF Menus!detect_button_id
  <2>4. e.patient /\ shown # Menus!NoMenu /\ fast # Menus!NoButton =>
           fast \in Menus!Range(Menus!MENUS[shown])
    BY <1>2, <1>3, <1>4, <2>1, FastIsOnScreen
  <2>5. /\ e.patient /\ e.shown # Menus!NoMenu /\ e.input.kind \in {"digit", "label"}
        /\ (e.input.kind = "digit" => e.input.n <= Len(Menus!MENUS[e.shown]))
        => fast = Menus!Meant(e) /\ fast # Menus!NoButton
    BY <1>2, <1>3, <1>4, <2>1, FastIsMeant
  <2>. HIDE DEF fast, slow
  <2>6. ASSUME NEW button \in Menus!NavButtons, memory' = Menus!_next_menu_memory(memory, button),
               outbox' = Append(outbox, Menus!_navigation_menu_key(button, memory))
        PROVE  /\ memory' \in [context : Menus!Contexts, previous : Menus!Contexts]
               /\ outbox' \in Seq(ShownMenus) /\ Screen' = memory'.context
    BY <1>4, <2>6, NavOpensMenu, MemoryTyped, Appended DEF Screen
  <2>7. \A answer \in Menus!FaqAnswers : outbox \o answer = outbox
    BY <1>4, NoFaqMenus
  <2>8. Screen' = IF outbox' = <<>> THEN shown ELSE outbox'[Len(outbox')]
    BY <2>1 DEF Screen
  <2>9. /\ memory' \in [context : Menus!Contexts, previous : Menus!Contexts]
        /\ outbox' \in Seq(ShownMenus) /\ human' \in BOOLEAN
        /\ patient => (Screen' # Menus!NoMenu => memory'.context = Screen')
    <3>1. CASE fast # Menus!NoButton /\ Menus!BuildNavButton(fast)
      BY <1>4, <2>6, <3>1 DEF Menus!BuildNavButton
    <3>2. CASE fast # Menus!NoButton /\ Menus!BuildFastHandoff(fast)
      BY <1>4, <1>5, <2>8, <3>2 DEF Menus!BuildFastHandoff, Screen
    <3>3. CASE fast # Menus!NoButton /\ Menus!BuildBusinessButton(fast)
      <4>1. /\ fast \notin Menus!NavButtons /\ fast # "global_human"
            /\ memory' = Menus!_business_button_menu_memory(memory, fast)
            /\ outbox' = outbox /\ human' = human
        BY <2>7, <3>3, <1>4 DEF Menus!BuildBusinessButton
      <4>2. memory'.context = Menus!ButtonContext(fast, memory)
        BY <4>1 DEF Menus!_business_button_menu_memory
      <4>3. ASSUME patient, Screen' # Menus!NoMenu PROVE memory'.context = Screen'
        <5>1. outbox = <<>> /\ Screen' = shown /\ memory.context = shown /\ shown \in ShownMenus
          BY <1>3, <1>4, <2>1, <2>8, <4>1, <4>3
        <5>. QED  BY <1>3, <2>4, <3>3, <4>1, <4>2, <4>3, <5>1, ButtonKeepsMenu
      <4>. QED  BY <1>4, <4>1, <4>3, MemoryTyped
    <3>4. CASE fast = Menus!NoButton /\ slow # Menus!NoButton /\ Menus!ApplyMenuButtonRoute(slow)
      <4>1. CASE slow \in Menus!NavButtons
        BY <2>6, <3>4, <4>1 DEF Menus!ApplyMenuButtonRoute
      <4>2. CASE slow \notin Menus!NavButtons
        <5>1. /\ memory' = Menus!_next_menu_memory(memory, slow) /\ human' \in BOOLEAN
              /\ outbox' = outbox
          BY <1>4, <2>7, <3>4, <4>2 DEF Menus!ApplyMenuButtonRoute
        <5>2. memory' = [memory EXCEPT !.context = Menus!Context(memory)]
          BY <4>2, <5>1 DEF Menus!_next_menu_memory, Menus!NavButtons
        <5>3. memory'.context = memory.context
          BY <1>4, <2>3, <3>4, <5>2 DEF Menus!Context
        <5>. QED  BY <1>4, <1>5, <2>8, <5>1, <5>3, MemoryTyped DEF Screen
      <4>. QED  BY <4>1, <4>2
    <3>5. CASE fast = Menus!NoButton /\ slow = Menus!NoButton /\ Menus!OtherTurn
      BY <1>4, <1>5, <2>7, <2>8, <3>5 DEF Menus!OtherTurn, Screen
    <3>. QED  BY <2>1, <3>1, <3>2, <3>3, <3>4, <3>5
  <2>10. b \in Menus!Buttons \cup {Menus!NoButton}
    BY <2>2
  <2>11. /\ e.patient /\ e.shown # Menus!NoMenu /\ e.input.kind \in {"digit", "label"}
         /\ (e.input.kind = "digit" => e.input.n <= Len(Menus!MENUS[e.shown]))
         => b = Menus!Meant(e)
    BY <2>5
  <2>. HIDE DEF b
  <2>. QED  BY <1>1, <1>2, <2>1, <2>9, <2>10, <2>11, Taken
<1>. QED  BY <1>6, <1>7, <1>8 DEF Menus!Gateway

\* A customer who waits for each answer gets what they picked, however long the dialogue:
\* _next_menu_memory and _business_button_menu_memory keep the menu on the screen in the
\* memory in which _detect_visible_menu_button_label looks, as long as the answers of the
\* knowledge base bring no menus of their own.
THEOREM PicksAreUnderstood == FaqMenus = {} => (Spec => []PickMeansShownItem)
<1>. SUFFICES ASSUME FaqMenus = {} PROVE Spec => []PickMeansShownItem
  OBVIOUS
<1>1. Init => MenusInv
  BY MenusInit DEF Init
<1>2. MenusInv /\ [Next]_<<part, runnerVars, queryVars, reportVars, menuVars>> => MenusInv'
  <2>1. ASSUME MenusInv, Menus!Next PROVE MenusInv'
    BY <2>1, GatewaySound, SendSound, EventSound DEF Menus!Next
  <2>2. ASSUME MenusInv, UNCHANGED menuVars PROVE MenusInv'
    BY <2>2 DEF menuVars, MenusInv, MenusTyped, InputTrue, MemoryKnowsScreen, PatientIsNext, Screen,
       Menus!PickMeansShownItem, Menus!Meant
  <2>. QED  BY <2>1, <2>2 DEF Next
<1>3. MenusInv => PickMeansShownItem
  BY MenusTypes DEF MenusInv, PickMeansShownItem
<1>. QED  BY <1>1, <1>2, <1>3, PTL DEF Spec

-----------------------------------------------------------------------------
(* The content of the daily report *)

ContentVars == <<setup, day, msgs, cm, ie, bare, cmds, handed, reading>>

\* What a run of the report holds.
Steps == {"none", "candidates", "conversation", "inbound", "staff", "archives", "fetched", "done"}
ReportRows == [msg : Nat, from : {"cm", "ie", "out", "api"}, role : Content!Roles,
               thread : Threads]
Reads == [read : BOOLEAN, threads : SUBSET Threads]
Entries == [thread : Threads, category : Content!Categories, rows : SUBSET ReportRows]
Readings == [pc : Steps, cand : SUBSET Threads, rows : SUBSET ReportRows, meta : Reads,
             commands : Reads, states : Reads, stored : SUBSET Nat, ordered : SUBSET Threads,
             report : SUBSET Entries]

\* The row that the report has of a message.
Has(i) == \E row \in reading.rows : row.msg = i

\* What the run has read is in the tables, and stays there.
ReadFromTables ==
    /\ reading \in Readings
    /\ \A row \in reading.rows : row.msg \in Content!Ids
    /\ reading.stored \subseteq (cm \cup ie) \cap Content!On(Content!Date)
    /\ \A t \in reading.ordered : <<t, Content!Date>> \in cmds
    /\ \A t \in reading.report : t.rows \subseteq reading.rows

\* A customer's message has one row.
OneRowEach ==
    \A q, r \in reading.rows : q.msg = r.msg /\ Content!Customer(q.msg) => q = r

\* Of what the tables held, only messages of an unknown group are still missing
\* once the two tables are read.
NothingMissed ==
    Content!Source = "lingxi_db" /\ reading.cand # {} =>
        /\ reading.pc = "inbound" => \A i \in reading.stored : i \in ie \/ Has(i)
        /\ reading.pc \in {"staff", "fetched", "done"} =>
              \A i \in reading.stored : Content!Self(i) \/ i \notin bare => Has(i)

\* Where rows keep their thread, the handovers of the day were read for every thread
\* that is listed.
HandoffsRead ==
    Content!Source # "lingxi_db" =>
        /\ \A row \in reading.rows : row.thread = msgs[row.msg].thread
        /\ Content!Source = "lingxi" => \A t \in Threads :
              t \in reading.cand \/ (\E row \in reading.rows : row.thread = t) => t \in Content!BotThreads
        /\ reading.commands.read => \A t \in reading.ordered :
              \/ t \in reading.commands.threads
              \/ Content!Source = "lingxi" /\ t \notin reading.cand
                 /\ \A row \in reading.rows : row.thread # t

\* The steps that a source takes.
StepsOfSource ==
    /\ reading.pc = "none" => reading = Content!NoRun
    /\ reading.pc = "archives" => Content!Source = "lingxi"
    /\ reading.pc = "conversation" => Content!Source # "lingxi" /\ reading.rows = {}
    /\ reading.pc \in {"inbound", "staff"} => Content!Source = "lingxi_db"
    /\ reading.pc = "archives" => \A row \in reading.rows :
          row.from = "api" /\ (Content!Customer(row.msg) => row.role = "customer")
    /\ reading.pc # "done" => reading.report = {}

\* The types of the tables, and what is known of a run.
Messages == [kind : Content!Kinds, thread : Threads, day : 1 .. MaxDay]
TablesTyped ==
    /\ setup \in DOMAIN Setups
    /\ day \in 1 .. MaxDay
    /\ msgs \in Seq(Messages) /\ Len(msgs) <= Content!MaxMsgs
    /\ cm \subseteq Content!Ids /\ bare \subseteq ie /\ ie \subseteq Content!Ids
    /\ cmds \subseteq Threads \X (1 .. MaxDay) /\ handed \subseteq Threads \X (1 .. MaxDay)

ReadingSound ==
    /\ ReadFromTables /\ OneRowEach /\ NothingMissed /\ HandoffsRead /\ StepsOfSource
    /\ Content!CustomerListedOnce /\ Content!DayComplete /\ Content!HandoffReported

ContentInv == TablesTyped /\ ReadingSound

\* The tables and the run together have the types that ReportContent states.
LEMMA ContentTypes == ContentInv => Content!TypeOK
BY DEF ContentInv, TablesTyped, ReadingSound, ReadFromTables, Content!TypeOK, Readings, Steps,
       ReportRows, Entries, Messages

\* Nothing is stored, nothing read.
LEMMA ContentInit ==
    ASSUME Content!Configured, Content!Init
    PROVE  ContentInv
<1>. USE DEF Content!Init
<1>1. TablesTyped
  BY DEF TablesTyped, Content!Configured, Content!Ids, Content!MaxMsgs
<1>2. reading = Content!NoRun /\ reading \in Readings
  BY DEF Content!NoRun, Readings, Steps, Content!Unread, Reads
<1>3. ReadFromTables
  BY <1>2 DEF ReadFromTables, Content!NoRun
<1>4. OneRowEach /\ NothingMissed /\ StepsOfSource /\ HandoffsRead
  BY <1>2 DEF OneRowEach, NothingMissed, StepsOfSource, HandoffsRead, Content!NoRun,
              Content!Unread, Content!BotThreads, Content!On, Content!Ids
<1>5. Content!CustomerListedOnce /\ Content!DayComplete /\ Content!HandoffReported
  BY <1>2 DEF Content!CustomerListedOnce, Content!DayComplete, Content!HandoffReported,
              Content!Done, Content!NoRun
<1>. QED  BY <1>1, <1>3, <1>4, <1>5 DEF ContentInv, ReadingSound

\* The tables grow: messages stay what they are, rows and commands stay, and a row that was
\* stored without a group stays without.
TablesGrow ==
    /\ setup' = setup
    /\ \A i \in Content!Ids : i \in Content!Ids' /\ msgs'[i] = msgs[i]
    /\ cm \subseteq cm' /\ ie \subseteq ie' /\ cmds \subseteq cmds'
    /\ bare \subseteq bare'

\* What a run has read holds while the other parts of the program write.
LEMMA ReadingKept ==
    ASSUME ContentInv, TablesGrow, reading' = reading
    PROVE  ReadingSound'
<1>. USE DEF ContentInv, TablesGrow
<1>1. \A i \in Content!Ids : /\ Content!Kind(i)' = Content!Kind(i)
                             /\ Content!Customer(i)' = Content!Customer(i)
                             /\ Content!Self(i)' = Content!Self(i)
  BY DEF Content!Kind, Content!Customer, Content!Self
<1>2. Content!On(Content!Date) \subseteq Content!On(Content!Date)'
  BY DEF Content!On, Content!Date
<1>3. Content!BotThreads \subseteq Content!BotThreads'
  BY <1>1, <1>2 DEF Content!BotThreads, Content!On
<1>4. Content!Source' = Content!Source
  BY DEF Content!Source
<1>5. ReadFromTables'
  BY <1>2 DEF ReadingSound, ReadFromTables
<1>6. OneRowEach' /\ StepsOfSource'
  BY <1>1, <1>4 DEF ReadingSound, ReadFromTables, OneRowEach, StepsOfSource
<1>7. reading.stored \subseteq Content!Ids
  BY DEF ReadingSound, ReadFromTables, Content!On
<1>8. NothingMissed'
  BY <1>1, <1>4, <1>7 DEF ReadingSound, NothingMissed, Has
<1>9. HandoffsRead'
  BY <1>3, <1>4 DEF ReadingSound, ReadFromTables, HandoffsRead
<1>10. Content!Listed' = Content!Listed /\ \A row \in Content!Listed : row \in reading.rows
  BY DEF Content!Listed, ReadingSound, ReadFromTables
<1>11. Content!CustomerListedOnce'
  BY <1>1, <1>10 DEF ReadingSound, ReadFromTables, Content!CustomerListedOnce, Content!Done
<1>12. Content!DayComplete'
  BY <1>1, <1>4, <1>7, <1>10 DEF ReadingSound, Content!DayComplete, Content!Done
<1>13. Content!HandoffReported'
  <2>1. \A t \in reading.report : \A row \in t.rows : msgs'[row.msg] = msgs[row.msg]
    BY DEF ReadingSound, ReadFromTables
  <2>. QED  BY <1>4, <2>1 DEF ReadingSound, Content!HandoffReported, Content!Done
<1>. QED  BY <1>5, <1>6, <1>8, <1>9, <1>11, <1>12, <1>13 DEF ReadingSound

\* A message is added at the end, rows and commands are added to the tables.
LEMMA MessagePosted ==
    ASSUME ContentInv, NEW k \in Content!Kinds, NEW t \in Threads, Content!Post(k, t),
           Len(msgs) < Content!MaxMsgs, Content!Configured
    PROVE  /\ msgs' \in Seq(Messages) /\ Len(msgs') = Len(msgs) + 1
           /\ Content!Ids' = Content!Ids \cup {Len(msgs) + 1}
           /\ \A i \in Content!Ids : msgs'[i] = msgs[i]
<1>1. msgs \in Seq(Messages) /\ day \in 1 .. MaxDay
  BY DEF ContentInv, TablesTyped
<1>2. [kind |-> k, thread |-> t, day |-> day] \in Messages
  BY <1>1 DEF Messages
<1>. DEFINE m == [kind |-> k, thread |-> t, day |-> day]
<1>3. msgs' = Append(msgs, m) /\ m \in Messages
  BY <1>2 DEF Content!Post
<1>. HIDE DEF m
<1>4. msgs' \in Seq(Messages) /\ Len(msgs') = Len(msgs) + 1 /\ Len(msgs) \in Nat
      /\ \A i \in 1 .. Len(msgs) : msgs'[i] = msgs[i]
  BY <1>1, <1>3
<1>. QED  BY <1>4 DEF Content!Ids

\* The receivers, the gateway and the sender only add to what a run may have read.
LEMMA TablesWritten ==
    ASSUME ContentInv, Content!Configured,
           \/ Content!Midnight
           \/ \E k \in Content!Kinds, t \in Threads :
                 Content!SenderPosts(k, t) \/ Content!PersonWrites(k, t)
           \/ \E i \in Content!Ids : Content!WebhookStores(i) \/ Content!GatewayRecords(i)
           \/ \E t \in Threads : Content!HandOff(t) \/ Content!Rewrite(t) \/ Content!Resume(t)
    PROVE  TablesTyped' /\ TablesGrow /\ reading' = reading
<1>1. TablesTyped /\ Messages \subseteq Messages
  BY DEF ContentInv
<1>2. setup' = setup => Messages' = Messages /\ Content!MaxMsgs' = Content!MaxMsgs
  BY DEF Messages, Content!Kinds, Content!MaxMsgs
<1>3. MaxDay \in Nat \ {0} /\ Content!MaxMsgs \in Nat
  BY <1>1 DEF Content!Configured, Content!MaxMsgs, TablesTyped
<1>4. CASE Content!Midnight
  BY <1>1, <1>2, <1>3, <1>4 DEF Content!Midnight, TablesTyped, TablesGrow, Content!Ids
<1>5. ASSUME NEW k \in Content!Kinds, NEW t \in Threads, Content!SenderPosts(k, t)
      PROVE  TablesTyped' /\ TablesGrow /\ reading' = reading
  <2>1. /\ msgs' \in Seq(Messages) /\ Len(msgs') = Len(msgs) + 1
        /\ Content!Ids' = Content!Ids \cup {Len(msgs) + 1}
        /\ \A i \in Content!Ids : msgs'[i] = msgs[i]
    BY <1>5, MessagePosted DEF Content!SenderPosts
  <2>2. Len(msgs') <= Content!MaxMsgs /\ setup' = setup
    BY <1>1, <1>3, <1>5, <2>1 DEF Content!SenderPosts, TablesTyped
  <2>. QED  BY <1>1, <1>2, <1>5, <2>1, <2>2 DEF Content!SenderPosts, TablesTyped, TablesGrow
<1>6. ASSUME NEW k \in Content!Kinds, NEW t \in Threads, Content!PersonWrites(k, t)
      PROVE  TablesTyped' /\ TablesGrow /\ reading' = reading
  <2>1. /\ msgs' \in Seq(Messages) /\ Len(msgs') = Len(msgs) + 1
        /\ Content!Ids' = Content!Ids \cup {Len(msgs) + 1}
        /\ \A i \in Content!Ids : msgs'[i] = msgs[i]
    BY <1>6, MessagePosted DEF Content!PersonWrites
  <2>2. Len(msgs') <= Content!MaxMsgs /\ setup' = setup
    BY <1>1, <1>3, <1>6, <2>1 DEF Content!PersonWrites, TablesTyped
  <2>. QED  BY <1>1, <1>2, <1>6, <2>1, <2>2 DEF Content!PersonWrites, TablesTyped, TablesGrow
<1>7. ASSUME NEW i \in Content!Ids, Content!WebhookStores(i) \/ Content!GatewayRecords(i)
      PROVE  TablesTyped' /\ TablesGrow /\ reading' = reading
  BY <1>1, <1>2, <1>7 DEF Content!WebhookStores, Content!GatewayRecords, TablesTyped, TablesGrow,
                          Content!Ids
<1>8. ASSUME NEW t \in Threads, Content!HandOff(t) \/ Content!Rewrite(t) \/ Content!Resume(t)
      PROVE  TablesTyped' /\ TablesGrow /\ reading' = reading
  <2>1. <<t, day>> \in Threads \X (1 .. MaxDay)
    BY <1>1 DEF TablesTyped
  <2>2. {h \in handed : h[1] # t} \subseteq Threads \X (1 .. MaxDay)
    BY <1>1 DEF TablesTyped
  <2>3. /\ UNCHANGED <<setup, day, msgs, cm, ie, bare, reading>>
        /\ cmds' \in {cmds, cmds \cup {<<t, day>>}}
        /\ handed' \in {{h \in handed : h[1] # t}, {h \in handed : h[1] # t} \cup {<<t, day>>}}
    BY <1>8 DEF Content!HandOff, Content!Rewrite, Content!Resume
  <2>4. cmds' \subseteq Threads \X (1 .. MaxDay) /\ handed' \subseteq Threads \X (1 .. MaxDay)
        /\ cmds \subseteq cmds'
    BY <1>1, <2>1, <2>2, <2>3 DEF TablesTyped
  <2>. QED  BY <1>1, <1>2, <2>3, <2>4 DEF TablesTyped, TablesGrow, Content!Ids
<1>. QED  BY <1>4, <1>5, <1>6, <1>7, <1>8

\* What the queries read does not change while they read it.
TablesStay == UNCHANGED <<setup, day, msgs, cm, ie, bare, cmds, handed>>

LEMMA TablesSame ==
    ASSUME TablesStay
    PROVE  /\ Content!Ids' = Content!Ids /\ Content!Source' = Content!Source
           /\ Content!On(Content!Date)' = Content!On(Content!Date)
           /\ Content!BotThreads' = Content!BotThreads
           /\ \A i : Content!Customer(i)' = Content!Customer(i) /\ Content!Self(i)' = Content!Self(i)
BY DEF TablesStay, Content!Ids, Content!Source, Content!On, Content!Date, Content!BotThreads,
       Content!Customer, Content!Self, Content!Kind

\* The report says nothing before it is aggregated.
LEMMA NothingReported ==
    ASSUME reading'.pc # "done"
    PROVE  Content!CustomerListedOnce' /\ Content!DayComplete' /\ Content!HandoffReported'
BY DEF Content!CustomerListedOnce, Content!DayComplete, Content!HandoffReported, Content!Done

\* The parts of a row.
LEMMA RowParts ==
    ASSUME ContentInv, NEW i \in Content!Ids, NEW from \in {"cm", "ie", "out", "api"},
           NEW role \in Content!Roles
    PROVE  /\ Content!Row(i, from, role) \in ReportRows
           /\ Content!Row(i, from, role).msg = i
           /\ Content!Row(i, from, role).from = from
           /\ Content!Row(i, from, role).role = role
           /\ Content!Row(i, from, role).thread = msgs[i].thread
<1>1. msgs \in Seq(Messages) /\ i \in 1 .. Len(msgs) /\ i \in Nat
  BY DEF ContentInv, TablesTyped, Content!Ids
<1>2. msgs[i] \in Messages
  BY <1>1
<1>3. msgs[i].thread \in Threads
  BY <1>2 DEF Messages
<1>. QED  BY <1>1, <1>3 DEF Content!Row, ReportRows

\* What a query makes of a run whose candidates have become cand and rows new.
LEMMA RunReads ==
    ASSUME ContentInv
    PROVE  /\ Content!BotThreads \subseteq Threads
           /\ Content!On(Content!Date) \subseteq Content!Ids
           /\ Content!On(Content!Date + 1) \subseteq Content!Ids
           /\ Content!Configured => Content!Source \in Content!Sources
<1>1. ASSUME NEW i \in Content!Ids
      PROVE  msgs[i].thread \in Threads
  <2>1. msgs \in Seq(Messages) /\ i \in 1 .. Len(msgs)
    BY DEF ContentInv, TablesTyped, Content!Ids
  <2>2. msgs[i] \in Messages
    BY <2>1
  <2>. QED  BY <2>2 DEF Messages
<1>. QED  BY <1>1 DEF Content!BotThreads, Content!On, Content!Source, Content!Configured, ContentInv,
                     TablesTyped

LEMMA StartRunSound ==
    ASSUME ContentInv, Content!Configured, Content!StartRun
    PROVE  TablesStay /\ ReadingSound'
<1>. USE DEF ContentInv
<1>1. TablesStay /\ reading = Content!NoRun
  BY DEF Content!StartRun, TablesStay, ReadingSound, StepsOfSource
<1>2. /\ reading'.pc = IF Content!Source = "lingxi" THEN "archives" ELSE "conversation"
      /\ reading'.cand = IF Content!Source = "ai_customer_service" THEN Threads ELSE Content!BotThreads
      /\ reading'.stored = (cm \cup ie) \cap Content!On(Content!Date)
      /\ reading'.ordered = {c[1] : c \in {x \in cmds : x[2] = Content!Date}}
      /\ reading'.rows = {} /\ reading'.report = {} /\ reading'.meta = Content!Unread
      /\ reading'.commands = Content!Unread /\ reading'.states = Content!Unread
      /\ reading' = [reading EXCEPT !.pc = reading'.pc, !.cand = reading'.cand,
                                    !.stored = reading'.stored, !.ordered = reading'.ordered]
  BY <1>1 DEF Content!StartRun, Content!NoRun
<1>3. cmds \subseteq Threads \X (1 .. MaxDay)
  BY DEF TablesTyped
<1>4. /\ reading'.ordered \subseteq Threads
      /\ \A t \in reading'.ordered : <<t, Content!Date>> \in cmds
  <2>1. ASSUME NEW c \in cmds, c[2] = Content!Date
        PROVE  c[1] \in Threads /\ <<c[1], Content!Date>> \in cmds
    <3>1. c \in Threads \X (1 .. MaxDay)
      BY <1>3
    <3>2. c = <<c[1], c[2]>> /\ c[1] \in Threads
      BY <3>1
    <3>. QED  BY <2>1, <3>2
  <2>2. \A t \in reading'.ordered : \E c \in cmds : c[2] = Content!Date /\ t = c[1]
    BY <1>2
  <2>. QED  BY <2>1, <2>2
<1>5. reading' \in Readings
  <2>1. reading \in Readings
    BY DEF ReadingSound, ReadFromTables
  <2>2. reading'.pc \in Steps /\ reading'.cand \in SUBSET Threads
        /\ reading'.ordered \in SUBSET Threads
    BY <1>2, <1>4, RunReads DEF Steps
  <2>3. reading'.stored \in SUBSET Nat
    <3>1. Content!Ids \subseteq Nat
      BY DEF TablesTyped, Content!Ids
    <3>. QED  BY <1>2, <3>1, RunReads
  <2>4. /\ DOMAIN reading' = DOMAIN reading
        /\ reading' = [reading EXCEPT !.pc = reading'.pc, !.cand = reading'.cand,
                                      !.stored = reading'.stored, !.ordered = reading'.ordered]
    BY <1>2
  <2>. QED  BY <2>1, <2>2, <2>3, <2>4 DEF Readings
<1>6. ReadFromTables'
  BY <1>1, <1>2, <1>4, <1>5, TablesSame DEF ReadFromTables, TablesStay
<1>7. OneRowEach' /\ NothingMissed' /\ StepsOfSource'
  BY <1>1, <1>2, TablesSame DEF OneRowEach, NothingMissed, StepsOfSource
<1>8. HandoffsRead'
  <2>1. reading'.commands.read = FALSE /\ reading'.rows = {}
    <3>1. Content!Unread.read = FALSE
      BY DEF Content!Unread
    <3>2. reading'.commands = Content!Unread /\ reading'.rows = {}
      BY <1>2
    <3>. QED  BY <3>1, <3>2
  <2>2. Content!Source' = "lingxi" => reading'.cand = Content!BotThreads'
    BY <1>1, <1>2, TablesSame
  <2>. QED  BY <2>1, <2>2 DEF HandoffsRead
<1>. QED  BY <1>1, <1>2, <1>6, <1>7, <1>8, NothingReported DEF ReadingSound

LEMMA FetchConversationSound ==
    ASSUME ContentInv, Content!Configured, Content!FetchConversation
    PROVE  TablesStay /\ ReadingSound'
<1>. USE DEF ContentInv
<1>1. TablesStay /\ reading \in Readings
  BY DEF Content!FetchConversation, TablesStay, ReadingSound, ReadFromTables
<1>2. Content!Source # "lingxi" /\ reading.rows = {} /\ reading.report = {} /\ reading.pc = "conversation"
  BY DEF ReadingSound, StepsOfSource, Content!FetchConversation
<1>3. /\ reading'.pc = IF reading.cand = {} \/ Content!Source = "ai_customer_service"
                      THEN "fetched" ELSE "inbound"
      /\ reading'.rows = IF reading.cand = {} THEN {} ELSE Content!CmRows
      /\ reading' = [reading EXCEPT !.pc = reading'.pc, !.rows = reading'.rows]
  BY <1>1 DEF Content!FetchConversation, Readings
<1>4. \A row \in Content!CmRows : row \in ReportRows /\ row.msg \in Content!Ids
                                  /\ row.thread = msgs[row.msg].thread
  BY RowParts, RunReads DEF Content!CmRows, Content!Roles
<1>5. \A i \in cm \cap Content!On(Content!Date) : \E row \in Content!CmRows : row.msg = i
  BY RowParts, RunReads DEF Content!CmRows, Content!Roles
<1>6. \A q, r \in Content!CmRows : q.msg = r.msg => q = r
  BY RowParts, RunReads DEF Content!CmRows, Content!Roles
<1>7. reading' \in Readings
  BY <1>1, <1>3, <1>4 DEF Readings, Steps
<1>8. ReadFromTables'
  BY <1>1, <1>2, <1>3, <1>4, <1>7, TablesSame DEF ReadingSound, ReadFromTables, TablesStay, Readings
<1>9. OneRowEach' /\ StepsOfSource'
  BY <1>1, <1>2, <1>3, <1>6, TablesSame, RunReads
     DEF OneRowEach, StepsOfSource, Readings, Content!Sources
<1>10. NothingMissed'
  BY <1>1, <1>3, <1>5, TablesSame, RunReads
     DEF NothingMissed, Has, ReadingSound, ReadFromTables, Readings, TablesStay
<1>11. HandoffsRead'
  BY <1>1, <1>2, <1>3, <1>4, TablesSame DEF HandoffsRead, ReadingSound, TablesStay, Readings
<1>. QED  BY <1>1, <1>3, <1>8, <1>9, <1>10, <1>11, NothingReported DEF ReadingSound

LEMMA FetchInboundSound ==
    ASSUME ContentInv, Content!Configured, Content!FetchInbound
    PROVE  TablesStay /\ ReadingSound'
<1>. USE DEF ContentInv
<1>1. TablesStay /\ reading \in Readings /\ OneRowEach
  BY DEF Content!FetchInbound, TablesStay, ReadingSound, ReadFromTables
<1>2. Content!Source = "lingxi_db" /\ reading.report = {} /\ reading.pc = "inbound"
  BY DEF ReadingSound, StepsOfSource, Content!FetchInbound
<1>3. /\ reading'.pc = "staff" /\ reading'.rows = reading.rows \cup Content!NewInbound
      /\ reading' = [reading EXCEPT !.pc = reading'.pc, !.rows = reading'.rows]
  BY <1>1 DEF Content!FetchInbound, Readings
<1>4. \A row \in Content!InboundRows : row \in ReportRows /\ row.msg \in Content!Ids
  BY RowParts, RunReads DEF Content!InboundRows, Content!Roles
<1>5. \A i \in ie \cap Content!On(Content!Date) : Content!Self(i) \/ i \notin bare =>
         \E row \in Content!InboundRows : row.msg = i
  BY RowParts, RunReads DEF Content!InboundRows, Content!Roles
<1>6. \A q, r \in Content!InboundRows : q.msg = r.msg => q = r
  BY RowParts, RunReads DEF Content!InboundRows, Content!Roles
<1>7. reading' \in Readings
  BY <1>1, <1>3, <1>4 DEF Readings, Steps, Content!NewInbound
<1>8. ReadFromTables'
  BY <1>1, <1>2, <1>3, <1>4, <1>7, TablesSame
     DEF ReadingSound, ReadFromTables, TablesStay, Readings, Content!NewInbound
<1>9. OneRowEach'
  BY <1>1, <1>3, <1>6, TablesSame DEF OneRowEach, Content!NewInbound
<1>10. StepsOfSource'
  BY <1>1, <1>2, <1>3, TablesSame DEF StepsOfSource, Readings
<1>11. NothingMissed'
  <2>1. reading.cand # {} => \A i \in reading.stored :
           Content!Self(i) \/ i \notin bare => \E row \in reading'.rows : row.msg = i
    <3>1. SUFFICES ASSUME NEW i \in reading.stored, Content!Self(i) \/ i \notin bare, ~Has(i),
                          reading.cand # {}
                   PROVE  \E row \in reading'.rows : row.msg = i
      BY <1>3 DEF Has
    <3>2. i \in ie \cap Content!On(Content!Date)
      BY <1>2, <3>1 DEF ReadingSound, NothingMissed, ReadFromTables
    <3>3. PICK row \in Content!InboundRows : row.msg = i
      BY <1>5, <3>1, <3>2
    <3>. QED  BY <1>3, <3>1, <3>3 DEF Content!NewInbound, Has
  <2>. QED  BY <1>1, <1>3, <2>1, TablesSame DEF NothingMissed, Has, Readings, TablesStay
<1>12. HandoffsRead'
  BY <1>1, <1>2, TablesSame DEF HandoffsRead
<1>. QED  BY <1>1, <1>3, <1>8, <1>9, <1>10, <1>11, <1>12, NothingReported DEF ReadingSound

\* There is a first message of the bot, if it wrote at all.
LEMMA FirstRow ==
    ASSUME NEW bot \in SUBSET ReportRows, bot # {}
    PROVE  \E row \in bot : \A other \in bot : row.msg <= other.msg
<1>. DEFINE W == {row.msg : row \in bot}
<1>1. W \subseteq Nat /\ W # {}
  BY DEF ReportRows
<1>2. PICK least \in W : \A m \in W : ~(<<m, least>> \in OpToRel(<, Nat))
  BY <1>1, NatLessThanWellFounded, WFMin, Zenon
<1>3. \A m \in W : least <= m
  <2>. HIDE DEF W
  <2>1. \A m \in W : ~(m < least)
    BY <1>1, <1>2 DEF OpToRel
  <2>. QED  BY <1>1, <2>1
<1>4. PICK row \in bot : row.msg = least
  BY <1>2
<1>. QED  BY <1>3, <1>4

\* Attaching rows to the thread of the bot moves them, and changes nothing else.
LEMMA RowsAttached ==
    ASSUME NEW rows \in SUBSET ReportRows, NEW attached,
           attached = Content!_attach_followup_messages_to_lingxi_threads(rows)
    PROVE  /\ attached \subseteq ReportRows
           /\ \A row \in attached : \E r \in rows : r.msg = row.msg
           /\ \A r \in rows : \E row \in attached : r.msg = row.msg
           /\ \A q, r \in attached :
                 (\A a, b \in rows : a.msg = q.msg /\ b.msg = q.msg => a = b)
                 /\ q.msg = r.msg => q = r
<1>. DEFINE bot == {row \in rows : row.role = "assistant"}
            first == CHOOSE row \in bot : \A other \in bot : row.msg <= other.msg
            Moved(row) == [row EXCEPT !.thread = IF row.msg < first.msg THEN @ ELSE first.thread]
<1>1. attached = IF bot = {} THEN rows ELSE {Moved(row) : row \in rows}
  BY DEF Content!_attach_followup_messages_to_lingxi_threads
<1>2. CASE bot = {}
  BY <1>1, <1>2
<1>3. CASE bot # {}
  <2>1. first \in bot
    BY <1>3, FirstRow
  <2>2. first.thread \in Threads
    BY <2>1 DEF ReportRows
  <2>3. \A row \in rows : Moved(row) \in ReportRows /\ Moved(row).msg = row.msg
    BY <2>2 DEF ReportRows
  <2>4. attached = {Moved(row) : row \in rows}
    BY <1>1, <1>3
  <2>. HIDE DEF Moved
  <2>. QED  BY <2>3, <2>4
<1>. QED  BY <1>2, <1>3

LEMMA FetchStaffSound ==
    ASSUME ContentInv, Content!Configured, Content!FetchStaff
    PROVE  TablesStay /\ ReadingSound'
<1>. USE DEF ContentInv
<1>. DEFINE gathered == reading.rows \cup Content!StaffRows
<1>1. TablesStay /\ reading \in Readings /\ OneRowEach
  BY DEF Content!FetchStaff, TablesStay, ReadingSound, ReadFromTables
<1>2. Content!Source = "lingxi_db" /\ reading.report = {} /\ reading.pc = "staff"
  BY DEF ReadingSound, StepsOfSource, Content!FetchStaff
<1>3. /\ reading'.pc = "fetched"
      /\ reading'.rows = Content!_attach_followup_messages_to_lingxi_threads(gathered)
      /\ reading' = [reading EXCEPT !.pc = reading'.pc, !.rows = reading'.rows]
  BY <1>1 DEF Content!FetchStaff, Readings
<1>4. \A row \in Content!StaffRows : /\ row \in ReportRows /\ row.msg \in Content!Ids
                                     /\ ~Content!Customer(row.msg)
  BY RowParts, RunReads DEF Content!StaffRows, Content!Roles, Content!Customer, Content!CustomerKinds
<1>5. gathered \in SUBSET ReportRows /\ \A row \in gathered : row.msg \in Content!Ids
  BY <1>1, <1>4 DEF Readings, ReadingSound, ReadFromTables
<1>6. \A q, r \in gathered : q.msg = r.msg /\ Content!Customer(q.msg) => q = r
  BY <1>1, <1>4 DEF OneRowEach
<1>. HIDE DEF gathered
<1>7. /\ reading'.rows \subseteq ReportRows
      /\ \A row \in reading'.rows : \E r \in gathered : r.msg = row.msg
      /\ \A r \in gathered : \E row \in reading'.rows : r.msg = row.msg
      /\ \A q, r \in reading'.rows :
            (\A a, b \in gathered : a.msg = q.msg /\ b.msg = q.msg => a = b)
            /\ q.msg = r.msg => q = r
  BY <1>3, <1>5, RowsAttached
<1>8. reading' \in Readings
  BY <1>1, <1>3, <1>7 DEF Readings, Steps
<1>9. ReadFromTables'
  BY <1>1, <1>2, <1>3, <1>5, <1>7, <1>8, TablesSame
     DEF ReadingSound, ReadFromTables, TablesStay, Readings
<1>10. OneRowEach'
  BY <1>1, <1>6, <1>7, TablesSame DEF OneRowEach
<1>11. StepsOfSource'
  BY <1>1, <1>2, <1>3, TablesSame DEF StepsOfSource, Readings
<1>12. NothingMissed'
  <2>1. \A i : Has(i) => \E row \in reading'.rows : row.msg = i
    BY <1>7 DEF Has, gathered
  <2>. QED  BY <1>1, <1>2, <1>3, <2>1, TablesSame
            DEF NothingMissed, Has, Readings, TablesStay, ReadingSound
<1>13. HandoffsRead'
  BY <1>1, <1>2, TablesSame DEF HandoffsRead
<1>. QED  BY <1>1, <1>3, <1>9, <1>10, <1>11, <1>12, <1>13, NothingReported DEF ReadingSound

LEMMA FetchArchiveSound ==
    ASSUME ContentInv, Content!Configured, Content!FetchArchive
    PROVE  TablesStay /\ ReadingSound'
<1>. USE DEF ContentInv
<1>1. TablesStay /\ reading \in Readings
  BY DEF Content!FetchArchive, TablesStay, ReadingSound, ReadFromTables
<1>2. Content!Source = "lingxi" /\ reading.report = {} /\ reading.pc = "archives"
  BY DEF ReadingSound, StepsOfSource, Content!FetchArchive
<1>3. CASE reading.cand = {}
  <2>1. reading' = [reading EXCEPT !.pc = "fetched"]
    BY <1>3 DEF Content!FetchArchive
  <2>2. /\ reading' \in Readings /\ reading'.pc = "fetched" /\ reading'.rows = reading.rows
        /\ reading'.cand = reading.cand /\ reading'.stored = reading.stored
        /\ reading'.ordered = reading.ordered /\ reading'.commands = reading.commands
        /\ reading'.report = reading.report
    BY <1>1, <2>1 DEF Readings, Steps
  <2>3. ReadFromTables'
    BY <1>1, <2>2, TablesSame DEF ReadingSound, ReadFromTables, TablesStay
  <2>4. OneRowEach' /\ NothingMissed' /\ StepsOfSource'
    BY <1>1, <1>2, <2>2, TablesSame DEF ReadingSound, OneRowEach, NothingMissed, StepsOfSource
  <2>5. HandoffsRead'
    BY <1>1, <1>2, <2>2, TablesSame DEF ReadingSound, HandoffsRead, TablesStay
  <2>. QED  BY <1>1, <2>2, <2>3, <2>4, <2>5, NothingReported DEF ReadingSound
<1>4. CASE reading.cand # {}
  <2>1. PICK t \in reading.cand :
           reading' = [reading EXCEPT !.cand = @ \ {t}, !.rows = @ \cup Content!ArchiveRows(t)]
    BY <1>4 DEF Content!FetchArchive
  <2>2. \A row \in Content!ArchiveRows(t) :
           /\ row \in ReportRows /\ row.msg \in Content!Ids /\ row.thread = msgs[row.msg].thread
           /\ row.thread = t /\ row.from = "api"
           /\ Content!Customer(row.msg) => row.role = "customer"
    <3>1. ASSUME NEW i \in Content!Ids, Content!Customer(i)
          PROVE  ~Content!Self(i)
      BY <3>1 DEF Content!Customer, Content!Self, Content!CustomerKinds, Content!SelfKinds
    <3>. QED  BY <3>1, RowParts, RunReads DEF Content!ArchiveRows, Content!Roles
  <2>3. /\ reading'.pc = "archives" /\ reading'.rows = reading.rows \cup Content!ArchiveRows(t)
        /\ reading'.cand = reading.cand \ {t} /\ reading'.stored = reading.stored
        /\ reading'.ordered = reading.ordered /\ reading'.commands = reading.commands
        /\ reading'.report = reading.report
    BY <1>1, <1>2, <2>1 DEF Readings
  <2>4. reading' \in Readings
    BY <1>1, <2>1, <2>2, <2>3 DEF Readings
  <2>5. ReadFromTables'
    BY <1>1, <1>2, <2>2, <2>3, <2>4, TablesSame DEF ReadingSound, ReadFromTables, TablesStay
  <2>6. /\ \A row \in reading'.rows : row \in ReportRows /\ row.thread = msgs[row.msg].thread
        /\ \A row \in reading'.rows : /\ row.from = "api"
                                      /\ Content!Customer(row.msg) => row.role = "customer"
    BY <1>1, <1>2, <2>2, <2>3 DEF ReadingSound, StepsOfSource, HandoffsRead, Readings
  <2>7. OneRowEach'
    BY <1>1, <2>6, TablesSame DEF OneRowEach, ReportRows
  <2>8. NothingMissed' /\ StepsOfSource'
    BY <1>1, <1>2, <2>3, <2>6, TablesSame DEF NothingMissed, StepsOfSource
  <2>9. HandoffsRead'
    <3>1. \A s \in Threads : s \in reading'.cand \/ (\E row \in reading'.rows : row.thread = s) =>
             s \in reading.cand \/ (\E row \in reading.rows : row.thread = s)
      BY <2>2, <2>3
    <3>2. \A s \in Threads : s \in reading.cand \/ (\E row \in reading.rows : row.thread = s) =>
             s \in Content!BotThreads
      BY <1>2 DEF ReadingSound, HandoffsRead
    <3>3. reading.commands.read => \A s \in reading.ordered :
             \/ s \in reading.commands.threads
             \/ s \notin reading.cand /\ \A row \in reading.rows : row.thread # s
      BY <1>2 DEF ReadingSound, HandoffsRead
    <3>4. reading'.commands.read => \A s \in reading'.ordered :
             \/ s \in reading'.commands.threads
             \/ s \notin reading'.cand /\ \A row \in reading'.rows : row.thread # s
      BY <2>2, <2>3, <3>3
    <3>. QED  BY <1>1, <1>2, <2>6, <3>1, <3>2, <3>4, TablesSame DEF HandoffsRead, TablesStay
  <2>. QED  BY <1>1, <2>3, <2>5, <2>7, <2>8, <2>9, NothingReported DEF ReadingSound
<1>. QED  BY <1>3, <1>4

\* What is read besides the messages.
LEMMA AsideSound ==
    ASSUME ContentInv, Content!Configured,
           Content!FetchMetadata \/ Content!FetchCommands \/ Content!FetchStates
    PROVE  TablesStay /\ ReadingSound'
<1>. USE DEF ContentInv
<1>1. TablesStay /\ reading \in Readings /\ Content!Fetching
  BY DEF Content!FetchMetadata, Content!FetchCommands, Content!FetchStates, TablesStay,
         ReadingSound, ReadFromTables
<1>2. reading.pc # "none" /\ reading.pc # "done"
  BY <1>1 DEF Content!Fetching
<1>3. /\ reading' \in Readings /\ reading'.pc = reading.pc /\ reading'.rows = reading.rows
      /\ reading'.cand = reading.cand /\ reading'.stored = reading.stored
      /\ reading'.ordered = reading.ordered /\ reading'.report = reading.report
      /\ \/ reading'.commands = reading.commands
         \/ reading'.commands = Content!Read({t \in Threads : <<t, Content!Date>> \in cmds
                   /\ (Content!Source = "ai_customer_service" \/ t \in Content!BotThreads)})
  <2>1. CASE Content!FetchCommands
    <3>. DEFINE S == {t \in Threads : <<t, Content!Date>> \in cmds
                   /\ (Content!Source = "ai_customer_service" \/ t \in Content!BotThreads)}
    <3>1. reading' = [reading EXCEPT !.commands = Content!Read(S)] /\ S \subseteq Threads
      BY <2>1 DEF Content!FetchCommands
    <3>. HIDE DEF S
    <3>2. Content!Read(S) \in Reads
      BY <3>1 DEF Content!Read, Reads
    <3>3. reading' = [reading EXCEPT !.commands = Content!Read(S)] /\ reading' \in Readings
          /\ reading'.commands = Content!Read(S)
      BY <1>1, <3>1, <3>2 DEF Readings
    <3>. QED  BY <1>1, <3>3 DEF Readings, S
  <2>2. CASE Content!FetchStates
    <3>1. PICK S \in SUBSET Threads : reading' = [reading EXCEPT !.states = Content!Read(S)]
      <4>1. \A h \in handed : h[1] \in Threads
        BY DEF TablesTyped
      <4>. QED  BY <2>2, <4>1 DEF Content!FetchStates
    <3>2. Content!Read(S) \in Reads
      BY DEF Content!Read, Reads
    <3>. QED  BY <1>1, <3>1, <3>2 DEF Readings
  <2>3. CASE Content!FetchMetadata
    <3>1. PICK S \in SUBSET Threads : reading' = [reading EXCEPT !.meta = Content!Read(S)]
      BY <2>3 DEF Content!FetchMetadata
    <3>2. Content!Read(S) \in Reads
      BY DEF Content!Read, Reads
    <3>. QED  BY <1>1, <3>1, <3>2 DEF Readings
  <2>. QED  BY <2>1, <2>2, <2>3
<1>4. ReadFromTables'
  BY <1>1, <1>3, TablesSame DEF ReadingSound, ReadFromTables, TablesStay
<1>5. OneRowEach' /\ NothingMissed' /\ StepsOfSource'
  BY <1>1, <1>2, <1>3, TablesSame
     DEF ReadingSound, OneRowEach, NothingMissed, StepsOfSource, Has, TablesStay
<1>6. HandoffsRead'
  <2>1. SUFFICES ASSUME Content!Source # "lingxi_db"
                 PROVE  reading'.commands.read => \A t \in reading'.ordered :
                           \/ t \in reading'.commands.threads
                           \/ Content!Source = "lingxi" /\ t \notin reading'.cand
                              /\ \A row \in reading'.rows : row.thread # t
    BY <1>1, <1>3, TablesSame DEF ReadingSound, HandoffsRead, TablesStay
  <2>2. CASE reading'.commands = reading.commands
    BY <1>3, <2>1, <2>2 DEF ReadingSound, HandoffsRead
  <2>3. ASSUME NEW S, S = {t \in Threads : <<t, Content!Date>> \in cmds
                   /\ (Content!Source = "ai_customer_service" \/ t \in Content!BotThreads)},
               reading'.commands = Content!Read(S), NEW t \in reading'.ordered,
               t \notin S
        PROVE  Content!Source = "lingxi" /\ t \notin reading'.cand
               /\ \A row \in reading'.rows : row.thread # t
    <3>1. t \in Threads /\ <<t, Content!Date>> \in cmds
      BY <1>1, <1>3, <2>3 DEF ReadingSound, ReadFromTables, Readings
    <3>2. Content!Source = "lingxi" /\ t \notin Content!BotThreads
      BY <2>1, <2>3, <3>1, RunReads DEF Content!Sources
    <3>. QED  BY <1>3, <3>1, <3>2 DEF ReadingSound, HandoffsRead
  <2>4. \A S : Content!Read(S).threads = S
    BY DEF Content!Read
  <2>. QED  BY <1>3, <2>2, <2>3, <2>4
<1>. QED  BY <1>1, <1>2, <1>3, <1>4, <1>5, <1>6, NothingReported DEF ReadingSound

\* A listed thread has all its rows, and a category.
LEMMA AggregateSound ==
    ASSUME ContentInv, Content!Configured, Content!Aggregate
    PROVE  TablesStay /\ ReadingSound'
<1>. USE DEF ContentInv
<1>. DEFINE rows(t) == {row \in reading.rows : row.thread = t}
            listed == {t \in Threads :
                          /\ rows(t) # {} /\ t \in reading.meta.threads
                          /\ Content!Source = "lingxi" => \E row \in rows(t) : row.role = "assistant"}
            Entry(t) == [thread |-> t, category |-> Content!classify_thread(t, rows(t)), rows |-> rows(t)]
            Made == {Entry(t) : t \in listed}
<1>1. TablesStay /\ reading \in Readings /\ reading.commands.read /\ reading.pc = "fetched"
  BY DEF Content!Aggregate, TablesStay, ReadingSound, ReadFromTables
<1>2. reading' = [reading EXCEPT !.pc = "done", !.report = Made]
  BY DEF Content!Aggregate, Content!aggregate_threads
<1>3. \A t : Content!classify_thread(t, rows(t)) \in Content!Categories
  BY DEF Content!classify_thread, Content!Categories
<1>4. \A t \in listed : /\ Entry(t) \in Entries /\ Entry(t).rows = rows(t) /\ Entry(t).thread = t
                        /\ Entry(t).category = Content!classify_thread(t, rows(t))
  <2>1. \A t : rows(t) \in SUBSET ReportRows
    BY <1>1 DEF Readings
  <2>. HIDE DEF rows
  <2>. QED  BY <1>3, <2>1 DEF Entries
<1>. HIDE DEF Entry, listed, rows
<1>5. /\ Made \in SUBSET Entries
      /\ \A e \in Made : \E t \in listed : e = Entry(t)
      /\ \A t \in listed : Entry(t) \in Made
  BY <1>4
<1>. HIDE DEF Made
<1>6. /\ reading' \in Readings /\ reading'.report = Made
      /\ reading'.pc = "done" /\ reading'.rows = reading.rows
      /\ reading'.cand = reading.cand /\ reading'.stored = reading.stored
      /\ reading'.ordered = reading.ordered /\ reading'.commands = reading.commands
      /\ reading'.meta = reading.meta
  BY <1>1, <1>2, <1>5 DEF Readings, Steps
<1>14. ReadFromTables'
  <2>1. \A e \in Made : e.rows \subseteq reading.rows
    <3>1. \A t : rows(t) \subseteq reading.rows
      BY DEF rows
    <3>2. ASSUME NEW e \in Made PROVE e.rows \subseteq reading.rows
      <4>1. PICK t \in listed : e = Entry(t)
        BY <1>5
      <4>2. Entry(t).rows = rows(t)
        BY <1>4
      <4>. QED  BY <3>1, <4>1, <4>2
    <3>. QED  BY <3>2
  <2>. QED  BY <1>1, <1>6, <2>1, TablesSame DEF ReadingSound, ReadFromTables, TablesStay
<1>7. OneRowEach' /\ NothingMissed'
  BY <1>1, <1>6, TablesSame DEF ReadingSound, OneRowEach, NothingMissed, Has, TablesStay
<1>8. HandoffsRead'
  BY <1>1, <1>6, TablesSame DEF ReadingSound, HandoffsRead, TablesStay
<1>9. StepsOfSource'
  BY <1>6 DEF StepsOfSource
<1>10. Content!Listed' = UNION {rows(t) : t \in listed}
  BY <1>4, <1>5, <1>6 DEF Content!Listed
<1>11. Content!CustomerListedOnce'
  BY <1>1, <1>10, TablesSame DEF Content!CustomerListedOnce, ReadingSound, OneRowEach, rows
<1>12. Content!DayComplete'
  <2>1. ASSUME Content!Source = "lingxi_db", NEW row \in reading.rows
        PROVE  row \in Content!Listed' \/ row.thread \notin reading.meta.threads
    <3>1. row.thread \in Threads /\ row \in rows(row.thread)
      BY <1>1 DEF Readings, ReportRows, rows
    <3>2. row.thread \in reading.meta.threads => row.thread \in listed
      BY <2>1, <3>1 DEF listed
    <3>. QED  BY <1>10, <3>1, <3>2
  <2>2. Content!Source = "lingxi_db" /\ reading.cand # {} =>
           \A i \in reading.stored : Content!Self(i) \/ i \notin bare => Has(i)
    BY <1>1 DEF ReadingSound, NothingMissed
  <2>. QED  BY <1>1, <1>6, <2>1, <2>2, TablesSame DEF Content!DayComplete, Has, TablesStay
<1>13. Content!HandoffReported'
  <2>1. ASSUME Content!Source # "lingxi_db", NEW t \in listed, NEW row \in rows(t),
               msgs[row.msg].thread \in reading.ordered
        PROVE  Entry(t).category = "ROBOT_HANDOFF"
    <3>1. row.thread = t /\ msgs[row.msg].thread = t
      BY <2>1 DEF ReadingSound, HandoffsRead, rows
    <3>2. t \in reading.commands.threads
      BY <1>1, <2>1, <3>1 DEF ReadingSound, HandoffsRead, rows
    <3>. QED  BY <1>4, <3>2 DEF Content!classify_thread, Content!_has_robot_handoff_signal
  <2>. QED  BY <1>1, <1>4, <1>5, <1>6, <2>1, TablesSame DEF Content!HandoffReported, TablesStay
<1>. QED  BY <1>1, <1>7, <1>8, <1>9, <1>11, <1>12, <1>13, <1>14 DEF ReadingSound

LEMMA ContentStep ==
    ASSUME ContentInv, Content!Configured, [Content!Next]_ContentVars
    PROVE  ContentInv'
<1>1. CASE UNCHANGED ContentVars
  <2>1. TablesTyped' /\ TablesGrow /\ reading' = reading
    BY <1>1 DEF ContentInv, ContentVars, TablesTyped, TablesGrow, Content!Ids, Content!MaxMsgs,
                Messages, Content!Kinds
  <2>. QED  BY <2>1, ReadingKept DEF ContentInv
<1>2. CASE \/ Content!Midnight
           \/ \E k \in Content!Kinds, t \in Threads :
                 Content!SenderPosts(k, t) \/ Content!PersonWrites(k, t)
           \/ \E i \in Content!Ids : Content!WebhookStores(i) \/ Content!GatewayRecords(i)
           \/ \E t \in Threads : Content!HandOff(t) \/ Content!Rewrite(t) \/ Content!Resume(t)
  BY <1>2, TablesWritten, ReadingKept DEF ContentInv
<1>3. CASE Content!RunStep
  <2>1. TablesStay /\ ReadingSound'
    BY <1>3, StartRunSound, FetchConversationSound, FetchInboundSound, FetchStaffSound,
       FetchArchiveSound, AsideSound, AggregateSound DEF Content!RunStep
  <2>. QED  BY <2>1 DEF ContentInv, TablesTyped, TablesStay, Content!Ids, Content!MaxMsgs, Messages,
                        Content!Kinds
<1>. QED  BY <1>1, <1>2, <1>3 DEF Content!Next

\* A finished report is true to its day, whatever the receivers, the gateway and the
\* sender write between its queries: no customer's message twice (_fetch_inbound_event_messages
\* leaves out what the conversation holds), none of the stored ones lost, and a thread
\* that was handed over is filed as such (classify_thread).
THEOREM ReportIsTrue == ContentSpec => []ReportSound
<1>1. Content!Init => ContentInv
  BY ContentInit, ContentAssumption
<1>2. ContentInv /\ [Content!Next]_ContentVars => ContentInv'
  BY ContentStep, ContentAssumption
<1>3. ContentInv => ReportSound
  BY ContentTypes DEF ContentInv, ReadingSound, ReportSound
<1>. QED  BY <1>1, <1>2, <1>3, PTL DEF ContentSpec, Content!Spec, Content!vars, ContentVars
=============================================================================
