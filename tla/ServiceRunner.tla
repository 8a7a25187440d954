---------------------------- MODULE ServiceRunner ----------------------------
(***************************************************************************)
(* service_runner: one process that ticks every worker in an asyncio task  *)
(* of its own, stops them all on a signal or on an error, and cuts off the *)
(* ones that do not come back in time.  What a tick does is in the         *)
(* workers' own modules; here it ends, fails, hangs in an await, or hangs  *)
(* in a synchronous call, which keeps the event loop to itself: no task,   *)
(* timer or signal handler of the process runs any more.  A synchronous    *)
(* call that returns is part of the step that makes it: nothing else runs  *)
(* meanwhile.                                                              *)
(*                                                                         *)
(* Operators named X_Variant are plausible bugs of X; nothing uses them.   *)
(***************************************************************************)
EXTENDS Naturals

CONSTANTS
    Workers,      \* the enabled entries of worker_defs
    Blocking,     \* those whose ticks make synchronous calls
    MaxIter       \* bound: values of --max-iterations; 0 stands for none

VARIABLES
    maxIterations, stopOnError, ready,   \* the command line; usage and preflight
    worker,      \* the task of each: "new", "tick", "hung" in an await of a tick, "call" hung
                 \* in a synchronous call of a tick, "pause" or "done"
    iteration,   \* ticks begun, counted if there is a limit
    signal,      \* SIGTERM or SIGINT: "none", "arrived" or "handled"
    stop,        \* stop_event
    reason,      \* shutdown_reason
    errors,      \* summary.errors_total > 0
    main,        \* where run_all_workers is
    status,
    cut          \* history: workers that were cancelled within a tick

config == <<maxIterations, stopOnError, ready>>
tasks == <<worker, iteration, cut>>
vars == <<config, tasks, signal, stop, reason, errors, main, status>>

\* _validate_usage, _parse_runner_group_ids and preflight_all.
Refused == {"FAILED_USAGE", "FAILED_PREFLIGHT"}
Final == {"OK", "CANCELLED", "STOPPED_ON_ERROR", "SHUTDOWN_TIMEOUT"}

TypeOK ==
    /\ maxIterations \in 0 .. MaxIter /\ stopOnError \in BOOLEAN /\ ready \in {"ok"} \cup Refused
    /\ worker \in [Workers -> {"new", "tick", "hung", "call", "pause", "done"}]
    /\ iteration \in [Workers -> 0 .. maxIterations]
    /\ signal \in {"none", "arrived", "handled"} /\ stop \in BOOLEAN
    /\ reason \in {"none", "signal", "stop_on_error", "cancelled"}
    /\ errors \in BOOLEAN
    /\ main \in {"start", "wait", "grace", "cancelling", "over"}
    /\ status \in Final \cup Refused /\ cut \subseteq Workers

Init ==
    /\ maxIterations \in 0 .. MaxIter /\ stopOnError \in BOOLEAN /\ ready \in {"ok"} \cup Refused
    /\ worker = [w \in Workers |-> "new"] /\ iteration = [w \in Workers |-> 0]
    /\ signal = "none" /\ stop = FALSE /\ reason = "none" /\ errors = FALSE
    /\ main = "start" /\ status = "OK" /\ cut = {}

\* run_async: with a wrong command line or without its settings the program ends before
\* it opens a pool.
Start ==
    /\ main = "start"
    /\ IF ready = "ok" THEN main' = "wait" /\ UNCHANGED status
                       ELSE main' = "over" /\ status' = ready
    /\ UNCHANGED <<config, tasks, signal, stop, reason, errors>>
----------------------------------------------------------------------------
\* run_periodic_worker with the comparison of iterations off by one.
Exhausted_Variant(w) == maxIterations # 0 /\ iteration[w] > maxIterations

Exhausted(w) == maxIterations # 0 /\ iteration[w] >= maxIterations

\* Everything runs on one event loop, and a synchronous call keeps it to itself.
LoopFree == \A w \in Workers : worker[w] # "call"

Running == main \in {"wait", "grace"} /\ LoopFree

\* Workers that take turns: a tick begins only while no other is under way.
LoopHead_Variant(w) ==
    /\ Running /\ worker[w] \in {"new", "pause"}
    /\ stop \/ Exhausted(w) \/ \A v \in Workers : worker[v] \notin {"tick", "hung", "call"}
    /\ IF stop \/ Exhausted(w)
         THEN worker' = [worker EXCEPT ![w] = "done"] /\ UNCHANGED iteration
         ELSE /\ worker' = [worker EXCEPT ![w] = "tick"]
              /\ iteration' = [iteration EXCEPT ![w] = IF maxIterations = 0 THEN 0 ELSE @ + 1]
    /\ UNCHANGED <<config, signal, stop, reason, errors, main, status, cut>>

\* The head of the loop, at the start and after a pause, which ends with its time or
\* with stop_event.
LoopHead(w) ==
    /\ Running /\ worker[w] \in {"new", "pause"}
    /\ IF stop \/ Exhausted(w)
         THEN worker' = [worker EXCEPT ![w] = "done"] /\ UNCHANGED iteration
         ELSE /\ worker' = [worker EXCEPT ![w] = "tick"]
              /\ iteration' = [iteration EXCEPT ![w] = IF maxIterations = 0 THEN 0 ELSE @ + 1]
    /\ UNCHANGED <<config, signal, stop, reason, errors, main, status, cut>>

\* After a tick: the loop is left after the last iteration, otherwise it pauses.
AfterTick(w) == worker' = [worker EXCEPT ![w] = IF Exhausted(w) THEN "done" ELSE "pause"]

TickEnds(w) ==
    /\ Running /\ worker[w] = "tick"
    /\ AfterTick(w)
    /\ UNCHANGED <<config, iteration, signal, stop, reason, errors, main, status, cut>>

\* The tick raises: record_error, and the end of all workers if the command line says so.
TickFails(w) ==
    /\ Running /\ worker[w] = "tick"
    /\ errors' = TRUE
    /\ IF stopOnError
         THEN /\ stop' = TRUE /\ reason' = IF reason = "none" THEN "stop_on_error" ELSE reason
              /\ worker' = [worker EXCEPT ![w] = "done"]
         ELSE AfterTick(w) /\ UNCHANGED <<stop, reason>>
    /\ UNCHANGED <<config, iteration, signal, main, status, cut>>

\* A synchronous call of the tick does not come back: urlopen of Telegram or the backend,
\* whose timeout counts for each operation of the socket and not for the call, or invoke
\* of the translation model.
CallHangs(w) ==
    /\ Running /\ worker[w] = "tick" /\ w \in Blocking
    /\ worker' = [worker EXCEPT ![w] = "call"]
    /\ UNCHANGED <<config, iteration, signal, stop, reason, errors, main, status, cut>>

\* An await within the tick does not come back.
TickHangs(w) ==
    /\ Running /\ worker[w] = "tick"
    /\ worker' = [worker EXCEPT ![w] = "hung"]
    /\ UNCHANGED <<config, iteration, signal, stop, reason, errors, main, status, cut>>

\* A tick that swallows CancelledError.
WorkerCancelled_Variant(w) ==
    /\ main = "cancelling" /\ worker[w] \in {"new", "pause"}
    /\ worker' = [worker EXCEPT ![w] = "done"] /\ UNCHANGED cut
    /\ UNCHANGED <<config, iteration, signal, stop, reason, errors, main, status>>

\* CancelledError reaches the task at its next await and is raised again.
WorkerCancelled(w) ==
    /\ main = "cancelling" /\ worker[w] # "done"
    /\ worker' = [worker EXCEPT ![w] = "done"]
    /\ cut' = IF worker[w] \in {"tick", "hung"} THEN cut \cup {w} ELSE cut
    /\ UNCHANGED <<config, iteration, signal, stop, reason, errors, main, status>>
----------------------------------------------------------------------------
\* SIGTERM or SIGINT arrives; once something stops the runner, a signal changes nothing.
Signal ==
    /\ main = "wait" /\ ~stop /\ signal = "none"
    /\ signal' = "arrived"
    /\ UNCHANGED <<config, tasks, stop, reason, errors, main, status>>

\* The handler is a callback of the event loop: _request_shutdown.
SignalHandled ==
    /\ signal = "arrived" /\ LoopFree /\ main # "over"
    /\ signal' = "handled"
    /\ stop' = TRUE /\ reason' = IF reason = "none" THEN "signal" ELSE reason
    /\ UNCHANGED <<config, tasks, errors, main, status>>

\* run_all_workers itself is cancelled, once: all tasks are.
Cancel ==
    /\ main \in {"wait", "grace", "cancelling"} /\ status # "CANCELLED" /\ LoopFree
    /\ status' = "CANCELLED" /\ main' = "cancelling"
    /\ stop' = TRUE /\ reason' = IF reason = "none" THEN "cancelled" ELSE reason
    /\ UNCHANGED <<config, tasks, signal, errors>>

AllDone == \A w \in Workers : worker[w] = "done"

\* A result that does not look at the reason of the shutdown.
Finish_Variant ==
    /\ main' = "over"
    /\ status' = IF stopOnError /\ errors THEN "STOPPED_ON_ERROR" ELSE status

\* The end of run_all_workers; run_async then closes the pool.
Finish ==
    /\ main' = "over"
    /\ status' = CASE stopOnError /\ errors -> "STOPPED_ON_ERROR"
                   [] ~(stopOnError /\ errors) /\ status = "OK" /\ reason = "signal" -> "CANCELLED"
                   [] OTHER -> status

\* The waiting loop ends with the last worker or with stop_event.
MainWakes ==
    /\ main = "wait" /\ LoopFree /\ (stop \/ AllDone)
    /\ IF AllDone THEN Finish ELSE main' = "grace" /\ UNCHANGED status
    /\ UNCHANGED <<config, tasks, signal, stop, reason, errors>>

\* A timeout that does not wait for the tasks it has cancelled.
GraceTimeout_Variant ==
    /\ main = "grace" /\ LoopFree /\ ~AllDone
    /\ main' = "over" /\ status' = "SHUTDOWN_TIMEOUT"
    /\ UNCHANGED <<config, tasks, signal, stop, reason, errors>>

\* shutdown_timeout_seconds have passed: the remaining tasks are cancelled.
GraceTimeout ==
    /\ main = "grace" /\ LoopFree /\ ~AllDone
    /\ main' = "cancelling" /\ status' = "SHUTDOWN_TIMEOUT"
    /\ UNCHANGED <<config, tasks, signal, stop, reason, errors>>

\* The gather of the remaining tasks returns.
Gathered ==
    /\ main \in {"grace", "cancelling"} /\ AllDone
    /\ Finish
    /\ UNCHANGED <<config, tasks, signal, stop, reason, errors>>

MainStep == Start \/ MainWakes \/ GraceTimeout \/ Gathered

WorkerStep(w) ==
    \/ LoopHead(w) \/ TickEnds(w) \/ TickFails(w) \/ WorkerCancelled(w)
    \/ TickHangs(w) \/ CallHangs(w)

Next == MainStep \/ Signal \/ SignalHandled \/ Cancel \/ \E w \in Workers : WorkerStep(w)

Spec == Init /\ [][Next]_vars

\* While no synchronous call hangs, the event loop serves every task, timer and signal
\* that is ready.  A tick need not end: it may hang.
Fairness ==
    /\ WF_vars(MainStep) /\ WF_vars(SignalHandled)
    /\ \A w \in Workers : WF_vars(WorkerStep(w))

LiveSpec == Spec /\ Fairness
----------------------------------------------------------------------------
\* main: the exit code of the program.
ExitCode ==
    CASE status = "OK" -> 0
      [] status \in Refused -> 2
      [] status = "CANCELLED" -> 130
      [] OTHER -> 1

\* The pool is closed only when no task is left that could use it: run_all_workers
\* returns after every worker has ended, a cancelled or hanging one too.
PoolOutlivesWorkers == main = "over" /\ status \notin Refused => AllDone

\* The exit code is 0 only if every worker made its last iteration: no stop was asked
\* for, and no tick was cut off or left hanging.
ExitZeroMeansComplete ==
    main = "over" /\ ExitCode = 0 =>
        /\ ~stop /\ cut = {}
        /\ maxIterations # 0 /\ \A w \in Workers : iteration[w] = maxIterations

\* A shutdown comes to an end however many ticks hang in an await, and a signal leads to
\* one, unless a synchronous call hangs.
ShutdownEnds == []LoopFree => (stop \/ signal = "arrived" ~> main = "over")

\* A worker that does not hang itself ticks and pauses for ever, whatever fails or hangs
\* in the other workers, as long as nothing stops the runner and no synchronous call hangs.
WorkersIndependent ==
    []LoopFree =>
        \A w \in Workers :
            <>[](main = "wait" /\ ~stop /\ maxIterations = 0 /\ worker[w] # "hung")
                => []<>(worker[w] = "tick") /\ []<>(worker[w] = "pause")
=============================================================================
