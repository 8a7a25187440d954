--------------------------- MODULE MCStandalone ---------------------------
(* Four components that share no state with the rest or with each other:     *)
(* the supervisor of the workers, a backend query, the delivery of the daily *)
(* report and the menus.  One of them runs in a behaviour, the others stay   *)
(* as they begin.                                                            *)
EXTENDS Naturals, Sequences

CONSTANTS Workers, Blocking, MaxIter, Records, MaxEnded, Manual, Topics, MaxClock, MaxFaults,
          FaqMenus, MaxInputs

VARIABLES part,
          maxIterations, stopOnError, ready, worker, iteration, signal, stop, reason, errors,
          main, status, cut,
          settings, session, call, window, again, reply, ended, found, pages, refusals,
          clock, next, run, audit, posted, faults,
          memory, outbox, shown, inbox, human, inputs, patient, last

runnerVars == <<maxIterations, stopOnError, ready, worker, iteration, signal, stop, reason,
                errors, main, status, cut>>
queryVars == <<settings, session, call, window, again, reply, ended, found, pages, refusals>>
reportVars == <<clock, next, run, audit, posted, faults>>
menuVars == <<memory, outbox, shown, inbox, human, inputs, patient, last>>

Runner == INSTANCE ServiceRunner
Query == INSTANCE BackendQuery
Report == INSTANCE ReportDelivery
Menus == INSTANCE LivechatMenus

MCRecords == {[status |-> "blank", remaining |-> 5], [status |-> "incomplete", remaining |-> 0],
              [status |-> "other", remaining |-> 5]}

\* What each component takes for granted about its constants.
ASSUME RunnerAssumption == Workers # {} /\ Blocking \subseteq Workers /\ MaxIter \in Nat
ASSUME QueryAssumption ==
    /\ \A r \in Records : r.status \in Query!Statuses /\ r.remaining \in Nat
    /\ MaxEnded \in Nat
ASSUME ReportAssumption ==
    /\ Report!scheduler \notin Manual
    /\ Report!NoTopic \in Topics /\ Topics \subseteq Nat
    /\ MaxClock \in Nat \ {0, 1} /\ MaxFaults \in Nat
ASSUME MenuAssumption ==
    /\ \A key \in FaqMenus : Menus!get_menu(key) \in DOMAIN Menus!MENUS
    /\ MaxInputs \in Nat

Init ==
    /\ part \in {"runner", "query", "report", "menus"}
    /\ Runner!Init /\ Query!Init /\ Report!Init /\ Menus!Init
    /\ part # "runner" => maxIterations = 0 /\ ~stopOnError /\ ready = "ok"
    /\ part # "query" => session = "none" /\ settings = CHOOSE s \in Query!Settings : TRUE

Next ==
    \/ part = "runner" /\ Runner!Next /\ UNCHANGED <<part, queryVars, reportVars, menuVars>>
    \/ part = "query" /\ Query!Next /\ UNCHANGED <<part, runnerVars, reportVars, menuVars>>
    \/ part = "report" /\ Report!Next /\ UNCHANGED <<part, runnerVars, queryVars, menuVars>>
    \/ part = "menus" /\ Menus!Next /\ UNCHANGED <<part, runnerVars, queryVars, reportVars>>

Spec == Init /\ [][Next]_<<part, runnerVars, queryVars, reportVars, menuVars>>

\* The fairness of each component, while it is the one that runs.
LiveSpec ==
    /\ Spec
    /\ WF_runnerVars(part = "runner" /\ Runner!MainStep)
    /\ WF_runnerVars(part = "runner" /\ Runner!SignalHandled)
    /\ \A w \in Workers : WF_runnerVars(part = "runner" /\ Runner!WorkerStep(w))
    /\ WF_queryVars(part = "query" /\ Query!QueryStep)
    /\ WF_reportVars(part = "report" /\ Report!Tick)
    /\ WF_reportVars(part = "report" /\ Report!ScheduledRun)
    /\ \A r \in Report!Runs : WF_reportVars(part = "report" /\ Report!RunStep(r))

\* The supervisor ends in order: the database pool is closed only after every worker
\* task has ended, and the exit code 0 means that every worker made its last iteration.
RunnerSound == Runner!TypeOK /\ Runner!PoolOutlivesWorkers /\ Runner!ExitZeroMeansComplete

\* What TacBackendClient tells the customer follows from the answers of the backend:
\* a requirement is met only after all five windows, remaining only if the last page
\* shows it, a player unknown only if the last search asked found none with an id.
ConclusionsFollow == Query!TypeOK /\ Query!ConclusionsFollow

\* The audit table keeps the daily report from being posted twice for a date and a
\* topic, whatever runs overlap, fail half way, time out late or are killed
\* (start_once), and a row SENT means that the document is in the group.
DeliverySound == Report!TypeOK /\ Report!DeliveredAtMostOnce /\ Report!SentMeansDelivered

\* A customer who waits for each answer gets what they picked: a digit or a label is
\* taken for the item of the menu on the screen (_detect_visible_menu_button_label).
PickMeansShownItem == Menus!TypeOK /\ Menus!PickMeansShownItem

\* Each component goes on: run_all_workers shuts down however many ticks hang, and until
\* then a hanging worker holds up no other, unless a synchronous call hangs; a backend query ends however often its
\* session does; run_scheduler returns to waiting whatever a run raises, and without
\* faults the report of every day arrives.
Progress ==
    /\ part = "runner" => Runner!ShutdownEnds /\ Runner!WorkersIndependent
    /\ part = "query" => Query!ReplyFollows
    /\ part = "report" => Report!SchedulerKeepsGoing /\ Report!EveryReportArrives
=============================================================================
