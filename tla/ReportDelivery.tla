--------------------------- MODULE ReportDelivery ---------------------------
(***************************************************************************)
(* The daily chat report of app.reporting.daily_chat_report: the scheduler *)
(* container, runs started by hand, the audit table that keeps two of them *)
(* from posting the same report, and the Telegram group.  What a report    *)
(* contains is module ReportContent.                                       *)
(*                                                                         *)
(* The clock counts half days of the report's time zone: 2d is day d       *)
(* before the daily run time, 2d + 1 is day d from that time on.           *)
(*                                                                         *)
(* Operators named X_Variant are plausible bugs of X; nothing uses them.   *)
(***************************************************************************)
EXTENDS Naturals

CONSTANTS
    Manual,      \* runs an operator may start by hand
    Topics,      \* values of message_thread_id: NoTopic or a topic
    MaxClock,    \* bound: half days
    MaxFaults    \* bound: failed calls and killed processes

NoTopic == 0
scheduler == "scheduler"
Runs == Manual \cup {scheduler}
Dates == 0 .. MaxClock \div 2
NoDate == MaxClock + 1

VARIABLES
    clock,     \* half days
    next,      \* the half day run_scheduler sleeps until
    run,       \* the step of every run, its report_date and its topic
    audit,     \* daily_chat_reports: the rows, by their unique key
    posted,    \* documents in the group, by date and topic
    faults

vars == <<clock, next, run, audit, posted, faults>>

Steps == {"idle", "read", "claim", "send", "sent", "failed"}
Idle == [pc |-> "idle", date |-> NoDate, topic |-> NoTopic]
Today == clock \div 2

\* _thread_key: a report without a topic is stored under topic 0, so that the
\* unique key applies to it.
_thread_key(topic) == topic

TypeOK ==
    /\ clock \in 2 .. MaxClock /\ next \in Nat /\ faults \in 0 .. MaxFaults
    /\ run \in [Runs -> [pc : Steps, date : Dates \cup {NoDate}, topic : Topics]]
    /\ \A k \in DOMAIN audit : k \in Dates \X Nat /\ audit[k] \in {"STARTED", "SENT", "FAILED"}
    /\ posted \in [Dates \X Topics -> Nat]

Goto(r, pc) == run' = [run EXCEPT ![r].pc = pc]
Fault == faults < MaxFaults /\ faults' = faults + 1
Key(r) == <<run[r].date, _thread_key(run[r].topic)>>
SetStatus(r, status) ==
    audit' = [k \in DOMAIN audit |-> IF k = Key(r) THEN status ELSE audit[k]]

\* A comparison with < where <= is meant: at the run time, the run time itself.
_next_run_at_Variant(now) == IF now % 2 = 0 THEN now + 1 ELSE now

\* _next_run_at: today's run time if it is still to come, otherwise tomorrow's.
_next_run_at(now) == IF now % 2 = 0 THEN now + 1 ELSE now + 2

\* The day that has just begun.
_report_date_Variant(now) == now \div 2

\* _report_date: the day before, unless --date names one.
_report_date(now) == now \div 2 - 1
----------------------------------------------------------------------------
Init ==
    /\ clock = 2
    /\ next = _next_run_at(2)
    /\ run = [r \in Runs |-> Idle]
    /\ audit = [k \in {} |-> "STARTED"]
    /\ posted = [k \in Dates \X Topics |-> 0]
    /\ faults = 0

\* asyncio.sleep returns on time: the clock does not pass a scheduler that is due.
\* A scheduled run is over before the next run time.
Due == run[scheduler].pc = "idle" /\ clock >= next

Tick ==
    /\ clock < MaxClock /\ ~Due
    /\ run[scheduler].pc = "idle" \/ clock % 2 = 1
    /\ clock' = clock + 1
    /\ UNCHANGED <<next, run, audit, posted, faults>>

\* run_scheduler wakes and calls _run_once: --send, the configured target.
ScheduledRun ==
    /\ Due
    /\ run' = [run EXCEPT ![scheduler] =
                  [pc |-> "read", date |-> _report_date(clock), topic |-> NoTopic]]
    /\ UNCHANGED <<clock, next, audit, posted, faults>>

\* An operator calls run --send, for a date and a topic of his choice.
ManualRun(r) ==
    /\ r \in Manual /\ run[r].pc = "idle"
    /\ \E d \in 0 .. Today, t \in Topics :
          run' = [run EXCEPT ![r] = [pc |-> "read", date |-> d, topic |-> t]]
    /\ UNCHANGED <<clock, next, audit, posted, faults>>

\* A run returns: the scheduler sleeps until the next run time, a run by hand ends.
AfterRun(r) ==
    /\ run' = [run EXCEPT ![r] = Idle]
    /\ next' = IF r = scheduler THEN _next_run_at(clock) ELSE next

\* A run raises: the loop of run_scheduler logs it and goes on.
Raised(r) == AfterRun(r)

\* The tables or the LiveChat archives are read and the PDF is written, or one
\* of these raises before the audit table knows of the run.  A --dry-run ends here.
Render(r) ==
    /\ run[r].pc = "read"
    /\ \/ Goto(r, "claim") /\ UNCHANGED <<next, faults>>
       \/ r \in Manual /\ AfterRun(r) /\ UNCHANGED faults
       \/ Fault /\ Raised(r)
    /\ UNCHANGED <<clock, audit, posted>>

\* A claim that takes over a row whose report was not sent.
start_once_Variant(r) ==
    /\ run[r].pc = "claim"
    /\ IF Key(r) \in DOMAIN audit /\ audit[Key(r)] = "SENT"
       THEN AfterRun(r) /\ UNCHANGED audit
       ELSE /\ audit' = [k \in DOMAIN audit \cup {Key(r)} |->
                            IF k = Key(r) THEN "STARTED" ELSE audit[k]]
            /\ Goto(r, "send")
            /\ UNCHANGED next
    /\ UNCHANGED <<clock, posted, faults>>

\* start_once: INSERT IGNORE a STARTED row; a run that finds the key taken returns
\* {"duplicate": True} whatever became of the first one.
start_once(r) ==
    /\ run[r].pc = "claim"
    /\ IF Key(r) \in DOMAIN audit
       THEN AfterRun(r) /\ UNCHANGED audit
       ELSE /\ audit' = [k \in DOMAIN audit \cup {Key(r)} |->
                            IF k = Key(r) THEN "STARTED" ELSE audit[k]]
            /\ Goto(r, "send")
            /\ UNCHANGED next
    /\ UNCHANGED <<clock, posted, faults>>

\* A client that does not look at the answer of Telegram.
SendDocument_Variant(r) ==
    /\ run[r].pc = "send"
    /\ Goto(r, "sent")
    /\ \/ posted' = [posted EXCEPT ![<<run[r].date, run[r].topic>>] = @ + 1] /\ UNCHANGED faults
       \/ Fault /\ UNCHANGED posted
    /\ UNCHANGED <<clock, next, audit>>

\* send_document: Telegram posts the document; the call may fail before that, or
\* time out after it.
SendDocument(r) ==
    /\ run[r].pc = "send"
    /\ \/ /\ posted' = [posted EXCEPT ![<<run[r].date, run[r].topic>>] = @ + 1]
          /\ \/ Goto(r, "sent") /\ UNCHANGED faults
             \/ Fault /\ Goto(r, "failed")
       \/ Fault /\ Goto(r, "failed") /\ UNCHANGED posted
    /\ UNCHANGED <<clock, next, audit>>

\* mark_sent, which is inside the same try as the call.
mark_sent(r) ==
    /\ run[r].pc = "sent"
    /\ \/ SetStatus(r, "SENT") /\ AfterRun(r) /\ UNCHANGED faults
       \/ Fault /\ Goto(r, "failed") /\ UNCHANGED <<audit, next>>
    /\ UNCHANGED <<clock, posted>>

\* mark_failed, and the exception is raised again.
mark_failed(r) ==
    /\ run[r].pc = "failed"
    /\ \/ SetStatus(r, "FAILED") /\ UNCHANGED faults
       \/ Fault /\ UNCHANGED audit
    /\ Raised(r)
    /\ UNCHANGED <<clock, posted>>

\* The process of a run is killed; Docker restarts the scheduler, which works out
\* its next run time from the clock.
Killed(r) ==
    /\ run[r].pc # "idle" \/ r = scheduler
    /\ Fault
    /\ AfterRun(r)
    /\ UNCHANGED <<clock, audit, posted>>

RunStep(r) ==
    Render(r) \/ start_once(r) \/ SendDocument(r) \/ mark_sent(r) \/ mark_failed(r)

Next ==
    \/ Tick
    \/ ScheduledRun
    \/ \E r \in Runs : ManualRun(r) \/ RunStep(r) \/ Killed(r)

Spec == Init /\ [][Next]_vars
\* Time passes, the scheduler wakes, and a run that is not killed takes its next step.
Fairness ==
    /\ WF_vars(Tick) /\ WF_vars(ScheduledRun)
    /\ \A r \in Runs : WF_vars(RunStep(r))

LiveSpec == Spec /\ Fairness
----------------------------------------------------------------------------
\* A report is posted at most once for a date and a topic, whatever runs overlap,
\* fail half way, time out after the document has arrived, or are killed: the claim
\* of start_once precedes the call and is never given back.
DeliveredAtMostOnce == \A k \in DOMAIN posted : posted[k] <= 1

\* A row SENT is the truth: the document is in the group.  (A row FAILED is not:
\* a call may time out after Telegram has taken the document.)
SentMeansDelivered ==
    \A d \in Dates, t \in Topics :
        LET k == <<d, _thread_key(t)>>
        IN  k \in DOMAIN audit /\ audit[k] = "SENT" => posted[d, t] = 1

\* Whatever a run raises, the scheduler comes back to waiting for a run time that
\* is still to come.
SchedulerKeepsGoing == []<>(run[scheduler].pc = "idle" /\ next > clock)

\* Every day whose run time is reached gets its report, by the scheduler or by hand,
\* as long as nothing fails.
EveryReportArrives ==
    \A d \in Dates : (clock = 2 * (d + 1) + 1) ~> (posted[d, NoTopic] = 1 \/ faults > 0)
=============================================================================
