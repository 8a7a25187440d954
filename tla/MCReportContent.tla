-------------------------- MODULE MCReportContent --------------------------
(* The report of one chat with what it takes for granted and what must be true *)
(* of it, and the sources it is made from.                                     *)
EXTENDS Naturals, Sequences, TLC

CONSTANTS Threads, MaxDay, Setups
VARIABLES setup, day, msgs, cm, ie, bare, cmds, handed, reading

Content == INSTANCE ReportContent WITH run <- reading

ASSUME ContentAssumption == Content!Configured

ContentSpec == Content!Spec

\* A finished report is true to its day: no customer message listed twice
\* (_fetch_inbound_event_messages), none lost, and a thread that was handed over is
\* filed as such (classify_thread).
ReportSound ==
    /\ Content!TypeOK
    /\ Content!CustomerListedOnce /\ Content!DayComplete /\ Content!HandoffReported

Symmetry == Permutations(Threads)

Tables == [source |-> "lingxi_db", kinds |-> {"text", "bot", "agent"}, lookupMayFail |-> TRUE,
           msgs |-> 3, handoffs |-> 0]

\* With replies of the staff in Telegram.
Staff == [Tables EXCEPT !.kinds = {"text", "bot", "staff"}, !.lookupMayFail = FALSE, !.msgs = 2]

Archives == [source |-> "lingxi", kinds |-> {"asks", "bot", "agent", "menu"}, lookupMayFail |-> FALSE,
             msgs |-> 2, handoffs |-> 1]

Plain == [source |-> "ai_customer_service", kinds |-> {"text", "asks", "bot", "transfer"},
          lookupMayFail |-> FALSE, msgs |-> 2, handoffs |-> 1]

MCSetups == [tables |-> Tables, staff |-> Staff, archives |-> Archives, plain |-> Plain]
=============================================================================
