--------------------------- MODULE MCTelegramCase ---------------------------
(* What may happen to a case, by the part of its life. *)
EXTENDS TelegramCase

CONSTANTS w1, w2

\* Staff replies with failing calls.
Replies == [workers |-> {w1}, threads |-> 1, texts |-> {"photo"}, cards |-> 1,
            replies |-> 2, turns |-> 0, takenOver |-> {}, faults |-> 2]

\* Staff replies that change the case, and an agent who takes over.
Decisions == [workers |-> {w1}, threads |-> 1, texts |-> {"noted", "reject"}, cards |-> 1,
              replies |-> 2, turns |-> 0, takenOver |-> {"HANDOFF_REQUESTED", "HUMAN_ACTIVE"},
              faults |-> 0]

\* Reminders from two later threads, sent by two workers.
TwoReminders == [workers |-> {w1, w2}, threads |-> 3, texts |-> {"done"}, cards |-> 1,
                 replies |-> 0, turns |-> 2, takenOver |-> {}, faults |-> 0]

\* A reminder with failing calls.
Reminder == [workers |-> {w1}, threads |-> 2, texts |-> {"done"}, cards |-> 2,
             replies |-> 1, turns |-> 1, takenOver |-> {}, faults |-> 1]

MCSetups == {Replies, Decisions, TwoReminders, Reminder}
=============================================================================
