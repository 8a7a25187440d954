--------------------------- MODULE MCConversation ---------------------------
(* Small instances of Conversation: what the customer may write, what the  *)
(* LLM may decide and what the backend may answer, by topic.               *)
EXTENDS Conversation

Text(says) == [kind |-> "text", raw |-> says, says |-> says, identity |-> "none",
               image |-> "none", button |-> "none"]

Names(says, who) == [Text(says) EXCEPT !.identity = who]

Picture(what) == [Text({}) EXCEPT !.kind = "file", !.image = what]

Button(b) == [Text({}) EXCEPT !.button = b]

\* The router's answer is not confident: the rules decide.
Unsure == [confident |-> FALSE, intent |-> "unknown", route |-> "final_reply",
           relation |-> "unclear", preserve |-> TRUE]

Sure(intent, route, relation, preserve) ==
    [confident |-> TRUE, intent |-> intent, route |-> route, relation |-> relation,
     preserve |-> preserve]

\* Answers of the LLM about four intents, and calls for a human.
Relations == {"current_workflow_supplement", "current_workflow_resolution", "independent_faq",
              "new_workflow_request", "human_escalation", "none"}

AnyDecision ==
    {Sure(i, r, l, k) :
        i \in {"deposit_missing", "withdrawal_missing", Blocked, "clarification_needed"},
        r \in {"sop", "faq", "final_reply"}, l \in Relations \ {"human_escalation"}, k \in BOOLEAN}
    \cup {Sure("clarification_needed", "human_handoff", l, TRUE) : l \in Relations}
    \cup {Unsure}

A == [status |-> "success", fingerprint |-> "A"]
Failed == [status |-> "failed", fingerprint |-> "none"]
NotFound == [status |-> "not_found", fingerprint |-> "none"]

\* Rules only, one thread, nobody but the customer, nothing fails.
Plain == [threads |-> 1, messages |-> {}, decisions |-> {Unsure}, plans |-> {RulesPlan},
          aiFails |-> {FALSE}, answers |-> {}, found |-> {}, staff |-> {},
          events |-> 3, crashes |-> 0, fair |-> FALSE]

\* A blocked withdrawal: what may happen while the backend is asked.
Query == [Plain EXCEPT
    !.messages = {Names({"withdrawal_blocked"}, "u1"), Names({"disputes"}, "u2"),
                  Text({"disputes"}), Text({"human"}), Button("deposit_howto")},
    !.aiFails = BOOLEAN, !.answers = {A, Failed, NotFound}, !.crashes = 1]

\* The same with fewer messages, for ever.
LongQuery == [Plain EXCEPT
    !.messages = {Names({"withdrawal_blocked"}, "u1"), Text({"disputes"}), Text({"ack"})},
    !.answers = {A, Failed}, !.crashes = 1, !.fair = TRUE]

\* A customer who complains twice about the wait, with the name again in between.
Wait == [Plain EXCEPT
    !.messages = {Names({"withdrawal_blocked"}, "u1"), Text({"complains_of_wait"})},
    !.decisions = {Sure(Blocked, "sop", "current_workflow_supplement", TRUE)},
    !.answers = {Failed}, !.events = 4, !.fair = TRUE]

\* A customer who disputes what the backend answered; the LLM may take a message
\* for an independent question.
Dispute == [Plain EXCEPT
    !.messages = {Names({"withdrawal_blocked"}, "u1"), Text({"disputes"}), Text({"accepts"}),
                  Text({"ack"})},
    !.decisions = {Unsure, Sure("deposit_howto", "faq", "independent_faq", TRUE)},
    !.answers = {A, Failed}, !.events = 4]

\* A deposit case with buttons, which staff close.
Case == [Plain EXCEPT
    !.messages = {Names({"deposit_missing"}, "u1"), Picture("deposit"), Text({"resolved"}),
                  Text({"asks_deposit"}), Button("main_deposito")},
    !.decisions = {Unsure, Sure("deposit_missing", "sop", "current_workflow_resolution", FALSE)},
    !.staff = {"resolved"}]

\* Whatever the LLM says of the texts of a customer with a money case; the
\* planner finds or overlooks the identity.
Guard == [Plain EXCEPT
    !.messages = {Names({"deposit_missing"}, "u1"), Picture("deposit"), Text({"withdrawal_missing"}),
                  Text({"resolved"}), Names({"previous_case"}, "u1"),
                  Text({"amount", "deposit", "withdrawal"})},
    !.decisions = AnyDecision,
    !.plans = {[llm |-> TRUE, identity |-> i, relation |-> "current_sop_supplement"] :
                  i \in BOOLEAN}]

\* A second thread of the chat, with a case, a lookup and a handoff.
NewThread == [Plain EXCEPT
    !.threads = 2,
    !.messages = {Names({"deposit_missing"}, "u1"), [Picture("deposit") EXCEPT !.identity = "u1"],
                  Text({"complains_of_wait"}), Text({"human"}), Names({"previous_case"}, "u1")},
    !.found = {"found", "waiting"}, !.staff = {"under_review", "waiting_customer", "resolved"},
    !.crashes = 1]

\* Texts of the next thread that ask after a case of this one.
OtherThread == [Plain EXCEPT
    !.threads = 2,
    !.messages = {[Picture("withdrawal") EXCEPT !.raw = {"withdrawal_missing"},
                                                !.says = {"withdrawal_missing"}, !.identity = "u1"],
                  Button("main_deposito"), Text({"follows_up"}), Text({"received"})},
    !.events = 3]

\* Staff close a case that the next thread may be asking after.
Reminded == [OtherThread EXCEPT !.staff = {"resolved"}, !.events = 2]

MCTopics == [query |-> Query, longQuery |-> LongQuery, wait |-> Wait, dispute |-> Dispute,
             case |-> Case, guard |-> Guard, newThread |-> NewThread,
             otherThread |-> OtherThread, reminded |-> Reminded]
=============================================================================
