---------------------------- MODULE HumanControl ----------------------------
(***************************************************************************)
(* What the system promises about who speaks in a conversation: the bot    *)
(* takes on work (messages to send, commands to execute) only while it     *)
(* owns the conversation, ownership moves towards the human and never      *)
(* back, and a takeover adds no work of its own.                           *)
(***************************************************************************)
CONSTANT Work           \* the work items the bot may take on

VARIABLES
    owner,              \* "bot", "handing_over" or "human"
    work                \* the items taken on so far

Init == owner = "bot" /\ work = {}

\* The bot answers, and possibly asks for a human, in one step.
BotTurn ==
    /\ owner = "bot"
    /\ owner' \in {"bot", "handing_over"}
    /\ \E new \in SUBSET Work : work' = work \cup new

\* A person joins, invited or not.
HumanTakes == owner' = "human" /\ UNCHANGED work

Next == BotTurn \/ HumanTakes

Spec == Init /\ [][Next]_<<owner, work>>
=============================================================================
