------------------------------ MODULE ChatInbox ------------------------------
(***************************************************************************)
(* What the inbound queue promises to each chat: a first-in-first-out      *)
(* inbox whose events are consumed one at a time, each exactly once.       *)
(***************************************************************************)
EXTENDS Naturals, Sequences

CONSTANT Chats

VARIABLES
    arrived,        \* per chat: the ids of its events
    consumed        \* per chat: the ids consumed, in order

ConsumedIds(c) == {consumed[c][n] : n \in 1 .. Len(consumed[c])}

Init ==
    /\ arrived = [c \in Chats |-> {}]
    /\ consumed = [c \in Chats |-> <<>>]

\* An event arrives behind all others of its chat.
Arrive(c) ==
    /\ \E i \in arrived'[c] :
          /\ \A j \in arrived[c] : j < i
          /\ arrived' = [arrived EXCEPT ![c] = @ \cup {i}]
    /\ UNCHANGED consumed

\* The oldest unconsumed event of a chat is consumed.
Consume(c) ==
    /\ \E i \in arrived[c] \ ConsumedIds(c) :
          /\ \A j \in arrived[c] \ ConsumedIds(c) : i <= j
          /\ consumed' = [consumed EXCEPT ![c] = Append(@, i)]
    /\ UNCHANGED arrived

Next == \E c \in Chats : Arrive(c) \/ Consume(c)

Spec == Init /\ [][Next]_<<arrived, consumed>>
=============================================================================
