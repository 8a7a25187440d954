-------------------------- MODULE MCOutboundSender --------------------------
(* Answers of the kinds the gateway queues, and the settings they meet. *)
EXTENDS OutboundSender

Block(turn, kind, rank) == [turn |-> turn, kind |-> kind, rank |-> rank]

\* The two blocks of _deposit_missing_intro_commands, then a plain text.
BlocksThenPlain == <<Block(1, "image", 0), Block(1, "text", 1), Block(2, "text", NoBlock)>>

\* A plain text with a menu.
TextAndMenu == <<Block(1, "text", NoBlock), Block(1, "buttons", NoBlock)>>

\* A menu that does not exist, then an image and a message type the sender does
\* not know.
Unsendable ==
    <<Block(1, "unknown_menu", 0), Block(1, "image", 1), Block(2, "unsupported", NoBlock)>>

\* A staff picture (telegram_reply_consumer).
StaffPicture == <<Block(1, "telegram_image", 0)>>

MCSetups ==
    {[blocks |-> BlocksThenPlain, maxGroup |-> 20, imageFallback |-> FALSE,
      leaseOutlivesWork |-> TRUE, maxFaults |-> 1, maxPutOff |-> 0],
     [blocks |-> TextAndMenu, maxGroup |-> 20, imageFallback |-> FALSE,
      leaseOutlivesWork |-> TRUE, maxFaults |-> 1, maxPutOff |-> 0],
     [blocks |-> Unsendable, maxGroup |-> 2, imageFallback |-> TRUE,
      leaseOutlivesWork |-> TRUE, maxFaults |-> 2, maxPutOff |-> 0],
     [blocks |-> StaffPicture, maxGroup |-> 2, imageFallback |-> TRUE,
      leaseOutlivesWork |-> FALSE, maxFaults |-> 1, maxPutOff |-> 1],
     [blocks |-> StaffPicture, maxGroup |-> 2, imageFallback |-> TRUE,
      leaseOutlivesWork |-> TRUE, maxFaults |-> 1, maxPutOff |-> 3]}
=============================================================================
