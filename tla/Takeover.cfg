CONSTANTS
    MaxEvents = 2
    MaxAgentReplies = 1
    MaxFaults = 1
SPECIFICATION Spec
INVARIANTS
    TypeOK
    OneLateMessageAtMost
    AckPrecedesTransfer
PROPERTIES
    BotStaysOut
CHECK_DEADLOCK FALSE
