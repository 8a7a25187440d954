CONSTANTS
    MaxEvents = 1
    MaxAgentReplies = 1
    MaxFaults = 2
SPECIFICATION FairSpec
PROPERTIES
    ImplementsHumanControl
    QueuesDrain
    RequestsResolve
CHECK_DEADLOCK FALSE
