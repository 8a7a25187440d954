CONSTANTS
    k1 = k1
    k2 = k2
    k3 = k3
    k4 = k4
    a = a
    b = b
    w1 = w1
    w2 = w2
    Keys <- MCKeys
    Chats <- MCChats
    ChatOf <- MCChatOf
    Ignored <- MCIgnored
    Workers <- MCWorkers
    NoWorker = NoWorker
    BatchLimit = 2
    Concurrency = 2
    LeaseOutlivesWork = TRUE
    MaxCrashes = 1
    MaxFailures = 1
SPECIFICATION FairSpec
INVARIANTS
    TypeOK
    ExclusiveChat
    SnapshotIsCurrent
    ProcessedInOrder
    NoEventDropped
PROPERTIES
    ImplementsChatInbox
    EveryEventProcessed
CHECK_DEADLOCK FALSE
