SPECIFICATION FairSpec
CONSTANTS
    w1 = w1
    w2 = w2
    Workers = {w1, w2}
    Consumers = {c1}
    NThreads = 3
    MaxRetries = 3
    MaxCards = 2
    MaxReplies = 2
    Setups <- MCSetups
INVARIANTS
    CaseSound
PROPERTIES
    RepliesInOrder
    CaseSettles
CHECK_DEADLOCK FALSE
