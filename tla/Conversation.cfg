SPECIFICATION LiveSpec
CONSTANTS
    MaxThreads = 2
    Topics <- MCTopics
INVARIANTS
    HandoffsSound
    QueryingHasQuery
    SecondDisputeReachesHuman
PROPERTIES
    MoneyCaseKept
    QueryEnds
CHECK_DEADLOCK FALSE
