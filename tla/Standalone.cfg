SPECIFICATION LiveSpec
CONSTANTS
    Workers = {gateway_consumer, sender_worker, external_command_worker}
    Blocking = {external_command_worker}
    MaxIter = 2
    Records <- MCRecords
    MaxEnded = 2
    Manual = {m1}
    Topics = {0, 7}
    MaxClock = 5
    MaxFaults = 1
    FaqMenus = {}
    MaxInputs = 3
INVARIANTS
    RunnerSound
    ConclusionsFollow
    DeliverySound
    PickMeansShownItem
PROPERTIES
    Progress
CHECK_DEADLOCK FALSE
