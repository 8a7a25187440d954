SPECIFICATION FairSpec
CONSTANTS
    Workers = {w1, w2}
    NoWorker = NoWorker
    MaxRetries = 3
    Setups <- MCSetups
INVARIANTS
    CommandSound
PROPERTIES
    RecordedTransferNotRepeated
    CommandSettles
CHECK_DEADLOCK FALSE
