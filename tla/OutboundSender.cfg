SPECIFICATION FairSpec
CONSTANTS
    Workers = {w1, w2}
    MaxRetries = 2
    Setups <- MCSetups
    MaxRows = 3
INVARIANTS
    SendsAccounted
PROPERTIES
    InOrder
    EveryRowSettles
CHECK_DEADLOCK FALSE
