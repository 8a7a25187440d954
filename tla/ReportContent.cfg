SPECIFICATION ContentSpec
CONSTANTS
    Threads = {t1, t2}
    MaxDay = 2
    Setups <- MCSetups
SYMMETRY Symmetry
INVARIANTS
    ReportSound
CHECK_DEADLOCK FALSE
