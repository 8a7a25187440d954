SPECIFICATION Spec
CONSTANTS
    MaxMessages = 2
    MaxFaults = 1
INVARIANTS
    TypeOK
    NoRepeatedText
PROPERTIES
    WarnedBeforeClosing
    HandoffNotTakenBack
