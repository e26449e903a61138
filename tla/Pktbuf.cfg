SPECIFICATION Spec
CONSTANTS
    Message <- Messages
    MaxMessages = 3
    DefaultCap = 8
INVARIANTS
    WellFramed
    FramesExact
    InterruptsExact
CHECK_DEADLOCK FALSE
