SPECIFICATION ReaderFairSpec
CONSTANTS
    Room = 2
    MaxLen = 3
    MaxSends = 2
    Polls = 2
    MaxSignals = 1
INVARIANTS
    StringsIntact
    MutexMatches
PROPERTIES
    ReaderResponsive
    SendReturnsIfRead
CHECK_DEADLOCK FALSE
