SPECIFICATION FairSpec
CONSTANTS
    NULL = NULL
    Packet <- MCPacket
    MaxPackets = 2
    Requests = {"c", "D"}
    MaxFailures = 1
    MaxIntr = 1
    MaxRuns = 2
INVARIANTS
    TypeOK
    NoLostWakeup
    NoUseAfterFree
    DrainedWithoutInterrupt
PROPERTIES
    CloseTerminates
    InterruptStopsLoop
    InterruptFlagIsCleared
    DisconnectEndsRun
    UsesTarget
