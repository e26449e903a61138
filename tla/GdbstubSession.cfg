SPECIFICATION Spec
CONSTANTS
    NULL = NULL
    Packet <- MCPacket
    MaxPackets = 3
    Requests = {"c", "s", "Q", "m"}
    MaxFailures = 2
    MaxIntr = 0
    MaxRuns = 1
INVARIANTS
    AnswersInOrder
    EveryRequestAnswered
    FailuresAreConsecutive
    MainHonoursNoAck
