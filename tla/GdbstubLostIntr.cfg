SPECIFICATION FairSpec
CONSTANTS
    NULL = NULL
    Packet <- MCPacket
    MaxPackets = 1
    Requests = {"c"}
    MaxFailures = 2
    MaxIntr = 1
    MaxRuns = 1
PROPERTY InterruptReachesTarget
