SPECIFICATION Spec
CONSTANTS
    Message <- OnePacket
    MaxMessages = 1
    DefaultCap = 8
INVARIANT OnlyCompletePackets
CHECK_DEADLOCK FALSE
