SPECIFICATION Spec
CONSTANTS
    Message <- OnePacket
    MaxMessages = 2
    DefaultCap = 16
INVARIANT NoPacketLost
CHECK_DEADLOCK FALSE
