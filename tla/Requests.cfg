SPECIFICATION Spec
CONSTANTS
  Config <- MCConfig
  Byte = {125, 175}
  MemSize = 2
  ReadLen = {1, 2, 28, 29, 31}
  Window = {2, 29, 70}
  Errno = {5, 14}
  RegbufSize = 1
  MAX_SEND_PACKET_SIZE = 62
  PacketSize = 98
INVARIANTS
  TypeOK MemoryViewExact RegisterViewExact ThreadViewExact CallbacksRespected
  TransferExact ChangedByteNoticed AnswersFit
