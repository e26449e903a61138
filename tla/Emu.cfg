SPECIFICATION Spec
CONSTANTS
  Program <- MCProgram
  Torn <- MCTorn
  RegCount = 3
  ByteSize = 2
  MEM_SIZE = 16
  RegWrite <- MCRegWrite
  Access <- MCAccess
INVARIANTS
  TypeOK StopsForAReason TohostEndsRun
PROPERTIES
  BreakpointsHonoured ExecMatchesISA ImplementsTarget
