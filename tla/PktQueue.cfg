SPECIFICATION Spec
CONSTANTS
    NULL = NULL
    Packet = {p1, p2}
    Addr = {a1, a2, a3}
INVARIANTS
    ListShape
    OneOwner
PROPERTY ImplementsFifo
