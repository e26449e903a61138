SPECIFICATION Spec
CONSTANTS
    RegNum = 3
    Value = {v1, v2}
INVARIANTS
    AllOrNothing
