CONSTANTS
    MaxBlock = 4
    Reserve = 2
    U32 = 16
    Lengths = {1, 4, 20}
    Headers = {1, 2}
    MaxCalls = 3
SPECIFICATION Spec
INVARIANTS
    ReadsBack
