CONSTANTS
    MaxBlock = 4
    Reserve = 2
    U32 = 64
    Lengths = {0, 1, 3, 4, 5, 10}
    Headers = {1, 2}
    MaxCalls = 4
SPECIFICATION Spec
INVARIANTS
    BlockFits
    FrameSizes
    ReadsBack
