CONSTANTS
    MaxBlocks = 2
    Endings = {"finish", "limit"}
    CompressMayFail = TRUE
    Blocks = {b1, b2, b3}
    ZBlocks = {z1, z2}
    NoBuf = NoBuf
SPECIFICATION FairSpec
INVARIANTS TypeOK BuffersExclusive FilePrefix NothingLost NoneAwaitedInVain
PROPERTIES Implements Termination
