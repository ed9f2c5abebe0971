CONSTANTS
    MaxFrames = 2
    Endings = {"finish", "malformed", "limit"}
    Blocks = {b1, b2, b3}
    ZBlocks = {z1, z2}
    NoBuf = NoBuf
SPECIFICATION FairSpec
INVARIANTS TypeOK BuffersExclusive CurrentBlockIntact PollingEnds
PROPERTIES Implements Termination WholeStreamSucceeds
