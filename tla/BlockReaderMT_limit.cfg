CONSTANTS
    MaxFrames = 2
    Endings = {"limit"}
    Blocks = {b1, b2, b3}
    ZBlocks = {z1, z2}
    NoBuf = NoBuf
SYMMETRY Symmetry
SPECIFICATION Spec
INVARIANT LimitReported
