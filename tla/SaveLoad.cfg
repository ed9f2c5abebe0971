\* Objects of one and of three blocks, saved over each other.
SPECIFICATION Spec
CONSTANTS
    Blocks <- TwoSizes
    SizeMaxes = {3, 7, 15}
    InitialCapacity = 2
    Unused <- NoPiece
INVARIANTS
    TypeOK
    ChecksumIsLast
    FailureLeavesPrefix
    NoSilentLoss
    ValidatedIsIntact
    SavedReadsBack
