CONSTANTS
    Plans <- ObjectPlans
    Levels = {13, 14}
    MaxBlock = 660
    PayloadSizes = {3, 5}
    MaxZBlock = 5
    Mask = 8
    SampleSize = 64
SPECIFICATION Spec
INVARIANTS TypeOK KernelsAgree BlockSurvives IntactReads
