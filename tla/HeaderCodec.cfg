CONSTANTS
    B32 = 70000
    B64 = 100000
    MaxVector = 80000
    MaxAttrs = 69000
    MaxString = 69000
    Lengths = {0, 1, 31, 32, 252, 253, 255, 256, 65535, 65536, 69000, 69001, 69999, 70000, 80000, 80001}
SPECIFICATION Spec
INVARIANTS TypeOK HeaderRoundTrip LimitsBothSides HeaderFitsReserve
