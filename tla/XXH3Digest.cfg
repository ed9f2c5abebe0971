SPECIFICATION Spec
CONSTANTS
  StripeLen = 64
  StripesPerBlock = 16
  MidSizeMax = 240
  BufferStripes = 4
  Chunks = {1, 7, 9, 63, 65, 128, 191, 240, 257, 1024, 1281}
  MaxUpdates = 3
  HalfBits = 3
  ShiftBits = 4
  Prime32 = 5
  NeonLanes = 6
INVARIANTS
  TypeOK
  DigestIsOneShot
  EveryByteHashed
  BuildsAgree
