\* Slabs of eight bytes; a uint32_t holds less than 16, so 15 stands for NA.
SPECIFICATION SlabsSpec
CONSTANTS
  SlabBytes = 8
  Word = 16
  MaxStringLength = 10
  Max8 = 3
  Max16 = 6
  Lengths = {0, 1, 3, 5, 8, 9, 12, 15, 18}
  MaxStrings = 4
INVARIANTS
  TypeOK
  ViewsIntact
  SizesKept
