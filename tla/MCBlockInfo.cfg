SPECIFICATION MCSpec
CONSTANTS
  Window = 3
  MaxHeight = 9
  Gaps <- MCGaps
  Offsets <- MCOffsets
  Sizes <- MCSizes
INVARIANTS WindowKept BatchesRight
PROPERTIES CatchesUp
