SPECIFICATION Spec
CONSTANTS
  BucketSizes <- TwoSizes
  BucketMem = 4
  Page = 4
  Sizes = {2, 3, 5, 9}
  MaxHeld = 4
  MaxBuckets = 3
  MaxMems = 4
INVARIANTS MemoryOwned ChunksConserved OnlyOversizeFails
CHECK_DEADLOCK FALSE
