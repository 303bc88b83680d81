SPECIFICATION FairSpec
CONSTANTS
  Rank = {0, 1, 2}
  SP = {"s0", "s1"}
  Group = {0, 1, 2}
  spOf <- ThreeSpOf
  hostOf <- TwoHosts
  MaxCreates = 2
  Persistent = TRUE
  EagerFree = FALSE
PROPERTIES PersistentStays PersistentPopulates
