SPECIFICATION WeakFairSpec
CONSTANTS
  Rank = {0, 1, 2}
  SP = {"s0", "s1"}
  Group = {0, 1}
  spOf <- UninvolvedSpOf
  hostOf <- TwoHosts
  MaxCreates = 2
  Persistent = FALSE
  EagerFree = FALSE
PROPERTIES QueuedEntriesHandled
