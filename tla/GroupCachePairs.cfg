SPECIFICATION FairSpec
CONSTANTS
  Rank = {0, 1, 2, 3}
  SP = {"s0", "s1"}
  Group = {0, 1, 2, 3}
  spOf <- PairsSpOf
  hostOf <- TwoHosts
  MaxCreates = 2
  Persistent = FALSE
  EagerFree = FALSE
INVARIANTS TypeOK LifecycleInv AssertionsHold EntriesOfOneVersion RevokeIsGlobal
PROPERTIES VersionStep CreateCompletes ImplementsBarrier EveryoneForgets
