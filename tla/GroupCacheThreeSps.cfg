SPECIFICATION Spec
CONSTANTS
  Rank = {0, 1, 2}
  SP = {"s0", "s1", "s2"}
  Group = {0, 1, 2}
  spOf <- SpreadSpOf
  hostOf <- ThreeHosts
  MaxCreates = 2
  Persistent = FALSE
  EagerFree = FALSE
INVARIANTS RevokesOfThisVersion
