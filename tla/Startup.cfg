SPECIFICATION Spec
CONSTANTS
  NumSps = 4
  NumRanks = 2
  SpsPerDpu = 2
  ListDpus <- TwoDpus
  Configs <- TwoDpuConfigs
  WorldFirst = TRUE
INVARIANTS
  PlansAgree
  AssertionsHold
  ReachesEveryone
  ActiveCounted
  TerminatedLast
PROPERTIES
  EveryoneConnects
  Terminates
