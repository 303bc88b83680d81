SPECIFICATION DaemonSpec
CONSTANTS
  NumSps = 2
  NumRanks = 1
INVARIANTS
  ConnectedWhenTermArrives
