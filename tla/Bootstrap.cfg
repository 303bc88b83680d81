SPECIFICATION FairSpec
CONSTANTS
  Client = {c1, c2, c3}
  SizeMax = 15
INVARIANTS IdsUniqueApart OwnDataApart OngoingBounded AssertionsHold
PROPERTIES ServerDone
