SPECIFICATION FairSpec
CONSTANTS
  Pool <- FiveEvents
  MaxEmits = 3
  MaxSubs = 2
  MaxErrors = 1
  MaxPosted = 2
INVARIANTS
  PoolConsistent
  AssertionsHold
  CallbackOnce
PROPERTIES
  MetaAfterSubs
  EventsReturned
  CallbackInvoked
