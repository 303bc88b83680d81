SPECIFICATION FairSpec
CONSTANTS
  Type = {"cache", "app1", "app2"}
  Internal = {"cache"}
  MaxMsgs = 3
  MaxChanges = 2
INVARIANTS InOnePlace DeliveredInOrder
PROPERTIES MessagesDelivered
