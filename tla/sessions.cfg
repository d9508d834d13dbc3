SPECIFICATION SessionSpec
CHECK_DEADLOCK FALSE
CONSTANTS
  Bridges = {b1, b2}
  MaxRequests = 2
  MaxServed = 2
  Capacity = 1
  Wanted <- MCWanted
  NoBridge = NoBridge
  NoSlot = NoSlot
INVARIANTS
  SessionTypeOK
  AnswersMatch
  NoWaiterLeaks
PROPERTY
  CallsEnd
