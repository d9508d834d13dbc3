SPECIFICATION PagesSpec
CHECK_DEADLOCK FALSE
CONSTANTS
  None = None
  a = a
  b = b
  Rows <- MCRows
  Batches <- MCBatches
  LegacyBatches <- MCLegacy
  Owners = {a}
  Limits = {1, 2}
  MaxSlots = 2
  BatchSize = 2
INVARIANT
  RecentComplete
