SPECIFICATION FeedSpec
CHECK_DEADLOCK FALSE
CONSTANTS
  None = None
  RingCapacity = 2
  ChannelCapacity = 2
  MaxFrames = 4
  MaxLives = 2
  FrameType <- MCFrameType
  Mentions = {1, 4}
INVARIANTS
  NothingElseLost
  InOrder
PROPERTY
  FeedDrains
