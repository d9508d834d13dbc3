SPECIFICATION FeedersSpec
CHECK_DEADLOCK FALSE
CONSTANTS
  MaxPeriod = 3
  ThreadCount = 1
  a = a
  b = b
  c = c
  e1 = e1
  o1 = o1
  o2 = o2
  Blocks = {a, b, c}
  Ops = {o1, o2}
  AsyncIds = {}
  DeferredIds = {}
  Trails = {}
  BlockSlot <- MCBlockSlot
  Parents <- MCParents
  BlockOps <- MCBlockOps
  None = None
  Miss = Miss
  Lookaround = 2
  ReachBound = 2
  ExecFrames <- MCExecFrames
  TransferFrames <- MCTransferFrames
  PeerPatches <- MCPeerPatches
  LegacyPatches <- MCLegacyPatches
  ForcedVerdicts <- MCForced
  Boots <- MCBoots
  Chain <- MCChain
  Legacy <- MCLegacy
  LegacySubs <- MCLegacySubs
  Remote <- MCRemote
  OpKind <- MCOpKind
  ImportMax = 2
  ImportMin = 0
  RepairFrom = 1
  RepairTo = 0
  PullParts = {"block", "transfers"}
  RequireScOps = FALSE
  RangePeriods = 1
  CheckpointEvery = 2
  FetchAttempts = 2
  Concurrency = 2
  LiveCapacity = 2
  BulkCapacity = 2
  MaxFaults = 2
INVARIANTS
  FeedersTypeOK
  ImportComplete
  NoInventedMiss
  CheckpointHonest
  CrashConsistent
PROPERTY
  FeedersFinish
