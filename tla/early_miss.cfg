SPECIFICATION FeedersSpec
CHECK_DEADLOCK FALSE
CONSTANTS
  MaxPeriod = 2
  ThreadCount = 2
  a = a
  b = b
  c = c
  e1 = e1
  o1 = o1
  o2 = o2
  Blocks = {b, e1}
  Ops = {}
  AsyncIds = {}
  DeferredIds = {}
  Trails = {}
  BlockSlot <- MCBlockSlot
  Parents <- MCParents
  BlockOps <- MCBlockOps
  None = None
  Miss = Miss
  Lookaround = 2
  ReachBound = 2
  ExecFrames <- MCExecFrames
  TransferFrames <- MCTransferFrames
  PeerPatches <- MCPeerPatches
  LegacyPatches <- MCLegacyPatches
  ForcedVerdicts <- Nothing
  Boots <- FreshBoot
  Chain <- MCChain
  Legacy <- NoLegacy
  LegacySubs <- MCLegacySubs
  Remote <- MCRemote
  OpKind <- MCOpKind
  ImportMax = None
  ImportMin = 0
  RepairFrom = 1
  RepairTo = 0
  PullParts = {"block", "transfers"}
  RequireScOps = FALSE
  RangePeriods = 1
  CheckpointEvery = 2
  FetchAttempts = 2
  Concurrency = 2
  LiveCapacity = 2
  BulkCapacity = 2
  MaxFaults = 0
INVARIANT
  NoInventedMiss
