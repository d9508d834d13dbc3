SPECIFICATION BackfillSpec
CHECK_DEADLOCK FALSE
CONSTANTS
  MaxPeriod = 3
  ThreadCount = 1
  g = g
  c = c
  b = b
  d = d
  f1 = f1
  f2 = f2
  p1 = p1
  q1 = q1
  Blocks = {g, c, b, d, f1, f2}
  Ops = {}
  AsyncIds = {}
  DeferredIds = {}
  Trails = {}
  BlockSlot <- MCBlockSlot
  Parents <- MCParents
  BlockOps <- MCBlockOps
  None = None
  Miss = Miss
  Lookaround = 3
  ReachBound = 3
  ExecFrames <- MCExecFrames
  TransferFrames <- Nothing
  PeerPatches <- MCPeerPatches
  LegacyPatches <- Nothing
  ForcedVerdicts <- Nothing
  Peers = {p1, q1}
  Dialable = {p1}
  RemoteRows <- MCRemoteRows
  Remote <- MCRemote
  BestRemote = 3
  EnabledParts = {"block", "exec", "transfers"}
  RangePeriods = 2
  RangeLimit = 2
  SparseThreshold = 2
  StaleCandidatePeriods = 1
  RecentIncompletePeriods = 1
  MaxRemoteHeadLead = 2
  RecheckPeriods = {1, 2}
  RecheckSweeps = 2
  BlockStream <- MCBlockStream
  ExecStream <- MCExecStream
  BulkCapacity = 2
  MaxFaults = 1
INVARIANT
  BackfillTypeOK
PROPERTIES
  HolesHeal
  SweepsEnd
  ForkUnwound
