SPECIFICATION DeliverySpec
CONSTANTS
  MaxPeriod = 2
  ThreadCount = 1
  x = x
  y = y
  w = w
  t1 = t1
  t2 = t2
  o1 = o1
  Blocks = {x}
  Ops = {o1}
  AsyncIds = {}
  DeferredIds = {}
  Trails = {t1, t2}
  BlockSlot <- MCBlockSlot
  Parents <- MCParents
  BlockOps <- MCBlockOps
  Truth <- NodeTruth
  TrueTrail <- MCTrail
  None = None
  Miss = Miss
  Lookaround = 2
  ReachBound = 2
  ExecFrames <- NodeExec
  TransferFrames <- Nothing
  PeerPatches <- Nothing
  LegacyPatches <- Nothing
  ForcedVerdicts <- Nothing
INVARIANT
  OpStatusConverges
