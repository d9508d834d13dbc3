SPECIFICATION Spec
CONSTANTS
  MaxPeriod = 3
  ThreadCount = 1
  g = g
  c = c
  b = b
  d = d
  e = e
  f1 = f1
  f2 = f2
  Blocks = {g, c, b, d, e, f1, f2}
  Ops = {}
  AsyncIds = {}
  DeferredIds = {}
  Trails = {}
  BlockSlot <- MCBlockSlot
  Parents <- MCParents
  BlockOps <- MCBlockOps
  Chains <- MCChains
  None = None
  Miss = Miss
  Lookaround = 3
  ReachBound = 3
  ExecFrames <- ForkExec
  TransferFrames <- Nothing
  PeerPatches <- ForkPeer
  LegacyPatches <- Nothing
  ForcedVerdicts <- Nothing
INVARIANTS
  TruthKept
  NewestDeadYields
