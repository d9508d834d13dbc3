SPECIFICATION Spec
CONSTANTS
  MaxPeriod = 2
  ThreadCount = 1
  x = x
  y = y
  z = z
  w = w
  t1 = t1
  t2 = t2
  o1 = o1
  m1 = m1
  d1 = d1
  Trails = {t1, t2}
  BlockSlot <- MCBlockSlot
  Parents <- MCParents
  BlockOps <- MCBlockOps
  None = None
  Miss = Miss
  Lookaround = 2
  ReachBound = 2
  Blocks = {x, y, z, w}
  Ops = {o1}
  AsyncIds = {m1}
  DeferredIds = {d1}
  ExecFrames <- AllExec
  TransferFrames <- AllXfers
  PeerPatches <- AllPeer
  LegacyPatches <- AllLegacy
  ForcedVerdicts <- AllForced
INVARIANTS
  TypeOK
  VerdictShape
  BlockStory
  ExecMatchesVerdict
  GapsVisible
PROPERTIES
  FirstFinalWins
  BitsKept
  ImplementsLedger
  OpHistory
  DeferredLeavesOnlyByPeer
  AsyncLeavesOnlyBySet
