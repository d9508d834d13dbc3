SPECIFICATION LinksSpec
CONSTANTS
  h1 = h1
  n = n
  i = i
  j = j
  u = u
  v = v
  Bridges = {1, 2}
  NoBridge = NoBridge
  Handles = {h1}
  Probers = {"maintain", "walker"}
  Ids = {i, j}
  Name <- MCName
  StaticUrl <- MCStaticUrl
  AdvertisedUrls = {v}
  Advertised <- MCAdvertised
  FirstId <- MCFirstId
  MaxRestarts = 1
  MaxFaults = 1
  NoId = NoId
INVARIANTS
  NoDeadSessions
  OneOutbound
PROPERTIES
  SessionReturns
  AliasesCollapse
