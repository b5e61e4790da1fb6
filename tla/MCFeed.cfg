SPECIFICATION FeedSpec
CONSTANTS
  a1 = a1  k1 = k1  k2 = k2  c1 = c1  c2 = c2  c3 = c3
  Apps = {a1}
  Keys = {k1, k2}
  Ids = {c1, c2, c3, s1}
  Templates = {}
  SpaceIds = {s1}
  SpaceOwners = {}
  Reqs = {r1, r2}
  Messages <- Workload
  NoApp = NoApp
  NoTpl = NoTpl
  NoKey = NoKey
  NoReq = NoReq
  NoMsg = NoMsg
  NoRow = NoRow
  MaxAppsPerAccount = 0
  StaleWindow = 2
  Retention = 1
  PurgeAfter = 2
  MaxOrdinal = 5
  MaxClock = 4
  Viewer = k2
  NoCursor = NoCursor
  Limit = 1
SYMMETRY Symmetry
INVARIANTS FeedComplete
PROPERTIES LossShows
