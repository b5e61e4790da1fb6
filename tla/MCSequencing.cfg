SPECIFICATION FairSpec
CONSTANTS
  a1 = a1  a2 = a2  k1 = k1  k2 = k2  k3 = k3
  c1 = c1  c2 = c2  c3 = c3  t1 = t1
  Apps = {a1}
  Keys = {k1, k2}
  Ids = {c1, c2, c3, s1, s2}
  Templates = {t1}
  SpaceIds = {s1, s2}
  SpaceOwners = {}
  Reqs = {r1, r2}
  Messages <- SequencingWorkload
  NoApp = NoApp
  NoTpl = NoTpl
  NoKey = NoKey
  NoReq = NoReq
  NoMsg = NoMsg
  NoRow = NoRow
  MaxAppsPerAccount = 0
  StaleWindow = 2
  Retention = 1
  PurgeAfter = 2
  MaxOrdinal = 5
  MaxClock = 4
INVARIANTS
  CursorFollowsSequence
  AppliedOnce
PROPERTIES
  ImplementsLog
  RequestsEnd
