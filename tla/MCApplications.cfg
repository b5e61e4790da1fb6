SPECIFICATION Spec
CONSTANTS
  a1 = a1  a2 = a2  k1 = k1  k2 = k2  k3 = k3
  c1 = c1  c2 = c2  c3 = c3  t1 = t1
  Apps = {a1, a2}
  Keys = {k1, k2, k3}
  Ids = {c1, c2, c3, s1, s2}
  Templates = {t1}
  SpaceIds = {s1, s2}
  SpaceOwners = {}
  Reqs = {r1, r2}
  Messages <- ApplicationWorkloads
  NoApp = NoApp
  NoTpl = NoTpl
  NoKey = NoKey
  NoReq = NoReq
  NoMsg = NoMsg
  NoRow = NoRow
  MaxAppsPerAccount = 0
  StaleWindow = 2
  Retention = 1
  PurgeAfter = 2
  MaxOrdinal = 5
  MaxClock = 4
SYMMETRY Symmetry
CONSTRAINT OneApplication
INVARIANTS
  TombstoneClean
  OwnerKept
