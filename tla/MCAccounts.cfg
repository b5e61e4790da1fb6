SPECIFICATION FairSpec
CONSTANTS
  ann = ann  bob = bob  cat = cat  dan = dan  d1 = d1  d2 = d2  d3 = d3  d4 = d4  a1 = a1  a2 = a2  a3 = a3
  Big = Big  small = small  other = other  third = third
  Keys = {ann, bob, cat, dan}
  NoKey = NoKey
  Devices = {d1, d2, d3, d4}
  Names = {Big, small, other, third}
  NoName = NoName
  Lower <- Capitals
  Apps = {a1, a2, a3}
  Unregistered = {a3}
  Reqs = {r1, r2}
  NoMsg = NoMsg
  Messages <- Workload
  NoRow = NoRow
  InitUsers <- Users0
  InitDevices <- Devices0
  InitRoles <- Roles0
  OpenRegistration = TRUE
  MaxAccounts = 2
  MaxRequests = 3
  MaxRestarts = 1
CHECK_DEADLOCK FALSE
INVARIANTS
  OwnerStays
  OwnedUnlessCrossed
PROPERTIES
  SealedSaltStable
  RequestsEnd
