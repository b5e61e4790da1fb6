SPECIFICATION Spec
CONSTANTS
  g1 = g1  g2 = g2  d1 = d1  d2 = d2  r1 = r1  r2 = r2  c1 = c1
  ann = ann  bob = bob
  Grants = {g1, g2}
  ClientOf <- OneClient
  Users = {ann, bob}
  NoUser = NoUser
  Devices = {d1, d2}
  NoDevice = NoDevice
  Reqs = {r1, r2}
  MaxLiveAgents = 1
  MaxPending = 2
  MaxPerClient = 1
  MaxGeneration = 2
  MaxRequests = 5
SYMMETRY Symmetric
INVARIANTS OneAgentPerCode ReplayKillsAgent RefreshTokenWorksOnce
