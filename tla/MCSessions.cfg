SPECIFICATION Spec
CONSTANTS
  ann = ann  bob = bob  phone = phone  tablet = tablet  low = low  high = high  link = link
  Accounts = {ann, bob}
  Devices = {ann, bob, phone, tablet}
  NoAccount = NoAccount
  Spaces = {low, Own, high}
  Own = Own
  NoSpace = NoSpace
  Rank <- KeyOrder
  JTIs = {link}
  NoJTI = NoJTI
  Deleg <- Links
  Reqs = {r1, r2}
  NoMsg = NoMsg
  Messages <- Workload
  InitDevices <- Rows0
  InitEscrow = {ann, bob}
  InitSessions = {ann, phone}
  ChallengeTTL = 1
  AssertionLife = 2
  AssertionSkew = 1
  BindingSkew = 0
  MaxChallenges = 1
  MaxIssued = 2
  MaxRequests = 3
  MaxClock = 2
SYMMETRY Symmetry
CHECK_DEADLOCK FALSE
INVARIANTS
  EscrowKept
  SessionsFollowBinding
  DeviceSpeaksForItsAccount
  RevokedStaysOut
  DelegationOnce
