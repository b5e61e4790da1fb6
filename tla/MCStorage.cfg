SPECIFICATION Spec
CONSTANTS
  s = s
  t = t
  c = c
  w = w
  u = u
  r1 = r1
  r2 = r2
  Ids = {s, t, w, c}
  NoId = NoId
  Users = {u}
  Exempt = {}
  Reqs = {r1, r2}
  NoMsg = NoMsg
  Messages <- Workloads
  Parts = 2
  Quota = 1
  Grace = 1
  MaxMonth = 1
  MaxRequests = 5
  MaxChanges = 2
SYMMETRY Symmetric
CONSTRAINT OneWorkload
INVARIANTS DeclaredContent ReadyHasBlob QuotaOvershootBounded
