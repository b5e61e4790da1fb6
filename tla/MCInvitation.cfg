SPECIFICATION Spec
CONSTANTS
  o = o  g = g  n = n  d = d  e = e  i1 = i1
  Invites = {i1}
  NoKey = NoKey
  NoMsg = NoMsg
  SpaceOwner = o
  AgentRead = TRUE
  Keys = {o, g, n}
  Devices = {o, g, n, d, e}
  Reqs = {r1, r2}
  Messages <- JoinWorkload
  InitUsers <- NewcomerUsers
  InitMembers <- OwnerAndGuest
  SingleUseSignup = FALSE
  MaxAccounts = 3
  MaxRequests = 3
SYMMETRY Symmetry
INVARIANTS
  UsesConserved
  AdmissionsWithinMax
  SpaceUsePaidFor
