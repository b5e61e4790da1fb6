SPECIFICATION PushSpec
CONSTANTS
  ann = ann  web = web
  Users = {ann}
  Nobody = Nobody
  Subs = {web}
  NoSub = NoSub
  Gone = Gone
  UserOf <- Owners
  Transport <- Transports
  Events <- Workload
  Schedulers = {d1, d2}
  Patches = {p1, p2}
  Day = 2
  digestHour = 1
  MaxHour = 2
  MaxChanges = 4
  MaxCrashes = 1
CONSTRAINT Shared
SYMMETRY Symmetric
INVARIANTS NotifiedOnce OneDigestPerDue
 
CHECK_DEADLOCK FALSE
