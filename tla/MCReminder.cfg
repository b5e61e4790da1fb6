SPECIFICATION FairSpec
CONSTANTS
  rule = rule
  Rules = {rule}
  NoRow = NoRow
  Workers = {w1, w2}
  Reqs = {q1}
  Messages <- Workload
  NoMsg = NoMsg
  Offsets <- OneOffset
  Period = 1
  BatchSize = 2
  Grace = 1
  MaxClock = 3
  MaxFaults = 1
INVARIANTS FiredOncePerLoss NewestRuleWins EarlyOnlyIfRescheduled
CHECK_DEADLOCK FALSE
PROPERTIES FiresTheRule RequestsEnd DueRowsSettle
