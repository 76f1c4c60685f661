SPECIFICATION FairSpec
CONSTANTS
  s1 = s1
  s2 = s2
  p1 = p1
  p2 = p2
  u1 = u1
  Schedules = {s1, s2}
  Passes = {p1, p2}
  Users = {u1}
  NoSchedule = NoSchedule
  Starts = {0}
  Periods = {1}
  Workers = 1
  MaxRetries = 1
  Faults = {"crash", "enqueue", "start", "render", "lose"}
  MaxTime = 1
  MaxInputs = 3
  Lists <- MCLists
INVARIANTS EachSlotOnce RunsShowTheirTask
PROPERTIES ImplementsLedger DueEventuallyRuns RunsEventuallySettle
