SPECIFICATION Spec
CONSTANTS
  r1 = r1
  r2 = r2
  w1 = w1
  w2 = w2
  u1 = u1
  u2 = u2
  Workers = {w1}
  Users = {u1}
  Rules = {r1}
  UserOps = {"mute"}
  ClientStatuses = {}
  Faults = {}
  Deadlines = {1}
  MaxTime = 1
  MaxInputs = 3
  NoRule = NoRule
  NoDeadline = NoDeadline
INVARIANT ActiveHasNoOpenIncident
