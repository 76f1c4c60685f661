SPECIFICATION Spec
CONSTANTS
  r1 = r1
  r2 = r2
  w1 = w1
  w2 = w2
  u1 = u1
  u2 = u2
  Workers = {w1, w2}
  Users = {u1, u2}
  Rules = {r1}
  UserOps = {"resolve", "reactivate", "mute", "delete"}
  ClientStatuses = {"Resolved"}
  Faults = {"error"}
  Deadlines = {}
  MaxTime = 0
  MaxInputs = 3
  NoRule = NoRule
  NoDeadline = NoDeadline
SYMMETRY Symmetry
INVARIANTS TypeOK OpenByDistinctWorkers TriggeredHasIncident ResolvedIsBeingClosed IncidentIsQueued
PROPERTY DeletedStaysDeleted
