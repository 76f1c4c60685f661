SPECIFICATION Spec
CONSTANTS
  MaxRows = 3
  Checkpoint = 2
  MaxRetries = 3
  Faults = {"enqueue", "reject", "callback", "lose"}
  MaxFaults = 4
INVARIANT CompletedCountsOnce
CHECK_DEADLOCK FALSE
