SPECIFICATION FairSpec
CONSTANTS
  MaxRows = 5
  Checkpoint = 2
  MaxRetries = 3
  Faults = {"enqueue", "reject", "callback", "lose"}
  MaxFaults = 4
INVARIANT JobShowsItsFile
PROPERTY JobsEventuallyEnd
CHECK_DEADLOCK FALSE
