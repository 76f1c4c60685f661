SPECIFICATION Spec
CONSTANTS
  r1 = r1
  r2 = r2
  demo = demo
  other = other
  Requests = {r1, r2}
  Emails = {demo, other}
  DemoEmail = demo
  Dates <- EveryDay
  Losses = TRUE
  MaxInputs = 1
INVARIANT SeedingWorks
CHECK_DEADLOCK FALSE
