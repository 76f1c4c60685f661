SPECIFICATION Spec
CONSTANTS
  r1 = r1
  r2 = r2
  demo = demo
  other = other
  Requests = {r1, r2}
  Emails = {demo, other}
  DemoEmail = demo
  Dates <- NewYear
  Losses = TRUE
  MaxInputs = 6
INVARIANTS SignupFailsOnlyByOverlap OneSessionPerLogin CookieWorks SeedingKeepsTenants
CHECK_DEADLOCK FALSE
