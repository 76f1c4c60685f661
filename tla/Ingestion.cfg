SPECIFICATION FairSpec
CONSTANTS
  e1 = e1
  e2 = e2
  e3 = e3
  i1 = i1
  i2 = i2
  q1 = q1
  listed = listed
  unlisted = unlisted
  Events = {e1, e2}
  ApiCalls = {e1}
  Ingesters = {i1, i2}
  Readers = {q1}
  Keys = {listed, unlisted}
  Listed = {listed}
  NoEntry = NoEntry
  Faults = {"stop", "enqueue"}
INVARIANTS TalliesAreExact ActiveIsCurrent FreshAfterInvalidation EvaluationFollows SourcesByOverlap
PROPERTIES EventsEventuallyGiven
