SPECIFICATION FairSpec
CONSTANTS
  u1 = u1
  u2 = u2
  a1 = a1
  a2 = a2
  h1 = h1
  url = url
  Users = {u1, u2}
  Owner = u2
  Requests = {a1, a2}
  UserOf <- MCUserOf
  Incidents = {h1}
  RuleChannels = {{}, {"email", "webhook"}}
  Urls = {url}
  Nothing = Nothing
  Bodies <- MCBodies
  MaxRetries = 1
  Faults = {"error", "send", "answer", "die"}
  MaxInputs = 3
INVARIANTS ChannelsByDistinctRequests QuietSettingsAreKept RepeatedOnlyByRetry DeliveriesTell
PROPERTIES DeliveriesEnd
CHECK_DEADLOCK FALSE
