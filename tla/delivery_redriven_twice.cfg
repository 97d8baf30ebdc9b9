SPECIFICATION Spec
CONSTANTS
  d1 = d1
  d2 = d2
  r1 = r1
  s1 = s1
  s2 = s2
  NoDelivery = NoDelivery
  Deliveries = {d1}
  Records = {r1}
  Plan <- PlanOne
  Senders = {s1, s2}
  Reapers = {reaper}
  Apis = {api, other}
  Scripts = {}
  MaxAttempts = 2
  StreamRetries = 1
  MaxMessages = 1
  MaxRedrives = 2
  MaxFailures = 1
PROPERTY RedrivesWhatItRead
\* the service stops when every delivery is settled
CHECK_DEADLOCK FALSE
