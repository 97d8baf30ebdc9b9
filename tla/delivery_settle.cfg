SPECIFICATION Spec
CONSTANTS
  d1 = d1
  d2 = d2
  r1 = r1
  s1 = s1
  s2 = s2
  NoDelivery = NoDelivery
  Deliveries = {d1, d2}
  Records = {r1}
  Plan <- PlanTwo
  Senders = {s1}
  Reapers = {reaper}
  Apis = {}
  Scripts = {}
  MaxAttempts = 2
  StreamRetries = 1
  MaxMessages = 1
  MaxRedrives = 0
  MaxFailures = 1
INVARIANTS RecordsComplete DeadIsSeen
PROPERTY Settles
\* the service stops when every delivery is settled
CHECK_DEADLOCK FALSE
