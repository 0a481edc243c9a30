SPECIFICATION FairSpec
CONSTANTS
  NumClients = 2
  Callers = {p1, p2}
  Healthy = {2}
  FirstExpiry = 1
  FailedClientExpiry = 4
  MaxDuration = 31
  MaxSelect = 1
  MaxDial = 1
  Never = Never
INVARIANTS TypeOK BackoffBound FailsOver
PROPERTIES LeftOutOnlyInFlight Returns
