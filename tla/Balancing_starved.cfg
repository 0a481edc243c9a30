SPECIFICATION FairSpec
CONSTANTS
  NumClients = 2
  Callers = {p1, p2}
  Policies = {"HistoricalConnections"}
  Healthy = {1}
  Down = {0}
  MaxProvided = 2
PROPERTY SharesLoad
