SPECIFICATION Spec
CONSTANTS
  NumClients = 3
  Callers = {p1, p2}
  Policies = {"RoundRobin", "Random", "HistoricalConnections", "Failover"}
  Healthy = {}
  Down = {}
  MaxProvided = 5
SYMMETRY CallerSymmetry
INVARIANTS TypeOK LoadBalanced FailsOverInOrder
PROPERTY Rotates
CHECK_DEADLOCK FALSE
