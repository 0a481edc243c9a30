SPECIFICATION Spec
CONSTANTS
  Values = {c1, c2, c3}
  Callers = {r1, r2}
  NoConn = NoConn
  Capacity = 1
  Second = 2
  StaleTimeout = 3
  MaxTime = 5
INVARIANT NoLeak
