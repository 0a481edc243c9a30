SPECIFICATION ProxySpec
CONSTANTS
  Values = {c1, c2, c3}
  Callers = {u1, t1}
  UDPHandlers = {u1}
  NoConn = NoConn
  Capacity = 1
  Second = 1
  MaxTime = 1
  StaleTimeout = 1
  MaxUpstreamRetries = 1
  ReadSizes = {1, 2}
  MaxRequests = 2
SYMMETRY ConnSymmetry
INVARIANTS ProxyTypeOK OwnResponse PooledIsQuiet RetryBound
