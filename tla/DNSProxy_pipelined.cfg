SPECIFICATION ProxySpec
CONSTANTS
  Values = {c1, c2}
  Callers = {u1, t1}
  UDPHandlers = {u1}
  NoConn = NoConn
  Capacity = 1
  Second = 1
  MaxTime = 0
  StaleTimeout = 1
  MaxUpstreamRetries = 1
  ReadSizes = {2, 3, 4}
  MaxRequests = 2
INVARIANT OwnResponse
