SPECIFICATION RestartSpec
CONSTANTS
  Values = {1, 2, 3, 4, 5}
  Callers = {u1}
  UDPHandlers = {u1}
  NoConn = NoConn
  Capacity = 1
  Second = 1
  MaxTime = 0
  StaleTimeout = 0
  MaxUpstreamRetries = 1
  ReadSizes = {2}
  MaxRequests = 2
  MaxFaults = 1
PROPERTIES GivesUpOutnumbered AnsweredInTheEnd ImplementsService
CHECK_DEADLOCK FALSE
