SPECIFICATION Spec
CONSTANTS
  Values = {c1, c2, c3}
  Callers = {r1, r2}
  NoConn = NoConn
  Capacity = 2
  Second = 2
  StaleTimeout = 3
  MaxTime = 5
SYMMETRY Symmetry
INVARIANTS
  TypeOK
  Exclusive
  UsableIsOpen
  CapacityBound
  LeaksOnlyByFilling
  EventsHonest
PROPERTY NeverReusesStale
