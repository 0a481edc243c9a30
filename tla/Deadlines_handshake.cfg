SPECIFICATION Spec
CONSTANTS
  Workers = {w1, w2}
  Streams = {t1}
  Socket = Socket
  Addrs = {a1}
  NoAddr = NoAddr
  Options <- AllOptions
  Longest = 3
  Never = Never
PROPERTY NotCutShort
