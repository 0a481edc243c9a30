SPECIFICATION Spec
CONSTANTS
  Workers = {w1, w2}
  Streams = {t1}
  Socket = Socket
  Addrs = {a1}
  NoAddr = NoAddr
  Options <- SoundOptions
  Longest = 3
  Never = Never
SYMMETRY WorkerSymmetry
INVARIANTS TypeOK InBounds NoMisuse
PROPERTY NotCutShort
