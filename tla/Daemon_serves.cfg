SPECIFICATION FairSpec
CONSTANTS
  Nil = Nil
  Unreadable = Unreadable
  Files <- MCFiles
  Verbosities <- MCVerbosities
  DefaultWorkers = 2
  Links = {k1, k2}
  MaxBegun = 3
INVARIANTS TypeOK NoFault Ledger
PROPERTIES ComesUp Settles
CHECK_DEADLOCK FALSE
