SPECIFICATION FairSpec
CONSTANTS
  Proc = {k, a, b}
  Kernel = k
  NoProc = NoProc
  Roots = {a, b}
  Waits = {w1}
  MaxInFlight = 1
  MaxBusy = 3
  Off = {}
INVARIANTS
  WorkerMatchesState
PROPERTIES
  StatusReported
  ReapedForGood
  TermIsFatal
  WaitOnZombieEnds
CHECK_DEADLOCK FALSE
