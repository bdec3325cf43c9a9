SPECIFICATION Spec
CONSTANTS
  Proc = {k, a, b, c}
  Kernel = k
  NoProc = NoProc
  Roots = {a}
  Waits = {w1, w2}
  MaxInFlight = 2
  MaxBusy = 2
  Off = {"shutdown", "sigterm", "worker error"}
SYMMETRY Symmetry
INVARIANTS
  LiveChildListed
  WaitersReapTheirOwn
  NoLostWaiter
CHECK_DEADLOCK FALSE
