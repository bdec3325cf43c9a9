SPECIFICATION Spec
CONSTANTS
  Proc = {p, q, s}
  Worker = {w1, w2, w3}
  NoWorker = NoWorker
  Lease = {c1, c2}
  Release = {r1, r2}
  MinWorkers = 1
  MaxWorkers = 1
  MaxDoubled = 1
SYMMETRY Symmetry
CHECK_DEADLOCK FALSE
INVARIANTS
  OnePlace
  OneLessee
  WaitersAreOwed
  SizeBounded
