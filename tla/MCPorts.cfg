SPECIFICATION Spec
CONSTANTS
  Reader = {r1, r2}
  MaxArrivals = 3
  MaxCancels = 2
CHECK_DEADLOCK FALSE
INVARIANTS EachOnceInOrder WaitersAreKept
PROPERTIES CallsComeBack
