SPECIFICATION Spec
CONSTANTS
  Proc = {p1, p2}
  Roots = {p1}
  Handle = {h1, h2, h3}
  NoHandle = NoHandle
  MaxFd = 2
  Stdio = 1
  MaxHandles = 2
  Calls = {c1}
  MaxAwaits = 2
  Off = {"late"}
SYMMETRY Symmetry
CHECK_DEADLOCK FALSE
INVARIANTS Accounting HandlesResolve
