SPECIFICATION Spec
CONSTANTS
  Proc = {p, q}
  Name = {n}
  Call = {c1, c2}
  None = None
CHECK_DEADLOCK FALSE
PROPERTIES CallsAreAnswered
