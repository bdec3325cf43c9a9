SPECIFICATION GatewayFair
CONSTANTS
  Client = {c1, c2}
  Tcp = {c1}
  Id = {i1, i2}
  None = None
  MaxBuffer = 5
  HighWater = 2
  MaxRequests = 3
INVARIANTS RequestsInOrder StreamsCancelled
PROPERTY RequestsAreAnswered
CHECK_DEADLOCK FALSE
