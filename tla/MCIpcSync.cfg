SPECIFICATION Spec
CONSTANTS
  Thread = {a, b, m}
  Main = {m}
  NoThread = NoThread
  Initial = 1
  Spins = 1
  MaxSeq = 2
  MaxCount = 2
CHECK_DEADLOCK FALSE
INVARIANTS
  Exclusive
  NobodyIsForgotten
  SignalDelivered
PROPERTIES
  ImplementsPromise
  FreeLockIsTaken
