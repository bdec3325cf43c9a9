SPECIFICATION Spec
CONSTANTS
  Reader = {r1, r2}
  HighWater = 2
  MaxMessages = 4
  MaxCancels = 2
CHECK_DEADLOCK FALSE
INVARIANTS DeliveredOnceInOrder LossBounded
PROPERTIES KeepsPromise EndIsSeen
