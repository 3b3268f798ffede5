CONSTANTS
  MaxId = 5
  MaxEvents = 3
  MaxPending = 3
  MaxSuspend = 1
SPECIFICATION Spec
INVARIANTS
  NoDanglingWalk
  Delivered
PROPERTIES
  OnlyDueHandlersCalled
  EventsEnd
