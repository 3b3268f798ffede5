CONSTANTS
  Entity = {"rent"}
  TypeOf <- OneSplit
  Kind = {"MODIFY", "DESTROY"}
  Masks <- SomeMasks
  Handlers <- BothHandlers
  MaxId = 3
  MaxHeld = 1
SPECIFICATION Spec
INVARIANTS
  Notified
  CollectedExactly
  NoFreedNode
PROPERTIES
  TableStable
