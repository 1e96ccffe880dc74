SPECIFICATION Spec
CONSTANTS
  Goroutines <- Three
  GateOf <- Kind
  Rules <- QueueWindow
  KeyOf <- QueueOnly
  MaxTime = 1
INVARIANT WindowBound
CHECK_DEADLOCK FALSE
