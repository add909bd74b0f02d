\* A client may die at any time.
SPECIFICATION Spec
CONSTANTS
  c1 = c1
  c2 = c2
  c3 = c3
  Clients = {c1, c2}
  NoClient = NoClient
  Message <- Messages
  Backlog = 2
  Faults = {"crash"}
  CounterMax = 3
PROPERTIES
  ServerIsNotHeld
CHECK_DEADLOCK FALSE
