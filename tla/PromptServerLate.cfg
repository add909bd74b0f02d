\* The pipeline ends while a message is read or run.
SPECIFICATION Spec
CONSTANTS
  c1 = c1
  c2 = c2
  c3 = c3
  Clients = {c1, c2}
  NoClient = NoClient
  Message <- Messages
  Backlog = 2
  Faults = {}
  CounterMax = 3
INVARIANTS
  NoLateCommand
CHECK_DEADLOCK FALSE
