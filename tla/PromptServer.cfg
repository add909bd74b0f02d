\* Clients that may die, and connections that may be reset, at any time.
SPECIFICATION Spec
CONSTANTS
  c1 = c1
  c2 = c2
  c3 = c3
  Clients = {c1, c2, c3}
  NoClient = NoClient
  Message <- Messages
  Backlog = 1
  Faults = {"crash", "reset"}
  CounterMax = 3
INVARIANTS
  IInv
  MessageIntact
  CommandsInOrder
PROPERTIES
  OnlyCutMessagesHold
  MessageIsRun
  ServerStops
  ManagerReturns
\* The server may end, and main need not.
CHECK_DEADLOCK FALSE
