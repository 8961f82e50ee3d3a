CONSTANTS
  r1 = r1
  r2 = r2
  None = None
  Rooms = {r1, r2}
  Kinds = {"socket"}
  MaxLog = 2
  MaxVisits = 1
  MaxThreads = 2
  MaxFaults = 1
SPECIFICATION Spec
INVARIANTS
  CursorsFollowDelivery
CHECK_DEADLOCK FALSE
