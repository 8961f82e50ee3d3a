CONSTANTS
  r1 = r1
  r2 = r2
  None = None
  Rooms = {r1, r2}
  Kinds = {"polling", "socket"}
  MaxLog = 2
  MaxVisits = 2
  MaxThreads = 4
  MaxFaults = 1
SPECIFICATION FirstPageOfR1
INVARIANTS
  TypeOK
  ResumesBehind
  ClosedMeansClosed
  OneSubscription
  PageIsComplete
PROPERTIES
  CatchesUp
CHECK_DEADLOCK FALSE
