CONSTANTS
  alice = alice
  bob = bob
  dso = dso
  cc = cc
  d1 = d1
  d2 = d2
  a1 = a1
  a2 = a2
  a3 = a3
  r1 = r1
  tabA = tabA
  tabB = tabB
  tabB2 = tabB2
  None = None
  Parties <- MCParties
  Admins = {dso}
  Instruments = {cc}
  Deals = {d1}
  Roots = {r1}
  Creations = {}
  LateWithdrawals = TRUE
  AllocIds = {a1, a2}
  Terms <- MCTerms
  Specs <- MCSpecs
  Wealth = 2
  MaxTime = 3
  MaxRound = 1
  Sessions = {tabA, tabB}
  PartyOf <- OneTabEach
  OneMinute = 1
  FiveMinutes = 2
  MaxLost = 1
SPECIFICATION PersistentSpec
INVARIANTS
  ClientTypeOK
  NoticesAreTrue
  StageAnnounced
PROPERTIES
  OperationsEnd
  RetryFunds
CHECK_DEADLOCK FALSE
