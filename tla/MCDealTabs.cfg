CONSTANTS
  alice = alice
  bob = bob
  dso = dso
  cc = cc
  d1 = d1
  d2 = d2
  a1 = a1
  a2 = a2
  a3 = a3
  r1 = r1
  tabA = tabA
  tabB = tabB
  tabB2 = tabB2
  None = None
  Parties <- MCParties
  Admins = {dso}
  Instruments = {cc}
  Deals = {d1}
  Roots = {r1}
  Creations = {}
  LateWithdrawals = TRUE
  AllocIds = {a1, a2, a3}
  Terms <- MCEscrowTerms
  Specs <- MCSpecs
  Wealth = 3
  MaxTime = 2
  MaxRound = 0
  Sessions = {tabA, tabB, tabB2}
  PartyOf <- TwoPayerTabs
  OneMinute = 1
  FiveMinutes = 2
  MaxLost = 1
SYMMETRY Symmetries
SPECIFICATION WithWithdrawals
INVARIANTS
  LocksBounded
  FundingFits
CHECK_DEADLOCK FALSE
