CONSTANTS
  alice = alice
  bob = bob
  carol = carol
  dso = dso
  mint = mint
  cc = cc
  d1 = d1
  d2 = d2
  a1 = a1
  a2 = a2
  r1 = r1
  r2 = r2
  r3 = r3
  None = None
  Parties <- MCParties
  Admins = {dso, mint, bob}
  Instruments = {cc}
  Deals = {d1, d2}
  Roots = {r1, r2}
  Creations <- MCCreations
  LateWithdrawals = TRUE
  AllocIds = {a1, a2}
  Terms <- MCTerms
  Specs <- MCSpecs
  Wealth = 2
  MaxTime = 2
  MaxRound = 1
SYMMETRY Symmetries
SPECIFICATION Spec
INVARIANTS
  TypeOK
  OneActivePerLine
  HistoryBehind
  EscrowBacked
  FundedBeforeWork
  PaidExactlyWhenApproved
  NoDoubleSettlement
  RoundsAreRequested
  Conservation
PROPERTIES
  ImplementsPromise
CHECK_DEADLOCK FALSE
