CONSTANTS
  tab1 = tab1
  tab2 = tab2
  user = user
  partyA = partyA
  partyB = partyB
  None = None
  Tabs = {tab1, tab2}
  Users = {user}
  Parties = {partyA, partyB}
  MaxLogins = 1
  MaxTx = 1
  MaxCalls = 2
  MaxFaults = 1
SPECIFICATION UntilTheLastTransaction
SYMMETRY TabsAndParties
INVARIANTS
  SignedOutStays
  ExecutedAsApproved
CHECK_DEADLOCK FALSE
