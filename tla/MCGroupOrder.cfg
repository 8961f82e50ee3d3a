CONSTANTS
  alice = alice
  bob = bob
  charlie = charlie
  t1 = t1
  t2 = t2
  None = None
  Nodes = {alice, bob, charlie}
  Creator = alice
  Texts = {t1}
  MaxCrashes = 0
  MaxLost = 0
SPECIFICATION Spec
INVARIANTS
  OrderPreservesDecryption
CHECK_DEADLOCK FALSE
