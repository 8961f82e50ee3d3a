CONSTANTS
  alice = alice
  bob = bob
  charlie = charlie
  t1 = t1
  t2 = t2
  None = None
  Nodes = {alice, bob}
  Creator = alice
  Texts = {t1, t2}
  MaxCrashes = 1
  MaxLost = 0
SPECIFICATION LiveSpec
PROPERTIES
  LossIsLocal
CHECK_DEADLOCK FALSE
