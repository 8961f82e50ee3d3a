CONSTANTS
  alice = alice
  bob = bob
  charlie = charlie
  t1 = t1
  t2 = t2
  None = None
  Nodes = {alice, bob}
  Creator = alice
  Texts = {t1}
  MaxCrashes = 1
  MaxLost = 2
SPECIFICATION LiveSpec
INVARIANTS
  TypeOK
  NoKeyReuse
  EpochsFormALine
  NothingMissed
PROPERTIES
  Delivered
  GuestsHydrate
  PendingFinishes
CHECK_DEADLOCK FALSE
