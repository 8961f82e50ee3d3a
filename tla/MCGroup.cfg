CONSTANTS
  alice = alice
  bob = bob
  charlie = charlie
  t1 = t1
  t2 = t2
  None = None
  Nodes = {alice, bob, charlie}
  Creator = alice
  Texts = {t1}
  MaxCrashes = 0
  MaxLost = 1
SPECIFICATION FromRoomOfTwo
INVARIANTS
  AddressedToMembers
  RostersAgree
CHECK_DEADLOCK FALSE
