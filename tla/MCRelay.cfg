CONSTANTS
  alice = alice
  bob = bob
  carol = carol
  c1 = c1
  None = None
  Installations = {alice, bob, carol}
  Runtimes = {1, 2, 3}
  Conversations = {c1}
  CreatorOf <- AliceCreates
  Remembered = 1
  MaxCommits = 2
  MaxFaults = 1
SPECIFICATION Purposeful
SYMMETRY BobLikeCarol
INVARIANTS
  RelayTypeOK
  CheckpointReadable
  NothingSkipped
  CommitsArePersisted
  SyncGetsOn
CHECK_DEADLOCK FALSE
