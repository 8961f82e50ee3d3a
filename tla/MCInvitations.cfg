CONSTANTS
  alice = alice
  bob = bob
  carol = carol
  phone = phone
  laptop = laptop
  deal = deal
  team = team
  job = job
  None = None
  Guests <- MCGuests
  Rooms = {deal, team, job}
  KindOf <- MCKindOf
  Invited <- MCInvited
  MaxMembers = 3
  MaxOffers = 2
  MaxInflight = 2
  MaxFaults = 1
SPECIFICATION TwoRooms
INVARIANTS
  AdmittedAsRegistered
CHECK_DEADLOCK FALSE
