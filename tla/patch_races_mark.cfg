SPECIFICATION EditSpec
CONSTANTS
  alice = alice
  bob = bob
  root = root
  d1 = d1
  d2 = d2
  p1 = p1
  r1 = r1
  r2 = r2
  NoUser = NoUser
  NoShape = NoShape
  Users <- AliceAndBob
  Admins <- NoAdmins
  Days <- TwoDays
  Shapes <- OneShape
  MaxSchedules = 1
  MaxPlans = 1
  MaxFreezes = 0
  MaxLockEvents = 1
  Slots <- TwoRequests
  Ops <- EditOps
  UniqueIndex = TRUE
  StartSchedules = 1
INVARIANT EverOfficialKeepsContent
CHECK_DEADLOCK FALSE
