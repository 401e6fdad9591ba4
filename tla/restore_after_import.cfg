SPECIFICATION Spec
CONSTANTS
  alice = alice
  bob = bob
  root = root
  d1 = d1
  d2 = d2
  p1 = p1
  p2 = p2
  NoUser = NoUser
  NoShape = NoShape
  Users <- JustAlice
  Admins <- NoAdmins
  Days <- OneDay
  Shapes <- TwoShapes
  MaxSchedules = 1
  MaxPlans = 2
  MaxFreezes = 0
  MaxLockEvents = 1
INVARIANT SlotsFitTheMatches
CHECK_DEADLOCK FALSE
