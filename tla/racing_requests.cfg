SPECIFICATION RunSpec
CONSTANTS
  alice = alice
  bob = bob
  root = root
  d1 = d1
  d2 = d2
  p1 = p1
  r1 = r1
  r2 = r2
  NoUser = NoUser
  NoShape = NoShape
  Users <- AliceAndBob
  Admins <- NoAdmins
  Days <- OneDay
  Shapes <- OneShape
  MaxSchedules = 2
  MaxPlans = 2
  MaxFreezes = 1
  MaxLockEvents = 2
  Slots <- TwoRequests
  Ops <- AllOps
  UniqueIndex = TRUE
  StartSchedules = 2
INVARIANTS
  ReferencesHold
  AtMostOneOfEach
  LockMatchesLastEvent
PROPERTY SerialPartRefines
SYMMETRY FullSymmetry
VIEW PartWithoutActor
CHECK_DEADLOCK FALSE
CONSTRAINT Bounded
