SPECIFICATION Spec
CONSTANTS
  alice = alice
  bob = bob
  root = root
  d1 = d1
  d2 = d2
  p1 = p1
  p2 = p2
  NoUser = NoUser
  NoShape = NoShape
  Users <- All3
  Admins <- OneAdmin
  Days <- TwoDays
  Shapes <- TwoShapes
  MaxSchedules = 2
  MaxPlans = 2
  MaxFreezes = 2
  MaxLockEvents = 3
INVARIANTS
  TypeOK
  AtMostOneOfEach
  OfficialIsLocked
  EverOfficialKeepsContent
  LockLogAgrees
  LineageEnds
PROPERTIES
  OverwrittenContentKept
  FreezeProtects
  LockExcludesOthers
  ActivationKeepsHeldActive
  KeepsOfficialRecord
CONSTRAINT Bounded
SYMMETRY FullSymmetry
VIEW WithoutActor
CHECK_DEADLOCK FALSE
