SPECIFICATION Spec
CONSTANTS
  None = None
  Raised = Raised
  Unused = Unused
  Deleted = Deleted
  r1 = r1
  r2 = r2
  t1 = t1
  t2 = t2
  a1 = a1
  Slots <- TwoRequests
  Privileged <- Freezer
  Teams <- TwoTeams
  Abstracts <- OneAbstract
  Sizes <- OneOrTwo
  Scores <- TwoScores
  Trials = 2
  Permits = 1
INVARIANTS
  TypeOK
  StoredIsSound
PROPERTY RequestsEnd
