SPECIFICATION FairSpec
CONSTANTS
  r1 = r1
  r2 = r2
  m1 = m1
  Slots <- TwoRequests
  Ops <- AllOps
  Matches <- OneMatch
  PullMode = TRUE
INVARIANTS
  TypeOK
  FlushedRowsHold
PROPERTIES
  KeepsReported
  RequestsEnd
  EventuallyFresh
CHECK_DEADLOCK FALSE
