CONSTANTS
    t1 = t1
    t2 = t2
    t3 = t3
    t4 = t4
    t5 = t5
    t6 = t6
    Teams <- SixTeams
    Alliance = 2
    Starts <- StartWithRepeats
    Gap = 2
    LargeEvent = 24
    Moves <- TwoEach
    PolishMatches = 1
    Quota = 3
    Weights <- OddWeights
    BestKnown <- SomeBestKnown
SPECIFICATION Spec
INVARIANT SurrogatesStayThird
CHECK_DEADLOCK FALSE
