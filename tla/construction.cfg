CONSTANTS
    t1 = t1
    t2 = t2
    t3 = t3
    t4 = t4
    t5 = t5
    t6 = t6
    t7 = t7
    Shapes <- MixedShapes
    Slots = 4
SPECIFICATION Spec
SYMMETRY Interchangeable
INVARIANTS
    TypeOK
    FlagsAreRight
    BuiltOrShort
CHECK_DEADLOCK FALSE
