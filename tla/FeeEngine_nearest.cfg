SPECIFICATION Spec
INVARIANTS
    FeeIsNearestPercent
PROPERTIES
    NetGrowsWithAmount
CHECK_DEADLOCK FALSE
