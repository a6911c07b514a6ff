SPECIFICATION Spec
INVARIANTS
    FeeAsDocumented
CHECK_DEADLOCK FALSE
