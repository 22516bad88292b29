CONSTANT
    Timeouts <- TwoTicks

SPECIFICATION Spec

INVARIANTS
    WaitsAtMostTimeout
