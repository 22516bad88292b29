CONSTANT
    Timeouts <- SmallTimeouts

SPECIFICATION FairSpec

INVARIANTS
    TypeOK
    FailureHasCause

PROPERTIES
    EveryCallEnds
    ImplementsRequest
