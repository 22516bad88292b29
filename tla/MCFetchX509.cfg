CONSTANTS
    Procs = {p1, p2}
    Before = Before
    Malformed = Malformed
    MaxSvids = 2
    Responses <- SmallResponses

SPECIFICATION FairSpec

INVARIANTS
    TypeOK
    MixedSetExplained
    BadBlobStopsBeforeDisk
    UncoveredSetsStay
    WideKeysArePrior

PROPERTIES
    SoloRunPublishes
    ImplementsPublish
    EveryRunEnds

\* Invocations end and nobody starts another.
CHECK_DEADLOCK FALSE
