SPECIFICATION FairSession
CONSTANTS
    Agents = {a1, a2}
    Calls = {c1}
    Cli = c1
    Rotations <- SmallRotations
    Ttl = 1
    Window = 1
    Headers <- OnlyTrue
    CommandLines <- SmallLines
    Thousand = 2
    Sixty = 2
    MaxU64 = 5
    Horizon = 8
    FarFuture = 5
    Nobody = Nobody
    Stale = Stale
    Directory = Directory
INVARIANTS SessionTypeOK ErrorsAreAbsence SlowMeansNotServing TimeoutHonoured
PROPERTIES SvidIsFresh ImplementsCall SessionEnds
