SPECIFICATION Spec
CONSTANTS
    Agents = {a1, a2, a3}
    Calls = {c1}
    Rotations <- OneRotation
    Ttl = 1
    Window = 1
    Headers <- SmallHeaders
    Nobody = Nobody
    Stale = Stale
    Directory = Directory
SYMMETRY Interchangeable
INVARIANTS FailedStartHadRival
