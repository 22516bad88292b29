SPECIFICATION FairSpec
CONSTANTS
    Agents = {a1, a2}
    Calls = {c1}
    Rotations <- SmallRotations
    Ttl = 2
    Window = 2
    Headers <- SmallHeaders
    Nobody = Nobody
    Stale = Stale
    Directory = Directory
INVARIANTS TypeOK PromptReaderCovered RepliesArePaced
PROPERTY RepliesKeepComing
