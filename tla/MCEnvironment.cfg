SPECIFICATION Spec
CONSTANTS
    Cas = {k1, k2}
    None = None
    Nodes = {n1, n2}
    Polls = 2
SYMMETRY Interchangeable
INVARIANTS TypeOK TrustAgrees AgentsWereReady StoppedDownLeavesNoCluster
