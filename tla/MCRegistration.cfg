SPECIFICATION Spec
CONSTANTS
    Runs = {r1, r2}
    w1 = w1
    w2 = w2
    w3 = w3
    Workloads <- ThreeWorkloads
    Alias = alias
    Pods = {p1, p2}
    NoPod = NoPod
SYMMETRY Interchangeable
INVARIANTS TypeOK ParentsExist CountIsHonest UndeployClears
