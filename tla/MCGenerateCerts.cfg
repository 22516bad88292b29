CONSTANTS
    Absent = Absent
    Empty = Empty
    Keys = {k1, k2, k3, k4}
    Forces = {TRUE, FALSE}
    Losable <- Files

SPECIFICATION Spec
SYMMETRY KeySymmetry

INVARIANTS
    TypeOK
    DoneConsistent
    CutShortIsRepairable

PROPERTIES
    RerunIsIdempotent

\* Every key of the bound may be used up by runs that were cut short.
CHECK_DEADLOCK FALSE
