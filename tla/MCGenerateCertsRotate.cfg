CONSTANTS
    Absent = Absent
    Empty = Empty
    Keys = {k1, k2, k3, k4}
    Forces = {FALSE}
    Losable = {}

SPECIFICATION Spec
SYMMETRY KeySymmetry

INVARIANTS
    RerunRotates

\* Every key of the bound may be used up by runs that were cut short.
CHECK_DEADLOCK FALSE
