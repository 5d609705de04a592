SPECIFICATION Spec
CONSTANTS
    Names = {n1, n2}
    NoName = NoName
    Attrs = {a1, a2}
    MaxIno = 4
    MaxNlink = 5
    MayFail <- NoFailures
SYMMETRY NameSymmetry
INVARIANT AcknowledgedIsDurable
