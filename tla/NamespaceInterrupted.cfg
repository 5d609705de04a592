SPECIFICATION Spec
CONSTANTS
    Names = {n1, n2}
    NoName = NoName
    Attrs = {a1}
    MaxIno = 4
    MaxNlink = 5
    MayFail <- Interruptions
SYMMETRY NameSymmetry
INVARIANT OnlySymlinksStranded
PROPERTY ErrorChangesNothing
