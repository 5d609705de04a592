SPECIFICATION Spec
CONSTANTS
    Names = {n1, n2}
    NoName = NoName
    Attrs = {a1}
    MaxIno = 4
    MaxNlink = 4
    MayFail <- CheckedFailures
SYMMETRY NameSymmetry
INVARIANTS ListingAgrees Reachable NlinkCovers
PROPERTY ImplementsDirTree
