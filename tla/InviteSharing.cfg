SPECIFICATION Spec
CONSTANTS
    Conns = {c1, c2}
    Tasks = {t1, t2}
    Invites = {i1}
    Users = {u1}
    MaxUses = 2
    MaxCount = 2
    MaxGrants = 3
    MaxTime = 2
SYMMETRY SharingSymmetry
INVARIANTS UsesWithinMax GrantsPaid RevokedIsFinal
