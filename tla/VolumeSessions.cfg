SPECIFICATION Spec
CONSTANTS
    Tasks = {t1, t2}
    Clis = {c1}
    Mounts = {m1}
    Blocks = {b1}
    MaxFiles = 2
    MaxOpens = 2
    MaxEpoch = 1
SYMMETRY ProcSymmetry
CONSTRAINT AtMostThree
INVARIANTS DestroyedForGood SessionBacked RotationKeepsTrack
PROPERTY ReplacedOnlyInRace
