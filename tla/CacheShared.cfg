SPECIFICATION Spec
CONSTANTS
    Threads = {t1, t2}
    Rids = {b1, b2, b3, b4}
    Small = {b1}
    SizeOf <- SmallAndLarge
    MaxSize = 3
    EncryptAtRest = TRUE
    WritesFail = TRUE
    RemovesFail = TRUE
SYMMETRY CacheSymmetry
INVARIANTS SizeIsSum OvershootBounded NoStrayFiles EntriesBacked
 
