SPECIFICATION Spec
CONSTANTS
    Bytes = {a}
    MaxLen = 2
    MaxIno = 3
    MaxFh = 2
    MaxCreates = 2
    MaxMessages = 2
    MaxRefs = 2
    HasTransport = TRUE
    MayFail <- FlushFailures
    UnlinkWhileOpen = FALSE
INVARIANTS ManifestBacked RefCountsCover StoredOnce ReadBack
