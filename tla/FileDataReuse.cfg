SPECIFICATION Spec
CONSTANTS
    Bytes = {a, b}
    MaxLen = 1
    MaxIno = 2
    MaxFh = 2
    MaxCreates = 2
    MaxMessages = 2
    MaxRefs = 2
    HasTransport = TRUE
    MayFail <- NoFailures
    UnlinkWhileOpen = TRUE
SYMMETRY ByteSymmetry
INVARIANTS ReadBack
