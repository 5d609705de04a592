SPECIFICATION AlgorithmsSpec
CONSTANTS
    Byte = {0}
    Sizes = {0}
    MaxData = 0
    Inputs <- MCInputs
    Fingerprints <- MCFingerprints
    Update <- rabin_update
    XorWords <- MCXor
    WINDOW_SIZE = 4
    POLYNOMIAL = 5
    RADIX = 2
    MODULUS = 16
    Manifests <- MCManifests
    MaxRange = 0
    Char = {"a", "b", "*"}
    Globs <- MCGlobs
    Policies <- MCPolicies
    Paths <- MCPaths
    REF_BYTES = 5
    WORDS_PER_REF = 4
    BITS_PER_WORD = 3
    BYTE_BITS = 2
    wordlists <- MCWordlists
    LEN_VALUES = 2
    Keys = {1}
    Epochs = {0}
    Hashes = {0}
    BlockPairs <- MCBlockPairs
INVARIANT CheckByteVerified
CHECK_DEADLOCK FALSE
