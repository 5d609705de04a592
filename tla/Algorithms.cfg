SPECIFICATION AlgorithmsSpec
CONSTANTS
    Byte = {0, 1}
    Sizes = {0, 1, 2, 3, 4}
    MaxData = 8
    Inputs <- MCInputs
    Fingerprints <- MCFingerprints
    Update <- rabin_update
    XorWords <- MCXor
    WINDOW_SIZE = 4
    POLYNOMIAL = 5
    RADIX = 2
    MODULUS = 16
    Manifests <- MCManifests
    MaxRange = 4
    Char = {"a", "b", "*"}
    Globs <- MCGlobs
    Policies <- MCPolicies
    Paths <- MCPaths
    REF_BYTES = 5
    WORDS_PER_REF = 4
    BITS_PER_WORD = 3
    BYTE_BITS = 2
    wordlists <- MCWordlists
    LEN_VALUES = 2
    Keys = {1, 2}
    Epochs = {0, 1}
    Hashes = {0, 1}
    BlockPairs <- MCBlockPairs
INVARIANTS ChunksTile ChunkSizes ContentDefined ManifestExact GlobExact CatchAllDecides ReferenceComesBack BlockAuthentic
CHECK_DEADLOCK FALSE
