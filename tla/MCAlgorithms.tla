---------------------------- MODULE MCAlgorithms ----------------------------
(***************************************************************************)
(* Instances of the algorithms for TLC: the runs of Chunker on all short   *)
(* inputs under all small configurations, and the functions of Manifest,   *)
(* Policy, Sentence and Srb1 on all small arguments.                       *)
(***************************************************************************)
EXTENDS Algorithms, Bitwise

CONSTANT MaxData  \* bound: on the length of the data to chunk

MCInputs == SeqOf(Byte, MaxData)
MCFingerprints == 0..(MODULUS - 1)
MCXor(x, y) == x ^^ y

\* Four lists that overlap, with no word at the same index in two of them.
MCWordlists == [l \in 0..3 |-> [k \in 0..(2^BITS_PER_WORD - 1) |-> (k + 3 * l) % (2^BITS_PER_WORD + 2)]]

MCManifests == [blocks: SeqOf([offset: 0..MaxRange, length: 1..MaxRange], 3), total_size: 0..MaxRange]

a == "a"
b == "b"
PatternSegments == {<<Star>>, DoubleStar, <<a>>, <<a, b>>, <<a, Star>>, <<Star, b>>}
PathSegments == {<<>>, <<a>>, <<b>>, <<a, b>>}
MCGlobs == [pattern: SeqOf(PatternSegments, 3) \ {<<>>}, path: SeqOf(PathSegments, 3) \ {<<>>}]

RulePatterns == CatchAll \cup {<<(<<a>>), DoubleStar>>, <<DoubleStar, <<Star, b>>>>}
Rules == [path_pattern: RulePatterns, mutable: {TRUE}, on_delete: {"Soft"}]
         \cup [path_pattern: RulePatterns, mutable: {FALSE}, on_delete: {"Soft", "Reject"}]
MCPolicies == [rules: SeqOf(Rules, 2) \ {<<>>}, rule: Rules]
MCPaths == SeqOf(PathSegments, 2) \ {<<>>}

MCBlockArgs == [key: Keys, aad: SeqOf({0, 1}, 1), epoch: Epochs, compressed: BOOLEAN,
                content_hash: Hashes, plaintext: SeqOf({0}, LEN_VALUES)]
MCBlockPairs == [header: MCBlockArgs, payload: MCBlockArgs]
=============================================================================
