----------------------------- MODULE Algorithms -----------------------------
(***************************************************************************)
(* What the pure functions promise.  Chunker is a state machine of its own *)
(* and starts from all inputs; the functions of Manifest, Policy, Sentence *)
(* and Srb1 are applied once each, to the sample that a behaviour starts   *)
(* with.                                                                   *)
(***************************************************************************)
EXTENDS Rabin, Policy, Sentence, Srb1

CONSTANTS
    Manifests,   \* lists of blocks with a total size
    MaxRange,    \* bound: on the offset and length of a range
    Char,        \* the characters of names
    Globs,       \* a pattern with a path each
    Policies,    \* a list of rules with one more rule each
    Paths,       \* that policies are asked for
    BlockPairs,  \* what two blocks are made of: the header of one and the payload
                 \* of the other are put together
    Keys, Epochs, Hashes

Block == [offset: Nat, length: Nat \ {0}]

Segment == Seq(Char)

\* The parts of patterns that mean what they say: a star is at one end, if there
\* is one, or the part is **.
Plain(part) ==
    \/ part = DoubleStar
    \/ \A j \in DOMAIN part : part[j] = Star =>
         j \in {1, Len(part)} /\ \A n \in DOMAIN part \ {j} : part[n] # Star

Rule == [path_pattern: Seq(Segment), mutable: BOOLEAN, on_delete: {"Soft", "Reject"}]

\* What a block is made of.
BlockArgs == [key: Keys, aad: Seq(Nat), epoch: Epochs, compressed: BOOLEAN,
              content_hash: Hashes, plaintext: Seq(Nat)]

ASSUME AlgorithmsAssumption ==
    /\ MaxRange \in Nat /\ Star \in Char
    /\ \A m \in Manifests : m.blocks \in Seq(Block) /\ m.total_size \in Nat
    /\ \A g \in Globs : /\ g.pattern \in Seq(Segment) /\ \A k \in DOMAIN g.pattern : Plain(g.pattern[k])
                        /\ g.path \in Seq(Segment) /\ g.path # <<>>
    /\ \A p \in Policies : p.rules \in Seq(Rule) /\ p.rules # <<>> /\ p.rule \in Rule
    /\ \A p \in BlockPairs : p.header \in BlockArgs /\ p.payload \in BlockArgs

VARIABLE sample  \* the arguments that a function is applied to

Samples ==
    {[kind |-> "blocks", arg |-> x] : x \in Manifests}
    \cup {[kind |-> "glob", arg |-> x] : x \in Globs}
    \cup {[kind |-> "rules", arg |-> x] : x \in Policies}
    \cup {[kind |-> "reference", arg |-> x] : x \in References}
    \cup {[kind |-> "srb1", arg |-> x] : x \in BlockPairs}

NoConfig == [min_size |-> 0, max_size |-> 0, target_size |-> 0]

\* Either there is data to chunk or another function has a sample.
AlgorithmsInit ==
    /\ Init
    /\ \/ config # NoConfig /\ sample = [kind |-> "data", arg |-> data]
       \/ config = NoConfig /\ data = <<>> /\ sample \in Samples

AlgorithmsSpec == AlgorithmsInit /\ [][Next /\ UNCHANGED sample]_<<vars, sample>>

Sampled(kind) == sample.kind = kind /\ at = "start"

-----------------------------------------------------------------------------
(* Properties.                                                              *)

\* validate accepts exactly the lists of blocks that hold every byte once, and
\* blocks_in_range finds, for every range that is not empty, exactly the blocks
\* that hold bytes of it, whatever the list.
ManifestExact ==
    Sampled("blocks") =>
        LET blocks == sample.arg.blocks IN
        /\ validate(blocks, sample.arg.total_size) <=> EachByteOnce(blocks, sample.arg.total_size)
        /\ \A offset \in 0..MaxRange, length \in 1..MaxRange :
              blocks_in_range(blocks, offset, length) = Needed(blocks, offset, length)

\* The recursive match, and the shortcut for the patterns that match all paths,
\* decide as the reference definition does.
GlobExact ==
    Sampled("glob") => (glob_matches(sample.arg.pattern, sample.arg.path) <=> Fits(sample.arg.pattern, sample.arg.path))

\* A policy that ends in a rule for all paths decides every path, and a rule
\* that is added behind its end changes no decision.
CatchAllDecides ==
    Sampled("rules") =>
        LET rules == sample.arg.rules
            more == Append(rules, sample.arg.rule)
        IN Last(rules).path_pattern \in CatchAll =>
             \A path \in Paths :
                /\ can_write(rules, path) \in BOOLEAN
                /\ can_write(more, path) = can_write(rules, path)
                /\ can_delete(more, path) = can_delete(rules, path)

\* Every reference comes back from its sentence, though words straddle the bytes
\* and the lists share words.
ReferenceComesBack == Sampled("reference") => decode_ref(encode_ref(sample.arg)) = sample.arg

\* No sentence that differs from a reference's own in one word decodes to that
\* reference: with the check byte that the specification of sentence references
\* puts behind it and has verified, a reference has one sentence.
CheckByteVerified ==
    Sampled("reference") =>
        LET words == encode_ref(sample.arg) IN
        \A w \in Positions : \A word \in Range(wordlists[w % 4]) \ {words[w]} :
            decode_ref([words EXCEPT ![w] = word]) # sample.arg

\* A payload behind a header, its own or that of another block, decodes exactly
\* if key, caller's data and every field of the two agree, and then to what was
\* encoded: nothing in the header can be exchanged, and where the caller's data
\* ends and the header begins cannot be confused.  Data of LEN_VALUES bytes or
\* more is encoded without an error and never decoded again.
BlockAuthentic ==
    Sampled("srb1") =>
        LET h == sample.arg.header
            p == sample.arg.payload
            agree == /\ h.key = p.key /\ h.aad = p.aad /\ h.epoch = p.epoch
                     /\ h.compressed = p.compressed /\ h.content_hash = p.content_hash
            decoded == decode(h.key, Append(Header(h), Last(encode(p))), h.aad)
        IN IF agree /\ Len(p.plaintext) < LEN_VALUES /\ Len(h.plaintext) % LEN_VALUES = Len(p.plaintext)
             THEN decoded = [epoch |-> p.epoch, compressed |-> p.compressed,
                             content_hash |-> p.content_hash, plaintext |-> p.plaintext]
             ELSE decoded = BlockFormat
=============================================================================
