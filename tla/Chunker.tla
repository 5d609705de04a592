------------------------------ MODULE Chunker ------------------------------
(***************************************************************************)
(* Content-defined chunking: the function chunk of cdc.rs, one step for    *)
(* every round of its loop.                                                *)
(*                                                                         *)
(* The update of the rolling fingerprint is a parameter here, and module   *)
(* Rabin has the one of the code: that the chunks tile the data, and how   *)
(* long they are, depends on no property of it.                            *)
(***************************************************************************)
EXTENDS Manifest, Integers

CONSTANTS
    Byte,          \* the values of a byte
    Inputs,        \* the data to chunk
    Sizes,         \* the sizes a configuration can have
    Fingerprints,
    WINDOW_SIZE,
    Update(_, _, _)  \* of a fingerprint, the byte that enters the window and the
                     \* one that leaves it

ASSUME ChunkerAssumption ==
    /\ 0 \in Byte /\ Inputs \subseteq Seq(Byte)
    /\ Sizes \subseteq Nat
    /\ 0 \in Fingerprints /\ Fingerprints \subseteq Nat
    /\ WINDOW_SIZE \in Nat
    /\ \A f \in Fingerprints, new, old \in Byte : Update(f, new, old) \in Fingerprints

VARIABLES
    data,         \* what is chunked
    config,       \* CdcConfig
    at,           \* "start", "loop", "done" (Ok) or "error" (Err)
    chunks,       \* the chunks so far
    chunk_start,
    i,            \* the next byte to look at; indices start at 0 in the code
    fingerprint

vars == <<data, config, at, chunks, chunk_start, i, fingerprint>>

TypeOK ==
    /\ data \in Seq(Byte)
    /\ config \in [min_size: Nat, max_size: Nat, target_size: Nat]
    /\ at \in {"start", "loop", "done", "error"}
    /\ chunks \in Seq([offset: Nat, length: Nat])
    /\ chunk_start \in Nat /\ i \in Nat
    /\ fingerprint \in Fingerprints

-----------------------------------------------------------------------------
Valid ==
    /\ config.min_size > 0 /\ config.max_size > 0 /\ config.target_size > 0
    /\ config.min_size <= config.max_size
    /\ config.min_size <= config.target_size /\ config.target_size <= config.max_size

\* How many bits mask_from_target sets: floor(log2(target)).
MaskBits(target) == CHOOSE k \in 0..target : 2^k <= target /\ target < 2^(k + 1)

\* fingerprint & mask == 0.
Hits(f) == f % 2^MaskBits(config.target_size) = 0

Leaving == IF i >= WINDOW_SIZE THEN data[i - WINDOW_SIZE + 1] ELSE 0

\* The configuration is checked, and data that is too short is one chunk.
Start ==
    /\ at = "start"
    /\ \/ ~Valid /\ at' = "error" /\ UNCHANGED <<chunks, i>>
       \/ /\ Valid /\ Len(data) <= config.min_size
          /\ at' = "done"
          /\ chunks' = IF data = <<>> THEN <<>> ELSE <<[offset |-> 0, length |-> Len(data)]>>
          /\ UNCHANGED i
       \/ /\ Valid /\ Len(data) > config.min_size
          /\ at' = "loop"
          /\ i' = config.min_size
          /\ UNCHANGED chunks
    /\ UNCHANGED <<data, config, chunk_start, fingerprint>>

chunk_len == i - chunk_start + 1

\* Mutant: the length of a chunk is compared one byte late.
CutsLate(f) == Hits(f) \/ chunk_len > config.max_size

\* A boundary of the contents, or max_size is reached.
Cuts(f) == Hits(f) \/ chunk_len >= config.max_size

\* Mutant: the fingerprint is carried over into the next chunk.
AfterCutCarried(f) == f

\* The fingerprint that the next chunk begins with.
AfterCut(f) == 0

\* One round of the loop: a cut, or the next byte.
Round ==
    LET f == Update(fingerprint, data[i + 1], Leaving) IN
    /\ at = "loop" /\ i < Len(data)
    /\ IF Cuts(f)
         THEN /\ chunks' = Append(chunks, [offset |-> chunk_start, length |-> chunk_len])
              /\ chunk_start' = i + 1
              /\ fingerprint' = AfterCut(f)
              /\ i' = i + 1 + config.min_size
         ELSE /\ i' = i + 1
              /\ fingerprint' = f
              /\ UNCHANGED <<chunks, chunk_start>>
    /\ UNCHANGED <<data, config, at>>

\* Mutant: what is left is counted from where the loop has ended.
FinishFromNext ==
    /\ at = "loop" /\ i >= Len(data)
    /\ at' = "done"
    /\ chunks' = IF chunk_start < Len(data)
                   THEN Append(chunks, [offset |-> chunk_start, length |-> Len(data) - i])
                   ELSE chunks
    /\ UNCHANGED <<data, config, chunk_start, i, fingerprint>>

\* What is left is the last chunk.
Finish ==
    /\ at = "loop" /\ i >= Len(data)
    /\ at' = "done"
    /\ chunks' = IF chunk_start < Len(data)
                   THEN Append(chunks, [offset |-> chunk_start, length |-> Len(data) - chunk_start])
                   ELSE chunks
    /\ UNCHANGED <<data, config, chunk_start, i, fingerprint>>

Init ==
    /\ data \in Inputs
    /\ config \in [min_size: Sizes, max_size: Sizes, target_size: Sizes]
    /\ at = "start"
    /\ chunks = <<>>
    /\ chunk_start = 0 /\ i = 0 /\ fingerprint = 0

Next == Start \/ Round \/ Finish

Spec == Init /\ [][Next]_vars

-----------------------------------------------------------------------------
(* Properties.                                                              *)

\* The chunks of any data under any valid configuration are a manifest that
\* FileManifest::validate accepts: no byte is lost, none is in two chunks.
ChunksTile == at = "done" => validate(chunks, Len(data))

\* Every chunk has at least one byte, all but the last have more than min_size,
\* and none has more than max_size, except that a chunk of min_size = max_size
\* has one byte more: the first cut is looked for behind the min_size bytes.
ChunkSizes ==
    \A k \in DOMAIN chunks :
        /\ chunks[k].length > 0
        /\ \/ chunks[k].length <= config.max_size
           \/ config.min_size = config.max_size /\ chunks[k].length = config.max_size + 1
        /\ chunks[k].length > config.min_size \/ End(chunks[k]) = Len(data)
=============================================================================
