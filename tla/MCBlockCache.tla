---------------------------- MODULE MCBlockCache ----------------------------
(***************************************************************************)
(* An instance of BlockCache for TLC.                                      *)
(***************************************************************************)
EXTENDS BlockCache, TLC

CONSTANT Small  \* the small blocks

\* The other blocks have twice the size of a small one.
SmallAndLarge == [r \in Rids |-> IF r \in Small THEN 1 ELSE 2]

\* Threads are interchangeable, and so are blocks of the same size.
CacheSymmetry == Permutations(Threads) \cup Permutations(Small) \cup Permutations(Rids \ Small)
=============================================================================
