------------------------------ MODULE Manifest ------------------------------
(***************************************************************************)
(* FileManifest: what validate accepts and what blocks_in_range finds.     *)
(* Of a block pointer there is its place in the file: offset (file_offset) *)
(* and length.                                                             *)
(***************************************************************************)
EXTENDS Naturals, Sequences

End(block) == block.offset + block.length

\* Sorted, from 0 to total_size, with neither gap nor overlap.
validate(blocks, total_size) ==
    IF blocks = <<>>
      THEN total_size = 0
      ELSE /\ blocks[1].offset = 0
           /\ \A k \in 2..Len(blocks) : blocks[k].offset = End(blocks[k - 1])
           /\ End(blocks[Len(blocks)]) = total_size

\* Mutant: a block that ends where the range begins is found as well.
blocks_in_range_touching(blocks, offset, length) ==
    {k \in DOMAIN blocks : blocks[k].offset < offset + length /\ End(blocks[k]) >= offset}

\* The blocks that overlap [offset, offset + length): their places in the list,
\* whose order the result keeps.
blocks_in_range(blocks, offset, length) ==
    {k \in DOMAIN blocks : blocks[k].offset < offset + length /\ End(blocks[k]) > offset}

-----------------------------------------------------------------------------
(* What the two promise, as properties of the bytes of the file.            *)

Holds(block, byte) == block.offset <= byte /\ byte < End(block)

\* Every byte of the file, and no other, is in exactly one block, and the
\* blocks are in the order of their bytes.
EachByteOnce(blocks, total_size) ==
    /\ \A k \in DOMAIN blocks : End(blocks[k]) <= total_size
    /\ \A byte \in 0..(total_size - 1) :
         \E k \in DOMAIN blocks : /\ Holds(blocks[k], byte)
                                  /\ \A n \in DOMAIN blocks \ {k} : ~Holds(blocks[n], byte)
    /\ \A k, n \in DOMAIN blocks : k < n => blocks[k].offset <= blocks[n].offset

\* What a read of the range needs: the blocks that hold one of its bytes.
Needed(blocks, offset, length) ==
    {k \in DOMAIN blocks : \E byte \in offset..(offset + length - 1) : Holds(blocks[k], byte)}
=============================================================================
