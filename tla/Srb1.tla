-------------------------------- MODULE Srb1 --------------------------------
(***************************************************************************)
(* The SRB1 block format: a header in the clear and a payload that is      *)
(* bound to it, and to what the caller adds, by authenticated encryption.  *)
(* Every field of fixed width is one element of a sequence here, the       *)
(* payload is the last one; what the caller adds may have any length.      *)
(***************************************************************************)
EXTENDS Naturals, Sequences, SequencesExt

CONSTANT LEN_VALUES  \* the values of plaintext_len: 2^32 in the code

ASSUME Srb1Assumption == LEN_VALUES \in Nat \ {0}

SRB1_MAGIC == "SRB1"
SRB1_VERSION == 1
FLAG_COMPRESSED == 1
HEADER_SIZE == 6
BlockFormat == [error |-> TRUE]

\* aead::encrypt and decrypt: a payload opens with its key and its additional
\* data only.
Encrypted(key, plaintext, aad) == [key |-> key, plaintext |-> plaintext, aad |-> aad]
Opens(payload, key, aad) == payload.key = key /\ payload.aad = aad

Header(args) ==
    <<SRB1_MAGIC, SRB1_VERSION, args.epoch, IF args.compressed THEN FLAG_COMPRESSED ELSE 0,
      args.content_hash, Len(args.plaintext) % LEN_VALUES>>

\* Mutant: the header is not bound to the payload.
full_aad_alone(aad, header) == aad

\* The caller's data, and the header without the magic.
full_aad(aad, header) == aad \o Tail(header)

encode(args) ==
    Append(Header(args), Encrypted(args.key, args.plaintext, full_aad(args.aad, Header(args))))

decode(key, block, aad) ==
    LET header == SubSeq(block, 1, HEADER_SIZE) IN
    IF /\ Len(block) > HEADER_SIZE
       /\ block[1] = SRB1_MAGIC /\ block[2] = SRB1_VERSION
       /\ Opens(Last(block), key, full_aad(aad, header))
       /\ Len(Last(block).plaintext) = block[6]
      THEN [epoch |-> block[3], compressed |-> block[4] % 2 = FLAG_COMPRESSED,
            content_hash |-> block[5], plaintext |-> Last(block).plaintext]
      ELSE BlockFormat
=============================================================================
