------------------------------ MODULE Sentence ------------------------------
(***************************************************************************)
(* Sentence references: REF_BYTES bytes as WORDS_PER_REF words of          *)
(* BITS_PER_WORD bits each, taken from four word lists in turn.  A byte    *)
(* has BYTE_BITS bits; 32, 22, 12 and 8 in the code.  Indices start at 0   *)
(* as they do there.  The lists share words, at different indices.         *)
(***************************************************************************)
EXTENDS Naturals, FiniteSetsExt, Functions

CONSTANTS REF_BYTES, WORDS_PER_REF, BITS_PER_WORD, BYTE_BITS,
          wordlists   \* the four lists

\* 1 << k
Pow2[k \in Nat] == IF k = 0 THEN 1 ELSE 2 * Pow2[k - 1]

\* As 22 * 12 = 33 * 8: the words hold one byte more than the reference.
ASSUME SentenceAssumption ==
    /\ REF_BYTES \in Nat \ {0} /\ WORDS_PER_REF \in Nat \ {0}
    /\ BITS_PER_WORD \in Nat \ {0} /\ BYTE_BITS \in 1..BITS_PER_WORD
    /\ WORDS_PER_REF * BITS_PER_WORD = (REF_BYTES + 1) * BYTE_BITS
    /\ \A l \in 0..3 : DOMAIN wordlists[l] = 0..(Pow2[BITS_PER_WORD] - 1) /\ IsInjective(wordlists[l])

Positions == 0..(WORDS_PER_REF - 1)

Bit(value, k) == (value \div Pow2[k]) % 2

\* The number of count bits whose k-th is bits[k].
Number(count, bits) == CHOOSE v \in 0..(Pow2[count] - 1) : \A k \in 0..(count - 1) : Bit(v, k) = bits[k]

\* The bit at a place of a byte array, the highest bit of the first byte first.
BitAt(bytes, place) == Bit(bytes[place \div BYTE_BITS], (BYTE_BITS - 1) - (place % BYTE_BITS))

\* Mutant: the lowest bit comes first.
extract_bits_reversed(bytes, bit_offset, count) ==
    Number(count, [k \in 0..(count - 1) |-> BitAt(bytes, bit_offset + k)])

extract_bits(bytes, bit_offset, count) ==
    Number(count, [k \in 0..(count - 1) |-> BitAt(bytes, bit_offset + count - 1 - k)])

set_bits(bytes, bit_offset, count, value) ==
    [b \in DOMAIN bytes |->
        Number(BYTE_BITS, [k \in 0..(BYTE_BITS - 1) |->
            LET place == b * BYTE_BITS + BYTE_BITS - 1 - k IN
            IF place \in bit_offset..(bit_offset + count - 1)
              THEN Bit(value, bit_offset + count - 1 - place)
              ELSE Bit(bytes[b], k)])]

build_reverse_lookup(wordlist) ==
    [word \in Range(wordlist) |-> Max({k \in DOMAIN wordlist : wordlist[k] = word})]

\* The reference with a zero byte behind it, where the specification of sentence
\* references has a check byte.
encode_ref(data) ==
    LET padded == [b \in 0..REF_BYTES |-> IF b < REF_BYTES THEN data[b] ELSE 0] IN
    [w \in Positions |-> wordlists[w % 4][extract_bits(padded, w * BITS_PER_WORD, BITS_PER_WORD)]]

DecodeError == "error"

\* As many words as there have to be, each in the list of its position.
validate_sentence(words) ==
    DOMAIN words = Positions /\ \A w \in Positions : words[w] \in Range(wordlists[w % 4])

Index(words, w) == build_reverse_lookup(wordlists[w % 4])[words[w]]

\* The byte behind the reference is left out, whatever it is.
decode_ref(words) ==
    LET padded[w \in 0..WORDS_PER_REF] ==
          IF w = 0 THEN [b \in 0..REF_BYTES |-> 0]
          ELSE set_bits(padded[w - 1], (w - 1) * BITS_PER_WORD, BITS_PER_WORD, Index(words, w - 1))
    IN IF validate_sentence(words) THEN [b \in 0..(REF_BYTES - 1) |-> padded[WORDS_PER_REF][b]]
       ELSE DecodeError

-----------------------------------------------------------------------------
References == [0..(REF_BYTES - 1) -> 0..(Pow2[BYTE_BITS] - 1)]
=============================================================================
