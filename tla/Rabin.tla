------------------------------- MODULE Rabin -------------------------------
(***************************************************************************)
(* The rolling fingerprint of cdc.rs, in words of MODULUS values instead   *)
(* of 2^64 and with RADIX for the 256 that the code multiplies by.         *)
(***************************************************************************)
EXTENDS Chunker

CONSTANTS POLYNOMIAL, RADIX, MODULUS,
          XorWords(_, _)   \* of two words

\* Wrapping multiplication.
pow_mod[n \in Nat] == IF n = 0 THEN 1 ELSE (pow_mod[n - 1] * RADIX) % MODULUS

rabin_update(f, new, old) ==
    XorWords((f * RADIX + new - old * pow_mod[WINDOW_SIZE]) % MODULUS, POLYNOMIAL)

\* As in the code, where 256^48 is a multiple of 2^64.
ASSUME RabinAssumption ==
    /\ MODULUS \in Nat \ {0} /\ Byte \subseteq Nat /\ RADIX \in Nat
    /\ pow_mod[WINDOW_SIZE] = 0
    /\ \A f \in Fingerprints, new, old \in Byte : Update(f, new, old) = rabin_update(f, new, old)

\* A fingerprint of the bytes from the min_size-th to the n-th of a chunk at
\* offset o, of these bytes alone.
OwnFingerprint(o) ==
    LET f[n \in config.min_size..(Len(data) - o)] ==
          IF n = config.min_size THEN 0
          ELSE XorWords((f[n - 1] * RADIX + data[o + n]) % MODULUS, POLYNOMIAL)
    IN f

EndsAt(o, n) == n > config.min_size /\ (n >= config.max_size \/ Hits(OwnFingerprint(o)[n]))

\* Cuts depend on the contents of the chunk and on nothing before it: every
\* chunk is the shortest that its own bytes allow.  So equal data behind two
\* boundaries is cut into equal chunks, which deduplication needs; the byte that
\* leaves the window never counts.
ContentDefined ==
    \A k \in DOMAIN chunks :
        LET o == chunks[k].offset IN
        /\ EndsAt(o, chunks[k].length) \/ End(chunks[k]) = Len(data)
        /\ \A n \in 1..(chunks[k].length - 1) : ~EndsAt(o, n)
=============================================================================
