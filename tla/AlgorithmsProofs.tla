-------------------------- MODULE AlgorithmsProofs --------------------------
(***************************************************************************)
(* Theorems about the algorithms: chunking, for every input, configuration *)
(* and fingerprint, and the pure functions, for all of their arguments.    *)
(***************************************************************************)
EXTENDS Algorithms, SequenceTheorems, WellFoundedInduction, TLAPS

-----------------------------------------------------------------------------
(* Chunker.                                                                 *)

Chunk == [offset: Nat, length: Nat]

\* Where the loop is: the chunks so far tile the data up to chunk_start, and
\* the chunk that would end with the next byte is not too long.
LoopInv ==
    /\ Valid
    /\ validate(chunks, chunk_start)
    /\ chunk_start <= Len(data)
    /\ i >= chunk_start + config.min_size
    /\ \/ i - chunk_start + 1 <= config.max_size
       \/ config.min_size = config.max_size /\ i = chunk_start + config.min_size

\* What is true of every chunk as soon as it is there.
Fitting(c) ==
    /\ c.length > 0
    /\ \/ c.length <= config.max_size
       \/ config.min_size = config.max_size /\ c.length = config.max_size + 1
    /\ c.length > config.min_size \/ End(c) = Len(data)

IInv ==
    /\ TypeOK
    /\ at \in {"start", "error"} => chunks = <<>>
    /\ at = "start" => chunk_start = 0 /\ fingerprint = 0
    /\ at = "loop" => LoopInv
    /\ at = "done" => validate(chunks, Len(data))
    /\ \A k \in DOMAIN chunks : Fitting(chunks[k])

-----------------------------------------------------------------------------
(* Sequences of chunks that grow by one.                                    *)

\* A chunk that begins where the others end prolongs what they tile.
LEMMA ValidateAppend ==
    ASSUME NEW cs \in Seq(Chunk), NEW start \in Nat, NEW len \in Nat, validate(cs, start)
    PROVE  validate(Append(cs, [offset |-> start, length |-> len]), start + len)
<1> DEFINE c == [offset |-> start, length |-> len]
           new == Append(cs, c)
<1>1. c \in Chunk /\ new \in Seq(Chunk) /\ Len(new) = Len(cs) + 1 /\ new # <<>>
  BY DEF Chunk
<1>2. new[Len(cs) + 1] = c
  OBVIOUS
<1>3. \A k \in 1..Len(cs) : new[k] = cs[k]
  OBVIOUS
<1>4. CASE cs = <<>>
  <2>1. start = 0 /\ Len(new) = 1 /\ new[1] = c
    BY <1>1, <1>2, <1>4 DEF validate
  <2>2. QED
    BY <1>1, <2>1 DEF validate, End
<1>5. CASE cs # <<>>
  <2>1. Len(cs) \in Nat /\ Len(cs) >= 1
    BY <1>5
  <2>2. cs[1].offset = 0 /\ End(cs[Len(cs)]) = start
    BY <1>5 DEF validate
  <2>3. new[1].offset = 0
    BY <1>3, <2>1, <2>2
  <2>4. ASSUME NEW k \in 2..Len(new) PROVE new[k].offset = End(new[k - 1])
    <3>1. CASE k = Len(cs) + 1
      BY <1>2, <1>3, <2>1, <2>2, <3>1
    <3>2. CASE k # Len(cs) + 1
      <4>1. k \in 2..Len(cs) /\ k - 1 \in 1..Len(cs)
        BY <1>1, <2>1, <3>2
      <4>2. new[k] = cs[k] /\ new[k - 1] = cs[k - 1]
        BY <1>3, <4>1
      <4>3. QED
        BY <1>5, <4>1, <4>2 DEF validate
    <3>3. QED
      BY <3>1, <3>2
  <2>5. End(new[Len(new)]) = start + len
    BY <1>1, <1>2 DEF End
  <2>6. QED
    BY <1>1, <2>3, <2>4, <2>5 DEF validate
<1>6. QED
  BY <1>4, <1>5

\* What holds of all chunks and of one more holds of the longer sequence.
LEMMA FittingAppend ==
    ASSUME NEW cs \in Seq(Chunk), NEW c \in Chunk,
           \A k \in DOMAIN cs : Fitting(cs[k]), Fitting(c)
    PROVE  \A k \in DOMAIN Append(cs, c) : Fitting(Append(cs, c)[k])
<1> SUFFICES ASSUME NEW k \in DOMAIN Append(cs, c) PROVE Fitting(Append(cs, c)[k])
  OBVIOUS
<1>1. Len(cs) \in Nat /\ DOMAIN cs = 1..Len(cs) /\ k \in 1..(Len(cs) + 1)
  OBVIOUS
<1>2. CASE k = Len(cs) + 1
  <2>1. Append(cs, c)[k] = c
    BY <1>2
  <2>2. QED
    BY <2>1
<1>3. CASE k # Len(cs) + 1
  <2>1. k \in DOMAIN cs /\ Append(cs, c)[k] = cs[k]
    BY <1>1, <1>3
  <2>2. QED
    BY <2>1
<1>4. QED
  BY <1>2, <1>3

-----------------------------------------------------------------------------
(* The steps.                                                               *)

\* Before the first step.
LEMMA InitInv == Init => IInv
<1> SUFFICES ASSUME Init PROVE IInv
  OBVIOUS
<1>1. data \in Seq(Byte) /\ config \in [min_size: Nat, max_size: Nat, target_size: Nat]
  BY ChunkerAssumption DEF Init
<1>2. chunks = <<>> /\ at = "start" /\ chunk_start = 0 /\ i = 0 /\ fingerprint = 0
  BY DEF Init
<1>3. TypeOK
  BY <1>1, <1>2, ChunkerAssumption DEF TypeOK
<1>4. QED
  BY <1>2, <1>3 DEF IInv

\* The configuration and the data stay as they are.
LEMMA StartInv == IInv /\ Start => IInv'
<1> SUFFICES ASSUME IInv, Start PROVE IInv'
  OBVIOUS
<1> USE DEF Chunk
<1>1. /\ TypeOK /\ chunks = <<>> /\ chunk_start = 0 /\ fingerprint = 0
      /\ data' = data /\ config' = config /\ chunk_start' = chunk_start /\ fingerprint' = fingerprint
  BY DEF IInv, Start
<1>2. Len(data) \in Nat
  BY <1>1 DEF TypeOK
<1>3. CASE ~Valid /\ at' = "error" /\ UNCHANGED <<chunks, i>>
  BY <1>1, <1>3 DEF IInv, TypeOK
<1>4. CASE /\ Valid /\ Len(data) <= config.min_size
           /\ at' = "done"
           /\ chunks' = IF data = <<>> THEN <<>> ELSE <<[offset |-> 0, length |-> Len(data)]>>
           /\ UNCHANGED i
  <2>1. CASE data = <<>>
    <3>1. chunks' = <<>> /\ Len(data') = 0
      BY <1>1, <1>4, <2>1
    <3>2. QED
      BY <1>1, <1>4, <3>1 DEF IInv, TypeOK, validate
  <2>2. CASE data # <<>>
    <3> DEFINE c == [offset |-> 0, length |-> Len(data)]
    <3>1. chunks' = <<c>> /\ Len(data) > 0
      BY <1>1, <1>2, <1>4, <2>2 DEF TypeOK
    <3>2. c \in Chunk /\ <<c>> \in Seq(Chunk) /\ Len(<<c>>) = 1 /\ <<c>>[1] = c
      BY <1>2
    <3>3. TypeOK'
      BY <1>1, <1>4, <3>1, <3>2 DEF TypeOK
    <3>4. validate(chunks', Len(data'))
      BY <1>1, <1>2, <3>1, <3>2 DEF validate, End
    <3>5. Fitting(c)
      BY <1>1, <1>2, <1>4, <3>1 DEF Fitting, Valid, End, TypeOK
    <3>6. \A k \in DOMAIN chunks' : Fitting(chunks[k])'
      BY <1>1, <3>1, <3>2, <3>5 DEF Fitting
    <3>7. QED
      BY <1>4, <3>3, <3>4, <3>6 DEF IInv
  <2>3. QED
    BY <2>1, <2>2
<1>5. CASE /\ Valid /\ Len(data) > config.min_size
           /\ at' = "loop"
           /\ i' = config.min_size
           /\ UNCHANGED chunks
  <2>1. TypeOK'
    BY <1>1, <1>5 DEF TypeOK
  <2>2. LoopInv'
    BY <1>1, <1>2, <1>5 DEF LoopInv, Valid, validate, TypeOK
  <2>3. QED
    BY <1>1, <1>5, <2>1, <2>2 DEF IInv
<1>6. QED
  BY <1>3, <1>4, <1>5 DEF Start

\* The fingerprint of a round is one.
LEMMA UpdateType ==
    ASSUME TypeOK, at = "loop", i < Len(data)
    PROVE  Update(fingerprint, data[i + 1], Leaving) \in Fingerprints
<1>1. Len(data) \in Nat /\ i \in Nat /\ data \in [1..Len(data) -> Byte]
  BY DEF TypeOK
<1>2. data[i + 1] \in Byte
  BY <1>1
<1>3. Leaving \in Byte
  BY <1>1, ChunkerAssumption DEF Leaving
<1>4. QED
  BY <1>2, <1>3, ChunkerAssumption DEF TypeOK

\* A round of the loop, with a cut or without one.
LEMMA RoundInv == IInv /\ Round => IInv'
<1> SUFFICES ASSUME IInv, Round PROVE IInv'
  OBVIOUS
<1> DEFINE f == Update(fingerprint, data[i + 1], Leaving)
           c == [offset |-> chunk_start, length |-> chunk_len]
<1>1. /\ TypeOK /\ LoopInv /\ at = "loop" /\ at' = "loop" /\ i < Len(data)
      /\ data' = data /\ config' = config
      /\ \A k \in DOMAIN chunks : Fitting(chunks[k])
  BY DEF IInv, Round
<1>2. f \in Fingerprints
  BY <1>1, UpdateType
<1>3. /\ Len(data) \in Nat /\ i \in Nat /\ chunk_start \in Nat
      /\ config.min_size \in Nat /\ config.max_size \in Nat
      /\ config.min_size > 0 /\ config.min_size <= config.max_size
  BY <1>1 DEF TypeOK, LoopInv, Valid
<1>4. Valid'
  BY <1>1 DEF LoopInv, Valid
<1>5. CASE Cuts(f)
  <2>1. /\ chunks' = Append(chunks, c) /\ chunk_start' = i + 1 /\ fingerprint' = 0
        /\ i' = i + 1 + config.min_size
    BY <1>5 DEF Round, AfterCut
  <2>2. chunk_len \in Nat /\ chunk_len > config.min_size /\ chunk_start + chunk_len = i + 1
    BY <1>1, <1>3 DEF LoopInv, chunk_len
  <2>3. c \in Chunk /\ chunks \in Seq(Chunk)
    BY <1>1, <1>3, <2>2 DEF Chunk, TypeOK
  <2>4. validate(chunks', i + 1)
    <3>1. validate(chunks, chunk_start)
      BY <1>1 DEF LoopInv
    <3>2. validate(Append(chunks, c), chunk_start + chunk_len)
      BY <1>3, <2>2, <2>3, <3>1, ValidateAppend
    <3>3. QED
      BY <2>1, <2>2, <3>2
  <2>5. Fitting(c)
    BY <1>1, <1>3, <2>2 DEF LoopInv, Fitting, chunk_len
  <2>6. \A k \in DOMAIN Append(chunks, c) : Fitting(Append(chunks, c)[k])
    BY <1>1, <2>3, <2>5, FittingAppend
  <2>7. \A k \in DOMAIN chunks' : Fitting(chunks[k])'
    BY <1>1, <2>1, <2>6 DEF Fitting
  <2>8. TypeOK'
    BY <1>1, <1>3, <2>1, <2>3, ChunkerAssumption DEF TypeOK, Chunk
  <2>9. LoopInv'
    BY <1>1, <1>3, <1>4, <2>1, <2>4 DEF LoopInv
  <2>10. QED
    BY <1>1, <2>7, <2>8, <2>9 DEF IInv
<1>6. CASE ~Cuts(f)
  <2>1. chunks' = chunks /\ chunk_start' = chunk_start /\ fingerprint' = f /\ i' = i + 1
    BY <1>6 DEF Round
  <2>2. i - chunk_start + 1 < config.max_size
    BY <1>3, <1>6 DEF Cuts, chunk_len
  <2>3. TypeOK'
    BY <1>1, <1>2, <1>3, <2>1 DEF TypeOK
  <2>4. LoopInv'
    BY <1>1, <1>3, <1>4, <2>1, <2>2 DEF LoopInv
  <2>5. \A k \in DOMAIN chunks' : Fitting(chunks[k])'
    BY <1>1, <2>1 DEF Fitting
  <2>6. QED
    BY <1>1, <2>3, <2>4, <2>5 DEF IInv
<1>7. QED
  BY <1>5, <1>6

\* What is left of the data, if anything, becomes the last chunk.
LEMMA FinishInv == IInv /\ Finish => IInv'
<1> SUFFICES ASSUME IInv, Finish PROVE IInv'
  OBVIOUS
<1> DEFINE len == Len(data) - chunk_start
           c == [offset |-> chunk_start, length |-> len]
<1>1. /\ TypeOK /\ LoopInv /\ at = "loop" /\ at' = "done" /\ i >= Len(data)
      /\ data' = data /\ config' = config /\ UNCHANGED <<chunk_start, i, fingerprint>>
      /\ \A k \in DOMAIN chunks : Fitting(chunks[k])
  BY DEF IInv, Finish
<1>2. /\ Len(data) \in Nat /\ i \in Nat /\ chunk_start \in Nat /\ chunk_start <= Len(data)
      /\ config.min_size \in Nat /\ config.max_size \in Nat
      /\ validate(chunks, chunk_start)
  BY <1>1 DEF TypeOK, LoopInv
<1>3. CASE chunk_start < Len(data)
  <2>1. chunks' = Append(chunks, c)
    BY <1>3 DEF Finish
  <2>2. len \in Nat /\ len > 0 /\ chunk_start + len = Len(data)
    BY <1>2, <1>3
  <2>3. c \in Chunk /\ chunks \in Seq(Chunk)
    BY <1>1, <1>2, <2>2 DEF Chunk, TypeOK
  <2>4. validate(chunks', Len(data'))
    <3>1. validate(Append(chunks, c), chunk_start + len)
      BY <1>2, <2>2, <2>3, ValidateAppend
    <3>2. QED
      BY <1>1, <2>1, <2>2, <3>1
  <2>5. Fitting(c)
    BY <1>1, <1>2, <2>2 DEF LoopInv, Fitting, End
  <2>6. \A k \in DOMAIN Append(chunks, c) : Fitting(Append(chunks, c)[k])
    BY <1>1, <2>3, <2>5, FittingAppend
  <2>7. \A k \in DOMAIN chunks' : Fitting(chunks[k])'
    BY <1>1, <2>1, <2>6 DEF Fitting
  <2>8. TypeOK'
    BY <1>1, <2>1, <2>3 DEF TypeOK, Chunk
  <2>9. QED
    BY <1>1, <2>4, <2>7, <2>8 DEF IInv
<1>4. CASE ~(chunk_start < Len(data))
  <2>1. chunks' = chunks /\ chunk_start = Len(data)
    BY <1>2, <1>4 DEF Finish
  <2>2. TypeOK'
    BY <1>1, <2>1 DEF TypeOK
  <2>3. validate(chunks', Len(data'))
    BY <1>1, <1>2, <2>1
  <2>4. \A k \in DOMAIN chunks' : Fitting(chunks[k])'
    BY <1>1, <2>1 DEF Fitting
  <2>5. QED
    BY <1>1, <2>2, <2>3, <2>4 DEF IInv
<1>5. QED
  BY <1>3, <1>4

\* Nothing that IInv speaks of changes in a step that changes no variable.
LEMMA ChunkerStutter == IInv /\ UNCHANGED vars => IInv'
BY DEF IInv, TypeOK, LoopInv, Valid, Fitting, validate, End, vars

\* The inductive invariant holds in every state of chunk.
THEOREM ChunkerInvariant == Spec => []IInv
<1>1. IInv /\ [Next]_vars => IInv'
  BY StartInv, RoundInv, FinishInv, ChunkerStutter DEF Next
<1>2. QED
  BY InitInv, <1>1, PTL DEF Spec

-----------------------------------------------------------------------------
\* The variables of chunk have their types, for every input and configuration.
THEOREM ChunkerTypeCorrect == Spec => []TypeOK
<1>1. IInv => TypeOK
  BY DEF IInv
<1>2. QED
  BY ChunkerInvariant, <1>1, PTL

\* Whatever the data, the configuration and the fingerprint, the chunks that
\* chunk returns are a manifest that validate accepts.
THEOREM ChunksAlwaysTile == Spec => []ChunksTile
<1>1. IInv => ChunksTile
  BY DEF IInv, ChunksTile
<1>2. QED
  BY ChunkerInvariant, <1>1, PTL

\* No chunk is empty, too short or too long by more than the one byte that
\* min_size = max_size costs.
THEOREM ChunkSizesHold == Spec => []ChunkSizes
<1>1. IInv => ChunkSizes
  BY DEF IInv, ChunkSizes, Fitting
<1>2. QED
  BY ChunkerInvariant, <1>1, PTL

-----------------------------------------------------------------------------
(* Numbers, and functions that are defined by recursion.                    *)

\* A set of natural numbers has a least element.
LEMMA Least ==
    ASSUME NEW S \in SUBSET Nat, S # {}
    PROVE  \E m \in S : \A n \in S : m <= n
<1>1. PICK m \in S : \A n \in S : <<n, m>> \notin OpToRel(<, Nat)
  BY WFMin, NatLessThanWellFounded
<1>2. \A n \in S : ~(n < m)
  BY <1>1 DEF OpToRel
<1>3. QED
  BY <1>2

\* What holds of 0, and of n + 1 if of n, holds of every natural number.
LEMMA Induction ==
    ASSUME NEW S \in SUBSET Nat, 0 \in S, \A n \in S : n + 1 \in S
    PROVE  S = Nat
<1> SUFFICES ASSUME S # Nat PROVE FALSE
  OBVIOUS
<1> DEFINE T == Nat \ S
<1>1. T \in SUBSET Nat /\ T # {}
  OBVIOUS
<1>2. PICK m \in T : \A n \in T : m <= n
  <2> HIDE DEF T
  <2> QED BY <1>1, Least
<1>3. m - 1 \in Nat /\ m - 1 \notin T
  BY <1>2
<1>4. QED
  BY <1>2, <1>3

\* Remainders.
LEMMA ModFacts ==
    ASSUME NEW a \in Nat, NEW m \in Nat \ {0}
    PROVE  a % m \in Nat /\ a % m < m /\ (a < m => a % m = a)
<1>1. m \in Nat /\ m > 0
  OBVIOUS
<1>2. a % m \in 0..(m - 1)
  BY <1>1
<1>3. a < m => a % m = a
  BY <1>1
<1>4. QED
  BY <1>1, <1>2, <1>3


\* A function up to n that begins with base and goes on with step.
Upto(f, n, T, base, step) ==
    /\ f \in [0..n -> T] /\ f[0] = base
    /\ \A k \in 0..(n - 1) : f[k + 1] = step[k][f[k]]

\* There is one for every n.
LEMMA UptoExists ==
    ASSUME NEW T, NEW base \in T, NEW step \in [Nat -> [T -> T]]
    PROVE  \A n \in Nat : \E f : Upto(f, n, T, base, step)
<1> DEFINE S == {n \in Nat : \E f : Upto(f, n, T, base, step)}
<1>1. 0 \in S
  <2>1. Upto([k \in 0..0 |-> base], 0, T, base, step)
    BY DEF Upto
  <2>2. QED
    BY <2>1
<1>2. ASSUME NEW n \in S PROVE n + 1 \in S
  <2>1. PICK f : Upto(f, n, T, base, step)
    OBVIOUS
  <2> DEFINE g == [k \in 0..(n + 1) |-> IF k <= n THEN f[k] ELSE step[n][f[n]]]
  <2>2. n \in Nat /\ f \in [0..n -> T] /\ f[n] \in T /\ step[n][f[n]] \in T
    BY <2>1 DEF Upto
  <2>3. g \in [0..(n + 1) -> T] /\ g[0] = base
    BY <2>1, <2>2 DEF Upto
  <2>4. ASSUME NEW k \in 0..n PROVE g[k + 1] = step[k][g[k]]
    BY <2>1, <2>2 DEF Upto
  <2>5. Upto(g, n + 1, T, base, step)
    <3> HIDE DEF g
    <3> QED BY <2>2, <2>3, <2>4 DEF Upto
  <2>6. QED
    BY <2>2, <2>5
<1>3. S = Nat
  <2>1. S \in SUBSET Nat
    OBVIOUS
  <2> HIDE DEF S
  <2> QED BY <1>1, <1>2, <2>1, Induction
<1>4. QED
  BY <1>3

\* Two of them agree as far as both go.
LEMMA UptoUnique ==
    ASSUME NEW T, NEW base \in T, NEW step \in [Nat -> [T -> T]],
           NEW m \in Nat, NEW n \in Nat, m <= n, NEW f, NEW g,
           Upto(f, m, T, base, step), Upto(g, n, T, base, step)
    PROVE  \A k \in 0..m : f[k] = g[k]
<1> DEFINE S == {k \in Nat : k <= m => f[k] = g[k]}
<1>1. 0 \in S
  BY DEF Upto
<1>2. ASSUME NEW k \in S PROVE k + 1 \in S
  <2> SUFFICES ASSUME k + 1 <= m PROVE f[k + 1] = g[k + 1]
    OBVIOUS
  <2>1. k \in 0..(m - 1) /\ k \in 0..(n - 1) /\ f[k] = g[k]
    OBVIOUS
  <2>2. QED
    BY <2>1 DEF Upto
<1>3. S = Nat
  <2>1. S \in SUBSET Nat
    OBVIOUS
  <2> HIDE DEF S
  <2> QED BY <1>1, <1>2, <2>1, Induction
<1>4. QED
  BY <1>3

\* A function of all natural numbers that does so.
Follows(f, T, base, step) ==
    f \in [Nat -> T] /\ f[0] = base /\ \A k \in Nat : f[k + 1] = step[k][f[k]]

\* A recursion of this form defines a function of the natural numbers.
LEMMA Recursion ==
    ASSUME NEW T, NEW base \in T, NEW step \in [Nat -> [T -> T]]
    PROVE  \E f : Follows(f, T, base, step)
<1> DEFINE F == [n \in Nat |-> CHOOSE f : Upto(f, n, T, base, step)]
           h == [n \in Nat |-> F[n][n]]
<1>1. \A n \in Nat : Upto(F[n], n, T, base, step)
  BY UptoExists
<1> HIDE DEF F
<1>2. h \in [Nat -> T] /\ h[0] = base
  BY <1>1 DEF Upto
<1>3. ASSUME NEW k \in Nat PROVE h[k + 1] = step[k][h[k]]
  <2>1. Upto(F[k], k, T, base, step) /\ Upto(F[k + 1], k + 1, T, base, step)
    BY <1>1
  <2>2. \A j \in 0..k : F[k][j] = F[k + 1][j]
    BY <2>1, UptoUnique
  <2>3. F[k + 1][k + 1] = step[k][F[k + 1][k]]
    BY <2>1 DEF Upto
  <2>4. QED
    BY <2>2, <2>3
<1> HIDE DEF h
<1>4. QED
  BY <1>2, <1>3 DEF Follows

-----------------------------------------------------------------------------
(* Cuts are defined by the contents.                                        *)

\* The fingerprint of a chunk depends on the data and the configuration only.
LEMMA OwnStays ==
    ASSUME UNCHANGED <<data, config>>, NEW o \in Nat
    PROVE  OwnFingerprint(o)' = OwnFingerprint(o)
BY DEF OwnFingerprint

\* One step of the fingerprint of a chunk is an update that nothing leaves.
LEMMA OwnStep ==
    ASSUME NEW f \in Fingerprints, NEW new \in Byte, NEW old \in Byte
    PROVE  /\ XorWords((f * RADIX + new) % MODULUS, POLYNOMIAL) \in Fingerprints
           /\ Update(f, new, old) = XorWords((f * RADIX + new) % MODULUS, POLYNOMIAL)
<1>1. f \in Nat /\ new \in Nat /\ old \in Nat /\ RADIX \in Nat
  BY ChunkerAssumption, RabinAssumption
<1>2. f * RADIX + new - old * pow_mod[WINDOW_SIZE] = f * RADIX + new
  BY <1>1, RabinAssumption
<1>3. Update(f, new, old) = XorWords((f * RADIX + new - old * pow_mod[WINDOW_SIZE]) % MODULUS, POLYNOMIAL)
  BY RabinAssumption DEF rabin_update
<1>4. Update(f, new, old) \in Fingerprints
  BY ChunkerAssumption
<1>5. QED
  BY <1>2, <1>3, <1>4

\* The fingerprint of a chunk is what its recursion says.
LEMMA OwnRecursion ==
    ASSUME TypeOK, NEW o \in Nat, o + config.min_size <= Len(data)
    PROVE  /\ OwnFingerprint(o)[config.min_size] = 0
           /\ \A n \in config.min_size..(Len(data) - o) :
                /\ OwnFingerprint(o)[n] \in Fingerprints
                /\ n > config.min_size =>
                     OwnFingerprint(o)[n] =
                       XorWords((OwnFingerprint(o)[n - 1] * RADIX + data[o + n]) % MODULUS, POLYNOMIAL)
<1> DEFINE m == config.min_size
           D == m..(Len(data) - o)
           Next1(f, n) == XorWords((f * RADIX + data[o + n]) % MODULUS, POLYNOMIAL)
           step == [k \in Nat |-> [f \in Fingerprints |->
                      IF m + k + 1 \in D THEN Next1(f, m + k + 1) ELSE f]]
<1>1. m \in Nat /\ Len(data) \in Nat /\ m \in D
  BY DEF TypeOK
<1>2. \A n \in D : n > m => data[o + n] \in Byte
  BY <1>1 DEF TypeOK
<1>3. ASSUME NEW f \in Fingerprints, NEW n \in D, n > m PROVE Next1(f, n) \in Fingerprints
  <2>1. data[o + n] \in Byte
    BY <1>2, <1>3
  <2>2. QED
    BY <2>1, OwnStep
<1>4. step \in [Nat -> [Fingerprints -> Fingerprints]]
  <2> SUFFICES ASSUME NEW k \in Nat, NEW f \in Fingerprints
               PROVE  (IF m + k + 1 \in D THEN Next1(f, m + k + 1) ELSE f) \in Fingerprints
    OBVIOUS
  <2>1. m + k + 1 > m
    BY <1>1
  <2>2. QED
    BY <1>3, <2>1
<1>5. PICK h : Follows(h, Fingerprints, 0, step)
  <2>1. 0 \in Fingerprints
    BY ChunkerAssumption
  <2> HIDE DEF step
  <2>2. QED
    BY <1>4, <2>1, Recursion
<1> DEFINE g == [n \in D |-> h[n - m]]
           Good(f) == f = [n \in D |-> IF n = m THEN 0 ELSE Next1(f[n - 1], n)]
<1>6. Good(g)
  <2>1. ASSUME NEW n \in D, n # m PROVE g[n] = Next1(g[n - 1], n)
    <3>1. n - 1 \in D /\ n - 1 - m \in Nat /\ (n - 1 - m) + 1 = n - m /\ m + (n - 1 - m) + 1 = n
      BY <1>1, <2>1
    <3>2. g[n] = h[n - m] /\ g[n - 1] = h[n - 1 - m]
      BY <3>1
    <3>3. h[n - m] = step[n - 1 - m][h[n - 1 - m]]
      BY <1>5, <3>1 DEF Follows
    <3>4. h[n - 1 - m] \in Fingerprints
      BY <1>5, <3>1 DEF Follows
    <3>5. step[n - 1 - m][h[n - 1 - m]] = Next1(h[n - 1 - m], n)
      BY <3>1, <3>4
    <3>6. QED
      BY <3>2, <3>3, <3>5
  <2>2. g[m] = 0
    BY <1>1, <1>5 DEF Follows
  <2>3. g = [n \in D |-> g[n]]
    OBVIOUS
  <2> HIDE DEF g, D, Next1
  <2> QED BY <2>1, <2>2, <2>3
<1> DEFINE own == OwnFingerprint(o)
<1>7. own = CHOOSE f : Good(f)
  BY DEF OwnFingerprint
<1>8. Good(own)
  <2> HIDE DEF Good, own, g
  <2> QED BY <1>6, <1>7
<1>9. own[m] = 0 /\ \A n \in D : n > m => own[n] = Next1(own[n - 1], n)
  <2> HIDE DEF own
  <2> QED BY <1>1, <1>8
<1>10. \A n \in D : own[n] \in Fingerprints
  <2> DEFINE S == {k \in Nat : m + k \in D => own[m + k] \in Fingerprints}
  <2> HIDE DEF own, Next1
  <2>1. 0 \in S
    BY <1>1, <1>9, ChunkerAssumption
  <2>2. ASSUME NEW k \in S PROVE k + 1 \in S
    <3> SUFFICES ASSUME m + (k + 1) \in D PROVE own[m + (k + 1)] \in Fingerprints
      OBVIOUS
    <3>1. k \in Nat
      OBVIOUS
    <3>2. m + k \in D /\ m + (k + 1) > m /\ (m + (k + 1)) - 1 = m + k
      <4> HIDE DEF S
      <4> QED BY <1>1, <3>1
    <3>3. own[m + k] \in Fingerprints
      BY <3>2
    <3>4. QED
      BY <1>3, <1>9, <3>2, <3>3
  <2>3. S = Nat
    <3>1. S \in SUBSET Nat
      OBVIOUS
    <3> HIDE DEF S
    <3> QED BY <2>1, <2>2, <3>1, Induction
  <2>4. \A n \in D : n - m \in Nat /\ m + (n - m) = n
    BY <1>1
  <2>5. QED
    BY <2>3, <2>4
<1>11. QED
  BY <1>9, <1>10

\* A chunk ends where its own bytes first allow it, or with the data.
OwnCut(c) ==
    /\ EndsAt(c.offset, c.length) \/ End(c) = Len(data)
    /\ \A n \in 1..(c.length - 1) : ~EndsAt(c.offset, n)

\* The loop has the fingerprint of the bytes of this chunk, and none of those
\* that it has looked at ends it.  (Behind the last cut i may be past the end.)
Looked ==
    /\ i <= Len(data) => fingerprint = OwnFingerprint(chunk_start)[i - chunk_start]
    /\ \A n \in 1..(i - chunk_start) : chunk_start + n <= Len(data) => ~EndsAt(chunk_start, n)

ContentInv ==
    /\ at = "loop" => Looked
    /\ \A k \in DOMAIN chunks : OwnCut(chunks[k])

\* Where a chunk ends depends on the data and the configuration only.
LEMMA EndsStay ==
    ASSUME UNCHANGED <<data, config>>
    PROVE  /\ \A o \in Nat, n \in Nat : EndsAt(o, n)' <=> EndsAt(o, n)
           /\ \A c \in Chunk : OwnCut(c)' <=> OwnCut(c)
<1>1. ASSUME NEW o \in Nat, NEW n \in Nat PROVE EndsAt(o, n)' <=> EndsAt(o, n)
  BY OwnStays DEF EndsAt, Hits
<1>2. ASSUME NEW c \in Chunk PROVE OwnCut(c)' <=> OwnCut(c)
  <2>1. c.offset \in Nat /\ c.length \in Nat
    BY DEF Chunk
  <2>2. \A n \in 1..(c.length - 1) : n \in Nat
    BY <2>1
  <2>3. End(c)' = End(c) /\ Len(data)' = Len(data)
    BY DEF End
  <2>4. QED
    BY <1>1, <2>1, <2>2, <2>3 DEF OwnCut
<1>3. QED
  BY <1>1, <1>2

\* With one more chunk.
LEMMA OwnCutAppend ==
    ASSUME NEW cs \in Seq(Chunk), NEW c \in Chunk,
           \A k \in DOMAIN cs : OwnCut(cs[k]), OwnCut(c)
    PROVE  \A k \in DOMAIN Append(cs, c) : OwnCut(Append(cs, c)[k])
<1> SUFFICES ASSUME NEW k \in DOMAIN Append(cs, c) PROVE OwnCut(Append(cs, c)[k])
  OBVIOUS
<1>1. CASE k = Len(cs) + 1
  <2>1. Append(cs, c)[k] = c
    BY <1>1
  <2>2. QED
    BY <2>1
<1>2. CASE k # Len(cs) + 1
  <2>1. k \in DOMAIN cs /\ Append(cs, c)[k] = cs[k]
    BY <1>2
  <2>2. QED
    BY <2>1
<1>3. QED
  BY <1>1, <1>2

\* The chunks of a state are cut in the next one as they are in this one.
LEMMA CutsStay ==
    ASSUME UNCHANGED <<data, config>>, NEW cs \in Seq(Chunk), chunks' = cs,
           \A k \in DOMAIN cs : OwnCut(cs[k])
    PROVE  \A k \in DOMAIN chunks' : OwnCut(chunks[k])'
<1> SUFFICES ASSUME NEW k \in DOMAIN cs PROVE OwnCut(chunks[k])'
  OBVIOUS
<1>1. cs[k] \in Chunk /\ chunks'[k] = cs[k]
  OBVIOUS
<1>2. OwnCut(cs[k])'
  BY <1>1, EndsStay
<1>3. QED
  BY <1>1, <1>2 DEF OwnCut, End, EndsAt, Hits, OwnFingerprint

\* The check of the configuration and of the length of the data.
LEMMA StartContent == IInv /\ Start => ContentInv'
<1> SUFFICES ASSUME IInv, Start PROVE ContentInv'
  OBVIOUS
<1>1. /\ TypeOK /\ chunks = <<>> /\ chunk_start = 0 /\ fingerprint = 0 /\ Len(data) \in Nat
      /\ data' = data /\ config' = config /\ chunk_start' = chunk_start /\ fingerprint' = fingerprint
      /\ config.min_size \in Nat
  BY DEF IInv, TypeOK, Start
<1>2. CASE ~Valid /\ at' = "error" /\ UNCHANGED <<chunks, i>>
  BY <1>1, <1>2 DEF ContentInv
<1>3. CASE /\ Valid /\ Len(data) <= config.min_size
           /\ at' = "done"
           /\ chunks' = IF data = <<>> THEN <<>> ELSE <<[offset |-> 0, length |-> Len(data)]>>
           /\ UNCHANGED i
  <2> DEFINE c == [offset |-> 0, length |-> Len(data)]
  <2>1. CASE data = <<>>
    BY <1>3, <2>1 DEF ContentInv
  <2>2. CASE data # <<>>
    <3>1. c \in Chunk /\ <<c>> \in Seq(Chunk) /\ DOMAIN <<c>> = {1} /\ <<c>>[1] = c
      BY <1>1 DEF Chunk
    <3>2. OwnCut(c)
      BY <1>1, <1>3 DEF OwnCut, EndsAt, End
    <3>3. \A k \in DOMAIN <<c>> : OwnCut(<<c>>[k])
      BY <3>1, <3>2
    <3>4. chunks' = <<c>>
      BY <1>3, <2>2
    <3>5. \A k \in DOMAIN chunks' : OwnCut(chunks[k])'
      BY <1>1, <3>1, <3>3, <3>4, CutsStay
    <3>6. QED
      BY <1>3, <3>5 DEF ContentInv
  <2>3. QED
    BY <2>1, <2>2
<1>4. CASE /\ Valid /\ Len(data) > config.min_size
           /\ at' = "loop"
           /\ i' = config.min_size
           /\ UNCHANGED chunks
  <2>1. OwnFingerprint(0)[config.min_size] = 0
    BY <1>1, <1>4, OwnRecursion
  <2>2. OwnFingerprint(0)' = OwnFingerprint(0)
    BY <1>1, OwnStays
  <2>3. (OwnFingerprint(chunk_start)[i - chunk_start])' = 0
    <3>1. OwnFingerprint(chunk_start)' = OwnFingerprint(0)'
      BY <1>1
    <3>2. (i - chunk_start)' = config.min_size
      BY <1>1, <1>4
    <3>3. QED
      BY <2>1, <2>2, <3>1, <3>2
  <2>4. \A n \in 1..config.min_size : ~EndsAt(0, n)'
    BY <1>1 DEF EndsAt
  <2>5. Looked'
    BY <1>1, <1>4, <2>3, <2>4 DEF Looked
  <2>6. QED
    BY <1>1, <1>4, <2>5 DEF ContentInv
<1>5. QED
  BY <1>2, <1>3, <1>4 DEF Start

\* The fingerprint of a round is that of one more byte of this chunk alone.
LEMMA RoundFingerprint ==
    ASSUME IInv, ContentInv, at = "loop", i < Len(data)
    PROVE  Update(fingerprint, data[i + 1], Leaving) = OwnFingerprint(chunk_start)[chunk_len]
<1>1. /\ TypeOK /\ Len(data) \in Nat /\ i \in Nat /\ chunk_start \in Nat /\ config.min_size \in Nat
      /\ i >= chunk_start + config.min_size
  BY DEF IInv, LoopInv, TypeOK
<1>2. fingerprint = OwnFingerprint(chunk_start)[i - chunk_start] /\ fingerprint \in Fingerprints
  BY <1>1 DEF ContentInv, Looked, TypeOK
<1>3. data[i + 1] \in Byte /\ Leaving \in Byte
  BY <1>1, ChunkerAssumption DEF Leaving, TypeOK
<1>4. /\ chunk_len \in config.min_size..(Len(data) - chunk_start) /\ chunk_len > config.min_size
      /\ chunk_len - 1 = i - chunk_start /\ chunk_start + chunk_len = i + 1
      /\ chunk_start + config.min_size <= Len(data)
  BY <1>1 DEF chunk_len
<1>5. OwnFingerprint(chunk_start)[chunk_len] =
        XorWords((OwnFingerprint(chunk_start)[chunk_len - 1] * RADIX + data[chunk_start + chunk_len]) % MODULUS, POLYNOMIAL)
  BY <1>1, <1>4, OwnRecursion
<1>6. QED
  BY <1>2, <1>3, <1>4, <1>5, OwnStep

\* A cut is made exactly where the bytes of this chunk allow one.
LEMMA RoundContent == IInv /\ ContentInv /\ Round => ContentInv'
<1> SUFFICES ASSUME IInv, ContentInv, Round PROVE ContentInv'
  OBVIOUS
<1> DEFINE f == Update(fingerprint, data[i + 1], Leaving)
           c == [offset |-> chunk_start, length |-> chunk_len]
<1>1. /\ TypeOK /\ LoopInv /\ at = "loop" /\ at' = "loop" /\ i < Len(data)
      /\ data' = data /\ config' = config /\ Looked
      /\ \A k \in DOMAIN chunks : OwnCut(chunks[k])
  BY DEF IInv, ContentInv, Round
<1>2. /\ Len(data) \in Nat /\ i \in Nat /\ chunk_start \in Nat
      /\ config.min_size \in Nat /\ config.max_size \in Nat
      /\ i >= chunk_start + config.min_size
      /\ chunks \in Seq(Chunk)
  BY <1>1 DEF TypeOK, LoopInv, Chunk
<1>3. f = OwnFingerprint(chunk_start)[chunk_len]
  BY <1>1, RoundFingerprint
<1>4. /\ chunk_len \in Nat /\ chunk_len > config.min_size /\ chunk_start + chunk_len = i + 1
      /\ chunk_len - 1 = i - chunk_start
  BY <1>2 DEF chunk_len
<1>5. Cuts(f) <=> EndsAt(chunk_start, chunk_len)
  BY <1>2, <1>3, <1>4 DEF Cuts, EndsAt
<1>6. \A n \in 1..(chunk_len - 1) : ~EndsAt(chunk_start, n)
  BY <1>1, <1>2, <1>4 DEF Looked
<1>7. CASE Cuts(f)
  <2>1. /\ chunks' = Append(chunks, c) /\ chunk_start' = i + 1 /\ fingerprint' = 0
        /\ i' = i + 1 + config.min_size
    BY <1>7 DEF Round, AfterCut
  <2>2. c \in Chunk /\ Append(chunks, c) \in Seq(Chunk)
    BY <1>2, <1>4 DEF Chunk
  <2>3. OwnCut(c)
    BY <1>5, <1>6, <1>7 DEF OwnCut
  <2>4. \A k \in DOMAIN Append(chunks, c) : OwnCut(Append(chunks, c)[k])
    BY <1>1, <1>2, <2>2, <2>3, OwnCutAppend
  <2>5. \A k \in DOMAIN chunks' : OwnCut(chunks[k])'
    BY <1>1, <2>1, <2>2, <2>4, CutsStay
  <2>6. \A n \in 1..config.min_size : ~EndsAt(chunk_start, n)'
    BY <1>1, <1>2 DEF EndsAt
  <2>7. ASSUME i' <= Len(data) PROVE (OwnFingerprint(chunk_start)[i - chunk_start])' = 0
    <3>1. OwnFingerprint(i + 1)[config.min_size] = 0
      BY <1>1, <1>2, <2>1, <2>7, OwnRecursion
    <3> DEFINE o == i + 1
    <3>2. o \in Nat /\ o = chunk_start' /\ (i - chunk_start)' = config.min_size
      BY <1>2, <2>1
    <3>3. OwnFingerprint(chunk_start)' = OwnFingerprint(o)
      <4> HIDE DEF o
      <4> QED BY <1>1, <3>2 DEF OwnFingerprint
    <3>4. QED
      BY <3>1, <3>2, <3>3
  <2>8. Looked'
    <3>1. (i - chunk_start)' = config.min_size
      BY <1>2, <2>1
    <3>2. QED
      BY <1>1, <2>1, <2>6, <2>7, <3>1 DEF Looked
  <2>9. QED
    BY <1>1, <2>5, <2>8 DEF ContentInv
<1>8. CASE ~Cuts(f)
  <2>1. chunks' = chunks /\ chunk_start' = chunk_start /\ fingerprint' = f /\ i' = i + 1
    BY <1>8 DEF Round
  <2>2. \A k \in DOMAIN chunks' : OwnCut(chunks[k])'
    BY <1>1, <1>2, <2>1, CutsStay
  <2>3. (i - chunk_start)' = chunk_len
    BY <1>2, <2>1 DEF chunk_len
  <2>4. OwnFingerprint(chunk_start)' = OwnFingerprint(chunk_start)
    BY <1>1, <2>1 DEF OwnFingerprint
  <2>5. fingerprint' = (OwnFingerprint(chunk_start)[i - chunk_start])'
    BY <1>3, <2>1, <2>3, <2>4
  <2>6. \A n \in 1..chunk_len : ~EndsAt(chunk_start, n)
    BY <1>4, <1>5, <1>6, <1>8
  <2>7. \A n \in 1..chunk_len : ~EndsAt(chunk_start, n)'
    BY <1>1, <2>1, <2>4, <2>6 DEF EndsAt, Hits
  <2>8. Looked'
    BY <1>1, <2>3, <2>5, <2>7 DEF Looked
  <2>9. QED
    BY <1>1, <2>2, <2>8 DEF ContentInv
<1>9. QED
  BY <1>7, <1>8

\* The last chunk ends with the data, and no byte before allowed it.
LEMMA FinishContent == IInv /\ ContentInv /\ Finish => ContentInv'
<1> SUFFICES ASSUME IInv, ContentInv, Finish PROVE ContentInv'
  OBVIOUS
<1> DEFINE c == [offset |-> chunk_start, length |-> Len(data) - chunk_start]
<1>1. /\ TypeOK /\ LoopInv /\ at = "loop" /\ at' = "done" /\ i >= Len(data)
      /\ data' = data /\ config' = config /\ Looked
      /\ \A k \in DOMAIN chunks : OwnCut(chunks[k])
  BY DEF IInv, ContentInv, Finish
<1>2. /\ Len(data) \in Nat /\ i \in Nat /\ chunk_start \in Nat /\ chunk_start <= Len(data)
      /\ chunks \in Seq(Chunk)
  BY <1>1 DEF TypeOK, LoopInv, Chunk
<1>3. CASE chunk_start < Len(data)
  <2>1. chunks' = Append(chunks, c)
    BY <1>3 DEF Finish
  <2>2. c \in Chunk /\ Append(chunks, c) \in Seq(Chunk) /\ End(c) = Len(data)
    BY <1>2, <1>3 DEF Chunk, End
  <2>3. \A n \in 1..(Len(data) - chunk_start - 1) : ~EndsAt(chunk_start, n)
    BY <1>1, <1>2 DEF Looked
  <2>4. OwnCut(c)
    BY <2>2, <2>3 DEF OwnCut
  <2>5. \A k \in DOMAIN Append(chunks, c) : OwnCut(Append(chunks, c)[k])
    BY <1>1, <1>2, <2>2, <2>4, OwnCutAppend
  <2>6. \A k \in DOMAIN chunks' : OwnCut(chunks[k])'
    BY <1>1, <2>1, <2>2, <2>5, CutsStay
  <2>7. QED
    BY <1>1, <2>6 DEF ContentInv
<1>4. CASE ~(chunk_start < Len(data))
  <2>1. chunks' = chunks
    BY <1>4 DEF Finish
  <2>2. \A k \in DOMAIN chunks' : OwnCut(chunks[k])'
    BY <1>1, <1>2, <2>1, CutsStay
  <2>3. QED
    BY <1>1, <2>2 DEF ContentInv
<1>5. QED
  BY <1>3, <1>4

\* A step that changes no variable of chunk.
LEMMA ContentStutter == IInv /\ ContentInv /\ UNCHANGED vars => ContentInv'
<1> SUFFICES ASSUME IInv, ContentInv, UNCHANGED vars PROVE ContentInv'
  OBVIOUS
<1>1. /\ data' = data /\ config' = config /\ at' = at /\ chunks' = chunks
      /\ chunk_start' = chunk_start /\ i' = i /\ fingerprint' = fingerprint
  BY DEF vars
<1>2. chunks \in Seq(Chunk)
  BY DEF IInv, TypeOK, Chunk
<1>3. OwnFingerprint(chunk_start)' = OwnFingerprint(chunk_start)
  BY <1>1 DEF OwnFingerprint
<1>4. \A n \in 1..(i - chunk_start) : EndsAt(chunk_start, n)' <=> EndsAt(chunk_start, n)
  BY <1>1, <1>3 DEF EndsAt, Hits
<1>5. Looked => Looked'
  BY <1>1, <1>3, <1>4 DEF Looked
<1>6. \A k \in DOMAIN chunks' : OwnCut(chunks[k])'
  BY <1>1, <1>2, CutsStay DEF ContentInv
<1>7. QED
  BY <1>1, <1>5, <1>6 DEF ContentInv

\* Whatever the data and the configuration, every chunk is the shortest that
\* its own bytes allow: with the fingerprint of cdc.rs, and 256^48 a multiple
\* of 2^64, nothing before a boundary has a say in the cuts behind it.
THEOREM CutsContentDefined == Spec => []ContentDefined
<1>1. Init => ContentInv
  BY DEF Init, ContentInv
<1>2. IInv /\ ContentInv /\ [Next]_vars => ContentInv'
  BY StartContent, RoundContent, FinishContent, ContentStutter DEF Next
<1>3. ContentInv => ContentDefined
  BY DEF ContentInv, ContentDefined, OwnCut
<1>4. QED
  BY ChunkerInvariant, <1>1, <1>2, <1>3, PTL DEF Spec

-----------------------------------------------------------------------------
(* The samples of the pure functions.                                       *)

\* The arguments of a sample are of its kind, and stay.
SampleInv ==
    /\ sample.kind = "blocks" => sample.arg \in Manifests
    /\ sample.kind = "glob" => sample.arg \in Globs
    /\ sample.kind = "rules" => sample.arg \in Policies
    /\ sample.kind = "reference" => sample.arg \in References
    /\ sample.kind = "srb1" => sample.arg \in BlockPairs

\* The functions are applied to arguments of theirs only.
LEMMA SamplesHold == AlgorithmsSpec => []SampleInv
<1>1. AlgorithmsInit => SampleInv
  <2>1. sample = [kind |-> "data", arg |-> data] => SampleInv
    BY DEF SampleInv
  <2>2. sample \in Samples => SampleInv
    BY DEF Samples, SampleInv
  <2>3. QED
    BY <2>1, <2>2 DEF AlgorithmsInit
<1>2. SampleInv /\ [Next /\ UNCHANGED sample]_<<vars, sample>> => SampleInv'
  BY DEF SampleInv
<1>3. QED
  BY <1>1, <1>2, PTL DEF AlgorithmsSpec

-----------------------------------------------------------------------------
(* Manifests.                                                               *)

\* What a block is.
LEMMA BlockFacts ==
    ASSUME NEW blocks \in Seq(Block), NEW k \in DOMAIN blocks
    PROVE  /\ Len(blocks) \in Nat /\ k \in 1..Len(blocks) /\ DOMAIN blocks = 1..Len(blocks)
           /\ blocks[k].offset \in Nat /\ blocks[k].length \in Nat /\ blocks[k].length > 0
           /\ End(blocks[k]) \in Nat /\ blocks[k].offset < End(blocks[k])
<1>1. Len(blocks) \in Nat /\ k \in 1..Len(blocks) /\ DOMAIN blocks = 1..Len(blocks) /\ blocks[k] \in Block
  OBVIOUS
<1>2. blocks[k].offset \in Nat /\ blocks[k].length \in Nat /\ blocks[k].length > 0
  BY <1>1 DEF Block
<1>3. QED
  BY <1>1, <1>2 DEF End

\* A block of a list without gaps ends before all that follow it.
LEMMA TileOrder ==
    ASSUME NEW blocks \in Seq(Block),
           \A k \in 2..Len(blocks) : blocks[k].offset = End(blocks[k - 1])
    PROVE  \A k, n \in DOMAIN blocks : k < n => End(blocks[k]) <= blocks[n].offset
<1> DEFINE S == {d \in Nat : \A k \in DOMAIN blocks : k + d + 1 \in DOMAIN blocks =>
                               End(blocks[k]) <= blocks[k + d + 1].offset}
<1>1. 0 \in S
  <2> SUFFICES ASSUME NEW k \in DOMAIN blocks, k + 0 + 1 \in DOMAIN blocks
               PROVE  End(blocks[k]) <= blocks[k + 0 + 1].offset
    OBVIOUS
  <2>1. k + 0 + 1 \in 2..Len(blocks) /\ (k + 0 + 1) - 1 = k
    BY BlockFacts
  <2>2. QED
    BY <2>1, BlockFacts
<1>2. ASSUME NEW d \in S PROVE d + 1 \in S
  <2> SUFFICES ASSUME NEW k \in DOMAIN blocks, k + (d + 1) + 1 \in DOMAIN blocks
               PROVE  End(blocks[k]) <= blocks[k + (d + 1) + 1].offset
    OBVIOUS
  <2> DEFINE n == k + d + 1
  <2>0. d \in Nat /\ DOMAIN blocks = 1..Len(blocks) /\ Len(blocks) \in Nat /\ k \in 1..Len(blocks)
    OBVIOUS
  <2>1. d \in Nat /\ n \in DOMAIN blocks /\ k + (d + 1) + 1 = n + 1
    <3> HIDE DEF S
    <3> QED BY <2>0
  <2>2. End(blocks[k]) <= blocks[n].offset
    BY <2>1
  <2>3. n + 1 \in 2..Len(blocks) /\ (n + 1) - 1 = n
    <3> HIDE DEF S
    <3> QED BY <2>0, <2>1
  <2>4. blocks[n + 1].offset = End(blocks[n])
    BY <2>3
  <2>5. blocks[n].offset < End(blocks[n]) /\ blocks[n].offset \in Nat /\ End(blocks[n]) \in Nat /\ End(blocks[k]) \in Nat
    BY <2>1, BlockFacts
  <2>6. QED
    BY <2>1, <2>2, <2>4, <2>5
<1>3. S = Nat
  <2>1. S \in SUBSET Nat
    OBVIOUS
  <2> HIDE DEF S
  <2> QED BY <1>1, <1>2, <2>1, Induction
<1>4. ASSUME NEW k \in DOMAIN blocks, NEW n \in DOMAIN blocks, k < n
      PROVE  End(blocks[k]) <= blocks[n].offset
  <2>1. n - k - 1 \in Nat /\ k + (n - k - 1) + 1 = n
    BY <1>4, BlockFacts
  <2>2. n - k - 1 \in S
    BY <1>3, <2>1
  <2>3. QED
    BY <1>4, <2>1, <2>2
<1>5. QED
  BY <1>4

\* What validate accepts holds every byte once.
LEMMA ValidateSound ==
    ASSUME NEW blocks \in Seq(Block), NEW total_size \in Nat, validate(blocks, total_size)
    PROVE  EachByteOnce(blocks, total_size)
<1>1. CASE blocks = <<>>
  BY <1>1 DEF validate, EachByteOnce
<1>2. CASE blocks # <<>>
  <2> DEFINE last == Len(blocks)
  <2>1. /\ blocks[1].offset = 0 /\ End(blocks[last]) = total_size
        /\ \A k \in 2..last : blocks[k].offset = End(blocks[k - 1])
    BY <1>2 DEF validate
  <2>2. last \in Nat /\ last \in DOMAIN blocks /\ DOMAIN blocks = 1..last
    BY <1>2
  <2>3. \A k, n \in DOMAIN blocks : k < n => End(blocks[k]) <= blocks[n].offset
    BY <2>1, TileOrder
  <2>4. \A k \in DOMAIN blocks : blocks[k].offset \in Nat /\ End(blocks[k]) \in Nat /\ blocks[k].offset < End(blocks[k])
    BY BlockFacts
  <2>5. ASSUME NEW k \in DOMAIN blocks PROVE End(blocks[k]) <= total_size
    <3>1. CASE k = last
      BY <2>1, <2>4, <3>1
    <3>2. CASE k # last
      <4>1. End(blocks[k]) <= blocks[last].offset
        BY <2>2, <2>3, <3>2
      <4>2. QED
        BY <2>1, <2>2, <2>4, <4>1
    <3>3. QED
      BY <3>1, <3>2
  <2>6. ASSUME NEW byte \in 0..(total_size - 1)
        PROVE  \E k \in DOMAIN blocks : /\ Holds(blocks[k], byte)
                                        /\ \A n \in DOMAIN blocks \ {k} : ~Holds(blocks[n], byte)
    <3> DEFINE S == {k \in DOMAIN blocks : byte < End(blocks[k])}
    <3>1. S \in SUBSET Nat /\ S # {}
      <4>1. last \in S
        BY <2>1, <2>2
      <4>2. QED
        BY <2>2, <4>1
    <3>2. PICK k \in S : \A n \in S : k <= n
      <4> HIDE DEF S
      <4> QED BY <3>1, Least
    <3>3. k \in 1..last /\ byte < End(blocks[k])
      BY <2>2, <3>2
    <3>4. blocks[k].offset <= byte
      <4>1. CASE k = 1
        BY <2>1, <4>1
      <4>2. CASE k # 1
        <5>1. k \in 2..last /\ k - 1 \in DOMAIN blocks /\ k - 1 \notin S
          BY <2>2, <3>2, <3>3, <4>2
        <5>2. ~(byte < End(blocks[k - 1]))
          BY <5>1
        <5>3. QED
          BY <2>1, <2>4, <5>1, <5>2
      <4>3. QED
        BY <4>1, <4>2
    <3>5. ASSUME NEW n \in DOMAIN blocks, n # k PROVE ~Holds(blocks[n], byte)
      <4>1. CASE n < k
        <5>1. End(blocks[n]) <= blocks[k].offset
          BY <2>2, <2>3, <3>3, <4>1
        <5>2. QED
          BY <2>2, <2>4, <3>3, <3>4, <5>1 DEF Holds
      <4>2. CASE k < n
        <5>1. End(blocks[k]) <= blocks[n].offset
          BY <2>2, <2>3, <3>3, <4>2
        <5>2. QED
          BY <2>2, <2>4, <3>3, <5>1 DEF Holds
      <4>3. QED
        BY <2>2, <3>3, <3>5, <4>1, <4>2
    <3>6. QED
      BY <2>2, <3>3, <3>4, <3>5 DEF Holds
  <2>7. \A k, n \in DOMAIN blocks : k < n => blocks[k].offset <= blocks[n].offset
    BY <2>3, <2>4
  <2>8. QED
    BY <2>5, <2>6, <2>7 DEF EachByteOnce
<1>3. QED
  BY <1>1, <1>2

\* And it accepts all lists that do.
LEMMA ValidateComplete ==
    ASSUME NEW blocks \in Seq(Block), NEW total_size \in Nat, EachByteOnce(blocks, total_size)
    PROVE  validate(blocks, total_size)
<1>1. CASE blocks = <<>>
  <2>1. DOMAIN blocks = {}
    BY <1>1
  <2>2. ~(0 \in 0..(total_size - 1))
    BY <2>1 DEF EachByteOnce
  <2>3. QED
    BY <1>1, <2>2 DEF validate
<1>2. CASE blocks # <<>>
  <2> DEFINE last == Len(blocks)
  <2>1. last \in Nat /\ last \in DOMAIN blocks /\ 1 \in DOMAIN blocks /\ DOMAIN blocks = 1..last
    BY <1>2
  <2>2. \A k \in DOMAIN blocks : blocks[k].offset \in Nat /\ End(blocks[k]) \in Nat /\ blocks[k].offset < End(blocks[k])
    BY BlockFacts
  <2>3. \A k \in DOMAIN blocks : End(blocks[k]) <= total_size
    BY DEF EachByteOnce
  <2>4. \A k, n \in DOMAIN blocks : k < n => blocks[k].offset <= blocks[n].offset
    BY DEF EachByteOnce
  <2>5. ASSUME NEW byte \in 0..(total_size - 1)
        PROVE  /\ \E k \in DOMAIN blocks : Holds(blocks[k], byte)
               /\ \A k, n \in DOMAIN blocks : Holds(blocks[k], byte) /\ Holds(blocks[n], byte) => k = n
    BY DEF EachByteOnce
  <2>6. ASSUME NEW k \in DOMAIN blocks, NEW n \in DOMAIN blocks, k < n
        PROVE  End(blocks[k]) <= blocks[n].offset
    <3> SUFFICES ASSUME blocks[n].offset < End(blocks[k]) PROVE FALSE
      BY <2>2
    <3>1. blocks[n].offset \in 0..(total_size - 1)
      BY <2>2, <2>3
    <3>2. Holds(blocks[n], blocks[n].offset) /\ Holds(blocks[k], blocks[n].offset)
      BY <2>2, <2>4, <2>6 DEF Holds
    <3>3. k = n
      BY <2>5, <3>1, <3>2
    <3>4. QED
      BY <2>1, <2>6, <3>3
  <2>7. blocks[1].offset = 0
    <3>1. 0 \in 0..(total_size - 1)
      BY <2>1, <2>2, <2>3
    <3>2. PICK k \in DOMAIN blocks : Holds(blocks[k], 0)
      BY <2>5, <3>1
    <3>3. blocks[k].offset = 0
      BY <2>2, <3>2 DEF Holds
    <3>4. QED
      BY <2>1, <2>2, <2>4, <3>3
  <2>8. ASSUME NEW k \in 2..last PROVE blocks[k].offset = End(blocks[k - 1])
    <3>1. k \in DOMAIN blocks /\ k - 1 \in DOMAIN blocks /\ k - 1 < k
      BY <2>1
    <3> DEFINE byte == End(blocks[k - 1])
    <3>2. byte <= blocks[k].offset
      BY <2>6, <3>1
    <3>3. ASSUME byte < blocks[k].offset PROVE FALSE
      <4>1. byte \in 0..(total_size - 1)
        BY <2>2, <2>3, <3>1, <3>3
      <4>2. PICK n \in DOMAIN blocks : Holds(blocks[n], byte)
        BY <2>5, <4>1
      <4>3. blocks[n].offset <= byte /\ byte < End(blocks[n])
        BY <4>2 DEF Holds
      <4>4. CASE n < k - 1
        <5>1. End(blocks[n]) <= blocks[k - 1].offset
          BY <2>6, <3>1, <4>4
        <5>2. QED
          BY <2>2, <3>1, <4>3, <5>1
      <4>5. CASE n = k - 1
        BY <2>2, <3>1, <4>3, <4>5
      <4>6. CASE k <= n
        <5>1. blocks[k].offset <= blocks[n].offset
          BY <2>1, <2>2, <2>4, <3>1, <4>6
        <5>2. QED
          BY <2>2, <3>1, <3>3, <4>3, <5>1
      <4>7. QED
        BY <2>1, <4>4, <4>5, <4>6
    <3>4. QED
      BY <2>2, <3>1, <3>2, <3>3
  <2>9. End(blocks[last]) = total_size
    <3> DEFINE byte == End(blocks[last])
    <3>1. ASSUME byte < total_size PROVE FALSE
      <4>1. byte \in 0..(total_size - 1)
        BY <2>1, <2>2, <3>1
      <4>2. PICK n \in DOMAIN blocks : Holds(blocks[n], byte)
        BY <2>5, <4>1
      <4>3. byte < End(blocks[n])
        BY <4>2 DEF Holds
      <4>4. n # last /\ n < last
        BY <2>1, <2>2, <4>3
      <4>5. End(blocks[n]) <= blocks[last].offset
        BY <2>1, <2>6, <4>4
      <4>6. QED
        BY <2>1, <2>2, <4>3, <4>5
    <3>2. QED
      BY <2>1, <2>2, <2>3, <3>1
  <2>10. QED
    BY <1>2, <2>7, <2>8, <2>9 DEF validate
<1>3. QED
  BY <1>1, <1>2

\* The blocks that overlap a range are those that hold bytes of it.
LEMMA RangeExact ==
    ASSUME NEW blocks \in Seq(Block), NEW offset \in Nat, NEW length \in Nat, length > 0
    PROVE  blocks_in_range(blocks, offset, length) = Needed(blocks, offset, length)
<1>1. ASSUME NEW k \in DOMAIN blocks
      PROVE  blocks[k].offset < offset + length /\ End(blocks[k]) > offset
               <=> \E byte \in offset..(offset + length - 1) : Holds(blocks[k], byte)
  <2>1. blocks[k].offset \in Nat /\ End(blocks[k]) \in Nat /\ blocks[k].offset < End(blocks[k])
    BY BlockFacts
  <2>2. ASSUME blocks[k].offset < offset + length, End(blocks[k]) > offset
        PROVE  \E byte \in offset..(offset + length - 1) : Holds(blocks[k], byte)
    <3>1. CASE blocks[k].offset <= offset
      <4>1. offset \in offset..(offset + length - 1) /\ Holds(blocks[k], offset)
        BY <2>1, <2>2, <3>1 DEF Holds
      <4>2. QED
        BY <4>1
    <3>2. CASE offset < blocks[k].offset
      <4>1. blocks[k].offset \in offset..(offset + length - 1) /\ Holds(blocks[k], blocks[k].offset)
        BY <2>1, <2>2, <3>2 DEF Holds
      <4>2. QED
        BY <4>1
    <3>3. QED
      BY <2>1, <3>1, <3>2
  <2>3. ASSUME NEW byte \in offset..(offset + length - 1), Holds(blocks[k], byte)
        PROVE  blocks[k].offset < offset + length /\ End(blocks[k]) > offset
    BY <2>1, <2>3 DEF Holds
  <2>4. QED
    BY <2>2, <2>3
<1>2. QED
  BY <1>1 DEF blocks_in_range, Needed

\* Whatever the blocks and the size, validate accepts exactly the lists that
\* hold every byte once, and a range finds exactly the blocks with its bytes.
THEOREM ManifestsExact == AlgorithmsSpec => []ManifestExact
<1>1. SampleInv => ManifestExact
  <2> SUFFICES ASSUME SampleInv, Sampled("blocks") PROVE ManifestExact
    BY DEF ManifestExact
  <2> DEFINE blocks == sample.arg.blocks
             total_size == sample.arg.total_size
  <2>1. blocks \in Seq(Block) /\ total_size \in Nat /\ MaxRange \in Nat
    BY AlgorithmsAssumption DEF SampleInv, Sampled
  <2>2. validate(blocks, total_size) <=> EachByteOnce(blocks, total_size)
    <3> HIDE DEF blocks, total_size
    <3> QED BY <2>1, ValidateSound, ValidateComplete
  <2>3. ASSUME NEW offset \in 0..MaxRange, NEW length \in 1..MaxRange
        PROVE  blocks_in_range(blocks, offset, length) = Needed(blocks, offset, length)
    <3>1. offset \in Nat /\ length \in Nat /\ length > 0
      BY <2>1
    <3> HIDE DEF blocks
    <3> QED BY <2>1, <3>1, RangeExact
  <2>4. QED
    BY <2>2, <2>3 DEF ManifestExact
<1>2. QED
  BY SamplesHold, <1>1, PTL

-----------------------------------------------------------------------------
(* Rules.                                                                   *)

\* The first of the rules that match, if one does.
LEMMA FirstMatch ==
    ASSUME NEW rules \in Seq(Rule), NEW path, Matching(rules, path) # {}
    PROVE  LET m == Min(Matching(rules, path)) IN
           /\ m \in Matching(rules, path) /\ m \in DOMAIN rules
           /\ \A n \in Matching(rules, path) : m <= n
           /\ evaluate(rules, path) = rules[m]
<1> DEFINE M == Matching(rules, path)
<1>1. M \in SUBSET Nat /\ M # {} /\ M \subseteq DOMAIN rules
  BY DEF Matching
<1> HIDE DEF M
<1>2. \E m \in M : \A n \in M : m <= n
  BY <1>1, Least
<1>3. Min(M) \in M /\ \A n \in M : Min(M) <= n
  BY <1>2 DEF Min
<1>4. evaluate(rules, path) = rules[Min(M)]
  BY <1>1 DEF evaluate, match_rule, M
<1>5. QED
  BY <1>1, <1>3, <1>4 DEF M

\* A rule behind the others is not the first that matches, if another one does.
LEMMA MoreRules ==
    ASSUME NEW rules \in Seq(Rule), NEW rule \in Rule, NEW path, Matching(rules, path) # {}
    PROVE  evaluate(Append(rules, rule), path) = evaluate(rules, path)
<1> DEFINE more == Append(rules, rule)
           M == Matching(rules, path)
           N == Matching(more, path)
<1>1. more \in Seq(Rule) /\ Len(rules) \in Nat /\ DOMAIN rules = 1..Len(rules)
      /\ DOMAIN more = 1..(Len(rules) + 1) /\ \A k \in DOMAIN rules : more[k] = rules[k]
  OBVIOUS
<1>2. M \subseteq N /\ N \subseteq M \cup {Len(rules) + 1}
  <2> HIDE DEF more
  <2> QED BY <1>1 DEF Matching
<1> HIDE DEF more
<1>3. /\ Min(M) \in M /\ Min(M) \in DOMAIN rules /\ \A n \in M : Min(M) <= n
      /\ evaluate(rules, path) = rules[Min(M)]
  BY FirstMatch
<1>4. /\ Min(N) \in N /\ \A n \in N : Min(N) <= n
      /\ evaluate(more, path) = more[Min(N)]
  BY <1>1, <1>2, FirstMatch
<1>5. Min(N) = Min(M)
  <2>1. Min(N) <= Min(M) /\ Min(M) \in 1..Len(rules)
    BY <1>1, <1>2, <1>3, <1>4
  <2>2. Min(N) \in DOMAIN more
    BY <1>4 DEF Matching
  <2>3. Min(N) \in M
    <3> HIDE DEF M, N
    <3> QED BY <1>1, <1>2, <1>4, <2>1, <2>2
  <2>4. Min(M) <= Min(N)
    BY <1>3, <2>3
  <2>5. QED
    BY <1>1, <2>1, <2>2, <2>4
<1>6. QED
  BY <1>1, <1>3, <1>4, <1>5 DEF more

\* Whatever the rules, a last one for all paths decides every path, and no rule
\* behind it has a say.
THEOREM CatchAllAlwaysDecides == AlgorithmsSpec => []CatchAllDecides
<1>1. SampleInv => CatchAllDecides
  <2> SUFFICES ASSUME SampleInv, Sampled("rules"), Last(sample.arg.rules).path_pattern \in CatchAll,
                      NEW path \in Paths
               PROVE  /\ can_write(sample.arg.rules, path) \in BOOLEAN
                      /\ can_write(Append(sample.arg.rules, sample.arg.rule), path) = can_write(sample.arg.rules, path)
                      /\ can_delete(Append(sample.arg.rules, sample.arg.rule), path) = can_delete(sample.arg.rules, path)
    BY DEF CatchAllDecides
  <2> DEFINE rules == sample.arg.rules
             rule == sample.arg.rule
  <2>1. rules \in Seq(Rule) /\ rules # <<>> /\ rule \in Rule
    BY AlgorithmsAssumption DEF SampleInv, Sampled
  <2>2. rules[Len(rules)].path_pattern \in CatchAll
    BY DEF Last
  <2> HIDE DEF rules, rule
  <2>3. Len(rules) \in Matching(rules, path)
    BY <2>1, <2>2 DEF Matching, glob_matches
  <2>4. evaluate(Append(rules, rule), path) = evaluate(rules, path)
    BY <2>1, <2>3, MoreRules
  <2>5. evaluate(rules, path).mutable \in BOOLEAN
    <3>1. PICK m \in DOMAIN rules : evaluate(rules, path) = rules[m]
      BY <2>1, <2>3, FirstMatch
    <3>2. rules[m] \in Rule
      BY <2>1
    <3>3. QED
      BY <3>1, <3>2 DEF Rule
  <2>6. /\ can_write(rules, path) \in BOOLEAN
        /\ can_write(Append(rules, rule), path) = can_write(rules, path)
        /\ can_delete(Append(rules, rule), path) = can_delete(rules, path)
    BY <2>4, <2>5 DEF can_write, can_delete
  <2>7. QED
    BY <2>6 DEF rules, rule
<1>2. QED
  BY SamplesHold, <1>1, PTL

-----------------------------------------------------------------------------
(* Blocks.                                                                  *)

\* Where ends of the same length begin cannot be confused.
LEMMA SameEnds ==
    ASSUME NEW S, NEW s1 \in Seq(S), NEW s2 \in Seq(S), NEW t1 \in Seq(S), NEW t2 \in Seq(S),
           Len(t1) = Len(t2), s1 \o t1 = s2 \o t2
    PROVE  s1 = s2 /\ t1 = t2
<1> DEFINE both(s, t) ==
             /\ Len(s \o t) = Len(s) + Len(t) /\ Len(s) \in Nat /\ Len(t) \in Nat
             /\ \A k \in 1..Len(s) + Len(t) : (s \o t)[k] = IF k <= Len(s) THEN s[k] ELSE t[k - Len(s)]
<1>1. both(s1, t1) /\ both(s2, t2)
  BY ConcatProperties, LenProperties
<1>2. Len(s1) = Len(s2)
  BY <1>1
<1>3. ASSUME NEW k \in 1..Len(s1) PROVE s1[k] = s2[k]
  <2>1. k \in 1..Len(s1) + Len(t1) /\ k \in 1..Len(s2) + Len(t2) /\ k <= Len(s1) /\ k <= Len(s2)
    BY <1>1, <1>2
  <2>2. QED
    BY <1>1, <2>1
<1>4. ASSUME NEW k \in 1..Len(t1) PROVE t1[k] = t2[k]
  <2> DEFINE n == Len(s1) + k
  <2>1. /\ n \in 1..Len(s1) + Len(t1) /\ n \in 1..Len(s2) + Len(t2)
        /\ ~(n <= Len(s1)) /\ ~(n <= Len(s2)) /\ n - Len(s1) = k /\ n - Len(s2) = k
    BY <1>1, <1>2
  <2> HIDE DEF n
  <2>2. QED
    BY <1>1, <2>1
<1>5. s1 = s2
  BY <1>2, <1>3, SeqEqual
<1>6. t1 = t2
  BY <1>4, SeqEqual
<1>7. QED
  BY <1>5, <1>6

\* A sequence with one more element.
LEMMA AppendedOne ==
    ASSUME NEW S, NEW s \in Seq(S), NEW e \in S
    PROVE  LET t == Append(s, e) IN
           /\ Len(t) = Len(s) + 1 /\ t[Len(s) + 1] = e /\ \A k \in 1..Len(s) : t[k] = s[k]
           /\ SubSeq(t, 1, Len(s)) = s
<1> DEFINE t == Append(s, e)
           u == SubSeq(t, 1, Len(s))
<1>1. t \in Seq(S) /\ Len(t) = Len(s) + 1 /\ t[Len(s) + 1] = e /\ \A k \in 1..Len(s) : t[k] = s[k]
  BY AppendProperties
<1> HIDE DEF t
<1>2. u \in Seq(S) /\ Len(u) = Len(s) /\ \A k \in 1..Len(s) : u[k] = t[k]
  BY <1>1
<1> HIDE DEF u
<1>3. u = s
  BY <1>1, <1>2, SeqEqual
<1>4. QED
  BY <1>1, <1>3 DEF t, u

\* The flags of a header.
Flag(args) == IF args.compressed THEN FLAG_COMPRESSED ELSE 0

\* What is behind the magic.
LEMMA HeaderTail ==
    ASSUME NEW args
    PROVE  Tail(Header(args)) =
             <<SRB1_VERSION, args.epoch, Flag(args), args.content_hash, Len(args.plaintext) % LEN_VALUES>>
BY DEF Header, Flag

\* The additional data of two blocks is the same only if all is the same.
LEMMA SameAad ==
    ASSUME NEW h \in BlockArgs, NEW p \in BlockArgs,
           full_aad(p.aad, Header(p)) = full_aad(h.aad, Header(h))
    PROVE  /\ h.aad = p.aad /\ h.epoch = p.epoch /\ h.compressed = p.compressed
           /\ h.content_hash = p.content_hash
           /\ Len(h.plaintext) % LEN_VALUES = Len(p.plaintext) % LEN_VALUES
<1> DEFINE t(x) == <<SRB1_VERSION, x.epoch, Flag(x), x.content_hash, Len(x.plaintext) % LEN_VALUES>>
           S == Nat \cup Epochs \cup Hashes
<1>1. ASSUME NEW x \in BlockArgs PROVE x.aad \in Seq(S) /\ t(x) \in Seq(S) /\ Len(t(x)) = 5
  <2>1. x.aad \in Seq(Nat) /\ x.epoch \in Epochs /\ x.content_hash \in Hashes /\ x.plaintext \in Seq(Nat)
    BY DEF BlockArgs
  <2>2. Len(x.plaintext) % LEN_VALUES \in Nat /\ Flag(x) \in Nat /\ SRB1_VERSION \in Nat
    <3>1. Len(x.plaintext) \in Nat
      BY <2>1
    <3>2. Len(x.plaintext) % LEN_VALUES \in Nat
      BY <3>1, Srb1Assumption, ModFacts
    <3>3. Flag(x) \in Nat /\ SRB1_VERSION \in Nat
      BY DEF Flag, FLAG_COMPRESSED, SRB1_VERSION
    <3>4. QED
      BY <3>2, <3>3
  <2>3. t(x) \in Seq(S)
    <3>1. /\ SRB1_VERSION \in S /\ x.epoch \in S /\ Flag(x) \in S /\ x.content_hash \in S
          /\ Len(x.plaintext) % LEN_VALUES \in S
      BY <2>1, <2>2
    <3> HIDE DEF S
    <3> QED BY <3>1
  <2>4. x.aad \in Seq(S)
    <3>1. Nat \subseteq S
      OBVIOUS
    <3> HIDE DEF S
    <3>2. QED
      BY <2>1, <3>1, SeqMonotonic
  <2>5. QED
    BY <2>3, <2>4
<1>2. p.aad \o t(p) = h.aad \o t(h)
  BY HeaderTail DEF full_aad
<1>3. p.aad = h.aad /\ t(p) = t(h)
  <2>1. p.aad \in Seq(S) /\ h.aad \in Seq(S) /\ t(p) \in Seq(S) /\ t(h) \in Seq(S) /\ Len(t(p)) = Len(t(h))
    BY <1>1
  <2> HIDE DEF t, S
  <2> QED BY <1>2, <2>1, SameEnds
<1>4. h.epoch = p.epoch /\ Flag(h) = Flag(p) /\ h.content_hash = p.content_hash
      /\ Len(h.plaintext) % LEN_VALUES = Len(p.plaintext) % LEN_VALUES
  BY <1>3
<1>5. h.compressed \in BOOLEAN /\ p.compressed \in BOOLEAN
  BY DEF BlockArgs
<1>6. h.compressed = p.compressed
  BY <1>4, <1>5 DEF Flag, FLAG_COMPRESSED
<1>7. QED
  BY <1>3, <1>4, <1>6

\* What is decoded from a header and the payload of another block.
LEMMA DecodeBoth ==
    ASSUME NEW h \in BlockArgs, NEW p \in BlockArgs
    PROVE  decode(h.key, Append(Header(h), Last(encode(p))), h.aad) =
             IF /\ p.key = h.key /\ full_aad(p.aad, Header(p)) = full_aad(h.aad, Header(h))
                /\ Len(p.plaintext) = Len(h.plaintext) % LEN_VALUES
               THEN [epoch |-> h.epoch, compressed |-> h.compressed,
                     content_hash |-> h.content_hash, plaintext |-> p.plaintext]
               ELSE BlockFormat
<1> DEFINE payload == Encrypted(p.key, p.plaintext, full_aad(p.aad, Header(p)))
           block == Append(Header(h), payload)
           l == Len(h.plaintext) % LEN_VALUES
<1>1. Last(encode(p)) = payload
  BY DEF Last, encode, Header
<1>2. /\ Len(block) = 7 /\ block[7] = payload /\ \A k \in 1..6 : block[k] = Header(h)[k]
      /\ SubSeq(block, 1, 6) = Header(h)
  <2> DEFINE S == {SRB1_MAGIC, SRB1_VERSION, h.epoch, Flag(h), h.content_hash, l, payload}
  <2>1. Header(h) \in Seq(S) /\ Len(Header(h)) = 6 /\ payload \in S
    <3> HIDE DEF payload, l
    <3>1. Header(h) = <<SRB1_MAGIC, SRB1_VERSION, h.epoch, Flag(h), h.content_hash, l>>
      BY DEF Header, Flag, l
    <3>2. QED
      BY <3>1
  <2> HIDE DEF S, payload
  <2>2. LET n == Len(Header(h)) IN
        /\ Len(block) = n + 1 /\ block[n + 1] = payload /\ \A k \in 1..n : block[k] = Header(h)[k]
        /\ SubSeq(block, 1, n) = Header(h)
    BY <2>1, AppendedOne, Zenon
  <2> HIDE DEF block
  <2>3. QED
    BY <2>1, <2>2
<1>3. /\ block[1] = SRB1_MAGIC /\ block[2] = SRB1_VERSION /\ block[3] = h.epoch
      /\ block[4] = Flag(h) /\ block[5] = h.content_hash /\ block[6] = l /\ Last(block) = payload
  <2>1. /\ Header(h)[1] = SRB1_MAGIC /\ Header(h)[2] = SRB1_VERSION /\ Header(h)[3] = h.epoch
        /\ Header(h)[4] = Flag(h) /\ Header(h)[5] = h.content_hash /\ Header(h)[6] = l
    BY DEF Header, Flag
  <2> HIDE DEF block, payload, l
  <2>2. QED
    BY <1>2, <2>1 DEF Last
<1>4. SubSeq(block, 1, HEADER_SIZE) = Header(h) /\ Len(block) > HEADER_SIZE
  BY <1>2 DEF HEADER_SIZE
<1>5. (block[4] % 2 = FLAG_COMPRESSED) = h.compressed
  <2>1. h.compressed \in BOOLEAN
    BY DEF BlockArgs
  <2>2. QED
    BY <1>3, <2>1 DEF Flag, FLAG_COMPRESSED
<1>6. payload.key = p.key /\ payload.plaintext = p.plaintext /\ payload.aad = full_aad(p.aad, Header(p))
  BY DEF Encrypted
<1>7. decode(h.key, block, h.aad) =
        IF /\ p.key = h.key /\ full_aad(p.aad, Header(p)) = full_aad(h.aad, Header(h))
           /\ Len(p.plaintext) = l
          THEN [epoch |-> h.epoch, compressed |-> h.compressed,
                content_hash |-> h.content_hash, plaintext |-> p.plaintext]
          ELSE BlockFormat
  <2> HIDE DEF block, payload, l
  <2>1. Opens(Last(block), h.key, full_aad(h.aad, SubSeq(block, 1, HEADER_SIZE)))
          <=> p.key = h.key /\ full_aad(p.aad, Header(p)) = full_aad(h.aad, Header(h))
    BY <1>3, <1>4, <1>6 DEF Opens
  <2>2. Len(Last(block).plaintext) = block[6] <=> Len(p.plaintext) = l
    BY <1>3, <1>6
  <2>3. [epoch |-> block[3], compressed |-> block[4] % 2 = FLAG_COMPRESSED,
         content_hash |-> block[5], plaintext |-> Last(block).plaintext] =
        [epoch |-> h.epoch, compressed |-> h.compressed,
         content_hash |-> h.content_hash, plaintext |-> p.plaintext]
    BY <1>3, <1>5, <1>6, Zenon
  <2>4. block[1] = SRB1_MAGIC /\ block[2] = SRB1_VERSION
    BY <1>3
  <2>5. QED
    BY <1>4, <2>1, <2>2, <2>3, <2>4, Zenon DEF decode
<1>8. QED
  BY <1>1, <1>7

\* Whatever two blocks are made of: what decodes from the header of one and the
\* payload of the other is what was encoded, and it decodes exactly if all that
\* the header says is the same.
THEOREM BlocksAuthentic == AlgorithmsSpec => []BlockAuthentic
<1>1. SampleInv => BlockAuthentic
  <2> SUFFICES ASSUME SampleInv, Sampled("srb1") PROVE BlockAuthentic
    BY DEF BlockAuthentic
  <2> DEFINE h == sample.arg.header
             p == sample.arg.payload
             agree == /\ h.key = p.key /\ h.aad = p.aad /\ h.epoch = p.epoch
                      /\ h.compressed = p.compressed /\ h.content_hash = p.content_hash
             decoded == decode(h.key, Append(Header(h), Last(encode(p))), h.aad)
             result == [epoch |-> p.epoch, compressed |-> p.compressed,
                        content_hash |-> p.content_hash, plaintext |-> p.plaintext]
             fits == Len(p.plaintext) < LEN_VALUES /\ Len(h.plaintext) % LEN_VALUES = Len(p.plaintext)
             bound == full_aad(p.aad, Header(p)) = full_aad(h.aad, Header(h))
  <2>1. h \in BlockArgs /\ p \in BlockArgs
    BY AlgorithmsAssumption DEF SampleInv, Sampled
  <2> HIDE DEF h, p
  <2>2. Len(h.plaintext) \in Nat /\ Len(p.plaintext) \in Nat
    BY <2>1 DEF BlockArgs
  <2>3. CASE agree /\ fits
    <3>1. Len(p.plaintext) % LEN_VALUES = Len(p.plaintext)
      BY <2>2, <2>3, Srb1Assumption, ModFacts
    <3>2. Header(p) = Header(h)
      BY <2>3, <3>1 DEF Header
    <3>3. bound
      BY <2>3, <3>2
    <3>4. decoded = result
      <4>1. Len(p.plaintext) = Len(h.plaintext) % LEN_VALUES
        BY <2>3
      <4>2. decoded = [epoch |-> h.epoch, compressed |-> h.compressed,
                       content_hash |-> h.content_hash, plaintext |-> p.plaintext]
        BY <2>1, <2>3, <3>3, <4>1, DecodeBoth
      <4>3. QED
        BY <2>3, <4>2
    <3>5. QED
      BY <2>3, <3>4 DEF BlockAuthentic, h, p
  <2>4. CASE ~(agree /\ fits)
    <3>1. ~(p.key = h.key /\ bound /\ Len(p.plaintext) = Len(h.plaintext) % LEN_VALUES)
      <4> SUFFICES ASSUME p.key = h.key, bound, Len(p.plaintext) = Len(h.plaintext) % LEN_VALUES
                   PROVE  FALSE
        OBVIOUS
      <4>1. agree
        BY <2>1, SameAad
      <4>2. Len(p.plaintext) < LEN_VALUES
        BY <2>2, Srb1Assumption, ModFacts
      <4>3. QED
        BY <2>4, <4>1, <4>2
    <3>2. decoded = BlockFormat
      BY <2>1, <3>1, DecodeBoth
    <3>3. QED
      BY <2>4, <3>2 DEF BlockAuthentic, h, p
  <2>5. QED
    BY <2>3, <2>4
<1>2. QED
  BY SamplesHold, <1>1, PTL

-----------------------------------------------------------------------------
(* Patterns: one segment.                                                   *)

\* Elements of a part of a sequence.
LEMMA SubSeqFacts ==
    ASSUME NEW S, NEW s \in Seq(S), NEW m \in 1..(Len(s) + 1), NEW n \in Nat, m <= n + 1, n <= Len(s)
    PROVE  /\ SubSeq(s, m, n) \in Seq(S) /\ Len(SubSeq(s, m, n)) = n - m + 1
           /\ \A k \in 1..(n - m + 1) : SubSeq(s, m, n)[k] = s[m + k - 1]
<1>1. m \in Int /\ n \in Int /\ Len(s) \in Nat
  OBVIOUS
<1>2. \A k \in m..n : s[k] \in S
  BY <1>1
<1>3. QED
  BY <1>1, <1>2, SubSeqProperties

\* IsPrefix compares the first elements.
LEMMA PrefixFacts ==
    ASSUME NEW S, NEW s \in Seq(S), NEW t \in Seq(S)
    PROVE  IsPrefix(s, t) <=> Len(s) <= Len(t) /\ \A k \in 1..Len(s) : s[k] = t[k]
<1> SUFFICES ASSUME Len(s) <= Len(t)
             PROVE  SubSeq(s, 1, Len(s)) = SubSeq(t, 1, Len(s)) <=> \A k \in 1..Len(s) : s[k] = t[k]
  BY DEF IsPrefix
<1> DEFINE u == SubSeq(s, 1, Len(s))
           v == SubSeq(t, 1, Len(s))
<1>1. Len(s) \in Nat /\ Len(t) \in Nat
  OBVIOUS
<1>2. u \in Seq(S) /\ Len(u) = Len(s) /\ \A k \in 1..Len(s) : u[k] = s[k]
  BY <1>1, SubSeqFacts
<1>3. v \in Seq(S) /\ Len(v) = Len(s) /\ \A k \in 1..Len(s) : v[k] = t[k]
  BY <1>1, SubSeqFacts
<1> HIDE DEF u, v
<1>4. u = v => \A k \in 1..Len(s) : s[k] = t[k]
  BY <1>2, <1>3
<1>5. (\A k \in 1..Len(s) : s[k] = t[k]) => u = v
  BY <1>2, <1>3, SeqEqual
<1>6. QED
  BY <1>4, <1>5 DEF u, v

\* IsSuffix compares the last ones.
LEMMA SuffixFacts ==
    ASSUME NEW S, NEW s \in Seq(S), NEW t \in Seq(S)
    PROVE  IsSuffix(s, t) <=> /\ Len(s) <= Len(t)
                              /\ \A k \in 1..Len(s) : s[k] = t[Len(t) - Len(s) + k]
<1> DEFINE u == Reverse(s)
           v == Reverse(t)
<1>1. ASSUME NEW w \in Seq(S)
      PROVE  /\ Reverse(w) \in Seq(S) /\ Len(Reverse(w)) = Len(w) /\ Len(w) \in Nat
             /\ \A k \in 1..Len(w) : Reverse(w)[k] = w[Len(w) - k + 1]
  <2>1. Len(w) \in Nat /\ \A k \in 1..Len(w) : (Len(w) - k) + 1 \in 1..Len(w) /\ w[(Len(w) - k) + 1] \in S
    OBVIOUS
  <2>2. Reverse(w) \in [1..Len(w) -> S]
    BY <2>1 DEF Reverse
  <2>3. QED
    BY <2>1, <2>2 DEF Reverse
<1>2. /\ u \in Seq(S) /\ Len(u) = Len(s) /\ Len(s) \in Nat
      /\ \A k \in 1..Len(s) : u[k] = s[Len(s) - k + 1]
  BY <1>1
<1>3. /\ v \in Seq(S) /\ Len(v) = Len(t) /\ Len(t) \in Nat
      /\ \A k \in 1..Len(t) : v[k] = t[Len(t) - k + 1]
  BY <1>1
<1> HIDE DEF u, v
<1>4. IsPrefix(u, v) <=> Len(s) <= Len(t) /\ \A k \in 1..Len(s) : u[k] = v[k]
  BY <1>2, <1>3, PrefixFacts
<1>5. ASSUME Len(s) <= Len(t)
      PROVE  (\A k \in 1..Len(s) : u[k] = v[k]) <=> \A k \in 1..Len(s) : s[k] = t[Len(t) - Len(s) + k]
  <2>1. ASSUME \A k \in 1..Len(s) : u[k] = v[k], NEW k \in 1..Len(s)
        PROVE  s[k] = t[Len(t) - Len(s) + k]
    <3> DEFINE n == Len(s) - k + 1
    <3>1. n \in 1..Len(s) /\ n \in 1..Len(t) /\ Len(s) - n + 1 = k /\ Len(t) - n + 1 = Len(t) - Len(s) + k
      BY <1>2, <1>3, <1>5
    <3> HIDE DEF n
    <3>2. QED
      BY <1>2, <1>3, <2>1, <3>1
  <2>2. ASSUME \A k \in 1..Len(s) : s[k] = t[Len(t) - Len(s) + k], NEW k \in 1..Len(s)
        PROVE  u[k] = v[k]
    <3> DEFINE n == Len(s) - k + 1
    <3>1. n \in 1..Len(s) /\ k \in 1..Len(t) /\ Len(t) - Len(s) + n = Len(t) - k + 1
      BY <1>2, <1>3, <1>5
    <3>2. u[k] = s[n] /\ v[k] = t[Len(t) - k + 1]
      BY <1>2, <1>3, <3>1
    <3> HIDE DEF n
    <3>3. QED
      BY <2>2, <3>1, <3>2
  <2>3. QED
    BY <2>1, <2>2
<1>6. QED
  BY <1>4, <1>5 DEF IsSuffix, u, v

\* A segment with a star for its characters from n + 1 to m.
Starred(part, segment, n, m) ==
    /\ Len(part) = n + 1 + (Len(segment) - m)
    /\ \A k \in 1..n : part[k] = segment[k]
    /\ part[n + 1] = Star
    /\ \A k \in 1..(Len(segment) - m) : part[n + 1 + k] = segment[m + k]

\* What the reference definition puts together.
LEMMA StarredFacts ==
    ASSUME NEW part \in Segment, NEW segment \in Segment,
           NEW n \in 0..Len(segment), NEW m \in n..Len(segment)
    PROVE  part = SubSeq(segment, 1, n) \o <<Star>> \o Drop(segment, m) <=> Starred(part, segment, n, m)
<1> DEFINE s == SubSeq(segment, 1, n)
           t == Drop(segment, m)
           l == Len(segment)
           u == s \o <<Star>>
           w == u \o t
<1>1. segment \in Seq(Char) /\ part \in Seq(Char) /\ Star \in Char /\ l \in Nat /\ n \in Nat /\ m \in Nat
      /\ n <= l /\ m <= l /\ Len(part) \in Nat
  BY AlgorithmsAssumption DEF Segment
<1>2. s \in Seq(Char) /\ Len(s) = n /\ \A k \in 1..n : s[k] = segment[k]
  BY <1>1, SubSeqFacts
<1>3. t \in Seq(Char) /\ Len(t) = l - m /\ \A k \in 1..(l - m) : t[k] = segment[m + k]
  <2>1. m + 1 \in 1..(l + 1) /\ m + 1 <= l + 1 /\ l - (m + 1) + 1 = l - m
    BY <1>1
  <2>2. \A k \in 1..(l - m) : (m + 1) + k - 1 = m + k
    BY <1>1
  <2>3. t \in Seq(Char) /\ Len(t) = l - (m + 1) + 1 /\ \A k \in 1..(l - (m + 1) + 1) : t[k] = segment[(m + 1) + k - 1]
    <3>1. ASSUME NEW j \in 1..(l + 1)
          PROVE  /\ SubSeq(segment, j, l) \in Seq(Char) /\ Len(SubSeq(segment, j, l)) = l - j + 1
                 /\ \A k \in 1..(l - j + 1) : SubSeq(segment, j, l)[k] = segment[j + k - 1]
      <4>1. j <= l + 1
        BY <1>1
      <4>2. QED
        BY <1>1, <4>1, SubSeqFacts
    <3>2. QED
      BY <2>1, <3>1, Zenon DEF Drop
  <2> HIDE DEF t
  <2>4. QED
    BY <2>1, <2>2, <2>3
<1> HIDE DEF s, t
<1>4. <<Star>> \in Seq(Char) /\ Len(<<Star>>) = 1 /\ <<Star>>[1] = Star
  BY <1>1
<1>5. u \in Seq(Char) /\ Len(u) = n + 1 /\ u[n + 1] = Star /\ \A k \in 1..n : u[k] = s[k]
  <2>1. /\ u \in Seq(Char) /\ Len(u) = n + 1
        /\ \A k \in 1..(n + 1) : u[k] = IF k <= n THEN s[k] ELSE <<Star>>[k - n]
    BY <1>2, <1>4, ConcatProperties
  <2> HIDE DEF u
  <2>2. QED
    BY <1>1, <1>4, <2>1
<1> HIDE DEF u
<1>6. /\ w \in Seq(Char) /\ Len(w) = n + 1 + (l - m)
      /\ \A k \in 1..(n + 1 + (l - m)) : w[k] = IF k <= n + 1 THEN u[k] ELSE t[k - (n + 1)]
  <2>1. /\ w \in Seq(Char) /\ Len(w) = Len(u) + Len(t)
        /\ \A k \in 1..Len(u) + Len(t) : w[k] = IF k <= Len(u) THEN u[k] ELSE t[k - Len(u)]
    BY <1>3, <1>5, ConcatProperties
  <2> HIDE DEF w
  <2>2. QED
    BY <1>3, <1>5, <2>1
<1> HIDE DEF w
<1>7. /\ \A k \in 1..n : w[k] = segment[k]
      /\ w[n + 1] = Star
      /\ \A k \in 1..(l - m) : w[n + 1 + k] = segment[m + k]
  <2>1. ASSUME NEW k \in 1..n PROVE w[k] = segment[k]
    <3>1. k \in 1..(n + 1 + (l - m)) /\ k <= n + 1
      BY <1>1
    <3>2. QED
      BY <1>2, <1>5, <1>6, <3>1
  <2>2. w[n + 1] = Star
    BY <1>1, <1>5, <1>6
  <2>3. ASSUME NEW k \in 1..(l - m) PROVE w[n + 1 + k] = segment[m + k]
    <3>1. n + 1 + k \in 1..(n + 1 + (l - m)) /\ ~(n + 1 + k <= n + 1) /\ (n + 1 + k) - (n + 1) = k
      BY <1>1
    <3>2. QED
      BY <1>3, <1>6, <3>1
  <2>4. QED
    BY <2>1, <2>2, <2>3
<1>8. part = w => Starred(part, segment, n, m)
  BY <1>6, <1>7 DEF Starred
<1>9. ASSUME Starred(part, segment, n, m) PROVE part = w
  <2>1. Len(part) = Len(w) /\ Len(part) = n + 1 + (l - m)
    BY <1>6, <1>9 DEF Starred
  <2>2. ASSUME NEW k \in 1..Len(part) PROVE part[k] = w[k]
    <3>1. CASE k <= n
      <4>1. k \in 1..n
        BY <1>1, <3>1
      <4>2. QED
        BY <1>7, <1>9, <4>1 DEF Starred
    <3>2. CASE k = n + 1
      BY <1>7, <1>9, <3>2 DEF Starred
    <3>3. CASE k > n + 1
      <4> DEFINE j == k - (n + 1)
      <4>1. j \in 1..(l - m) /\ n + 1 + j = k
        BY <1>1, <2>1, <3>3
      <4> HIDE DEF j
      <4>2. QED
        BY <1>7, <1>9, <4>1 DEF Starred
    <3>4. QED
      BY <1>1, <3>1, <3>2, <3>3
  <2>3. QED
    BY <1>1, <1>6, <2>1, <2>2, SeqEqual
<1>10. QED
  BY <1>8, <1>9 DEF w, u, s, t

\* glob_match_segment decides as the reference definition does.
LEMMA SegmentExact ==
    ASSUME NEW part \in Segment, Plain(part), part # DoubleStar, NEW segment \in Segment
    PROVE  glob_match_segment(part, segment) <=> SegmentFits(part, segment)
<1> DEFINE l == Len(segment)
           p == Len(part)
           Some == \E n \in 0..l : \E m \in n..l : Starred(part, segment, n, m)
<1>1. /\ segment \in Seq(Char) /\ part \in Seq(Char) /\ Star \in Char /\ l \in Nat /\ p \in Nat
      /\ <<Star>> \in Seq(Char) /\ Len(<<Star>>) = 1 /\ <<Star>>[1] = Star
      /\ DOMAIN part = 1..p
  BY AlgorithmsAssumption DEF Segment
<1>2. SegmentFits(part, segment) <=> part = segment \/ Some
  <2>1. SegmentFits(part, segment) <=>
          \E n \in 0..l : \E m \in n..l : part = segment \/ Starred(part, segment, n, m)
    BY StarredFacts DEF SegmentFits
  <2>2. 0 \in 0..l
    BY <1>1
  <2>3. QED
    BY <2>1, <2>2
<1>3. IsPrefix(<<Star>>, part) <=> p > 0 /\ part[1] = Star
  <2>1. IsPrefix(<<Star>>, part) <=> Len(<<Star>>) <= p /\ \A k \in 1..Len(<<Star>>) : <<Star>>[k] = part[k]
    <3> DEFINE star == <<Star>>
    <3>1. star \in Seq(Char)
      BY <1>1
    <3> HIDE DEF star
    <3>2. IsPrefix(star, part) <=> Len(star) <= p /\ \A k \in 1..Len(star) : star[k] = part[k]
      BY <1>1, <3>1, PrefixFacts
    <3>3. QED
      BY <3>2 DEF star
  <2>2. QED
    BY <1>1, <2>1
<1>4. IsSuffix(<<Star>>, part) <=> p > 0 /\ part[p] = Star
  <2>1. IsSuffix(<<Star>>, part) <=>
          Len(<<Star>>) <= p /\ \A k \in 1..Len(<<Star>>) : <<Star>>[k] = part[p - Len(<<Star>>) + k]
    BY <1>1, SuffixFacts, Zenon
  <2>2. p - 1 + 1 = p
    BY <1>1
  <2>3. QED
    BY <1>1, <2>1, <2>2
<1>5. \A j \in 1..p : part[j] = Star => j \in {1, p} /\ \A n \in 1..p : n # j => part[n] # Star
  BY <1>1 DEF Plain
<1>6. ASSUME NEW n \in 0..l, NEW m \in n..l, Starred(part, segment, n, m)
      PROVE  /\ n + 1 \in 1..p /\ part[n + 1] = Star /\ n \in Nat /\ m \in Nat /\ m <= l
             /\ p = n + 1 + (l - m)
  BY <1>1, <1>6 DEF Starred
<1>7. CASE part = <<Star>>
  <2>1. p = 1 /\ part[1] = Star
    BY <1>1, <1>7
  <2>2. Starred(part, segment, 0, l)
    BY <1>1, <2>1 DEF Starred
  <2>3. Some
    BY <1>1, <2>2
  <2>4. glob_match_segment(part, segment)
    BY <1>3, <1>7, <2>1 DEF glob_match_segment
  <2>5. QED
    BY <1>2, <2>3, <2>4
<1>8. CASE part # <<Star>> /\ p > 0 /\ part[1] = Star
  <2> DEFINE t == Tail(part)
  <2>1. glob_match_segment(part, segment) <=> IsSuffix(t, segment)
    BY <1>3, <1>8 DEF glob_match_segment
  <2>2. t \in Seq(Char) /\ Len(t) = p - 1 /\ \A k \in 1..(p - 1) : t[k] = part[k + 1]
    BY <1>1, <1>8, HeadTailProperties
  <2> HIDE DEF t
  <2>3. IsSuffix(t, segment) <=> p - 1 <= l /\ \A k \in 1..(p - 1) : part[k + 1] = segment[l - (p - 1) + k]
    <3>1. IsSuffix(t, segment) <=> Len(t) <= l /\ \A k \in 1..Len(t) : t[k] = segment[l - Len(t) + k]
      BY <1>1, <2>2, SuffixFacts
    <3>2. QED
      BY <2>2, <3>1
  <2>4. ASSUME p - 1 <= l, \A k \in 1..(p - 1) : part[k + 1] = segment[l - (p - 1) + k]
        PROVE  Some
    <3> DEFINE m == l - (p - 1)
    <3>1. m \in 0..l /\ 0 \in 0..l /\ p = 0 + 1 + (l - m) /\ l - m = p - 1
      BY <1>1, <1>8, <2>4
    <3>2. \A k \in 1..(l - m) : 0 + 1 + k = k + 1
      BY <1>1, <3>1
    <3>3. \A k \in 1..(l - m) : part[0 + 1 + k] = segment[m + k]
      BY <2>4, <3>1, <3>2
    <3>4. Starred(part, segment, 0, m)
      BY <1>8, <3>1, <3>3 DEF Starred
    <3> HIDE DEF m
    <3>5. QED
      BY <3>1, <3>4
  <2>5. ASSUME NEW n \in 0..l, NEW m \in n..l, Starred(part, segment, n, m)
        PROVE  p - 1 <= l /\ \A k \in 1..(p - 1) : part[k + 1] = segment[l - (p - 1) + k]
    <3>0. /\ n + 1 \in 1..p /\ part[n + 1] = Star /\ n \in Nat /\ m \in Nat /\ m <= l
          /\ p = n + 1 + (l - m)
      BY <1>6, <2>5
    <3>1. n = 0
      BY <1>1, <1>5, <1>8, <3>0
    <3>2. p - 1 = l - m /\ p - 1 <= l /\ l - (p - 1) = m
      BY <1>1, <3>0, <3>1
    <3>3. \A k \in 1..(l - m) : part[n + 1 + k] = segment[m + k]
      BY <2>5 DEF Starred
    <3>4. \A k \in 1..(l - m) : n + 1 + k = k + 1
      BY <1>1, <3>0, <3>1
    <3>5. QED
      BY <3>2, <3>3, <3>4
  <2>6. ASSUME part = segment
        PROVE  p - 1 <= l /\ \A k \in 1..(p - 1) : part[k + 1] = segment[l - (p - 1) + k]
    <3>1. l = p /\ p - 1 <= l /\ \A k \in 1..(p - 1) : l - (p - 1) + k = k + 1
      BY <1>1, <2>6
    <3>2. QED
      BY <2>6, <3>1
  <2>7. QED
    BY <1>2, <2>1, <2>3, <2>4, <2>5, <2>6
<1>9. CASE p > 0 /\ part[1] # Star /\ part[p] = Star
  <2> DEFINE f == Front(part)
  <2>1. glob_match_segment(part, segment) <=> IsPrefix(f, segment)
    BY <1>1, <1>3, <1>4, <1>9 DEF glob_match_segment
  <2>2. f \in Seq(Char) /\ Len(f) = p - 1 /\ \A k \in 1..(p - 1) : f[k] = part[k]
    <3>1. p - 1 \in Nat /\ p - 1 <= p /\ 1 <= (p - 1) + 1 /\ (p - 1) - 1 + 1 = p - 1 /\ 1 \in 1..(p + 1)
      BY <1>1, <1>9
    <3>2. ASSUME NEW j \in Nat, j <= p
          PROVE  /\ SubSeq(part, 1, j) \in Seq(Char) /\ Len(SubSeq(part, 1, j)) = j
                 /\ \A k \in 1..j : SubSeq(part, 1, j)[k] = part[k]
      BY <1>1, <3>2, SubSeqFacts
    <3>3. QED
      BY <3>1, <3>2, Zenon DEF Front
  <2> HIDE DEF f
  <2>3. IsPrefix(f, segment) <=> p - 1 <= l /\ \A k \in 1..(p - 1) : part[k] = segment[k]
    <3>1. IsPrefix(f, segment) <=> Len(f) <= l /\ \A k \in 1..Len(f) : f[k] = segment[k]
      BY <1>1, <2>2, PrefixFacts
    <3>2. QED
      BY <2>2, <3>1
  <2>4. ASSUME p - 1 <= l, \A k \in 1..(p - 1) : part[k] = segment[k]
        PROVE  Some
    <3> DEFINE n == p - 1
    <3>1. n \in 0..l /\ l \in n..l /\ p = n + 1 + (l - l) /\ n + 1 = p /\ l - l = 0
      BY <1>1, <1>9, <2>4
    <3>2. Starred(part, segment, n, l)
      BY <1>9, <2>4, <3>1 DEF Starred
    <3> HIDE DEF n
    <3>3. QED
      BY <3>1, <3>2
  <2>5. ASSUME NEW n \in 0..l, NEW m \in n..l, Starred(part, segment, n, m)
        PROVE  p - 1 <= l /\ \A k \in 1..(p - 1) : part[k] = segment[k]
    <3>0. /\ n + 1 \in 1..p /\ part[n + 1] = Star /\ n \in Nat /\ n <= l
          /\ p = n + 1 + (l - m)
      BY <1>1, <1>6, <2>5
    <3>1. n + 1 = p
      BY <1>1, <1>5, <1>9, <3>0
    <3>2. p - 1 = n /\ p - 1 <= l
      BY <1>1, <3>0, <3>1
    <3>3. QED
      BY <2>5, <3>2 DEF Starred
  <2>6. ASSUME part = segment
        PROVE  p - 1 <= l /\ \A k \in 1..(p - 1) : part[k] = segment[k]
    BY <1>1, <2>6
  <2>7. QED
    BY <1>2, <2>1, <2>3, <2>4, <2>5, <2>6
<1>10. CASE ~(p > 0 /\ part[1] = Star) /\ ~(p > 0 /\ part[p] = Star)
  <2>1. part # <<Star>>
    BY <1>1, <1>10
  <2>2. glob_match_segment(part, segment) <=> part = segment
    BY <1>3, <1>4, <1>10, <2>1 DEF glob_match_segment
  <2>3. ASSUME NEW n \in 0..l, NEW m \in n..l, Starred(part, segment, n, m) PROVE FALSE
    <3>1. n + 1 \in 1..p /\ part[n + 1] = Star
      BY <1>6, <2>3
    <3>2. n + 1 = 1 \/ n + 1 = p
      BY <1>5, <3>1
    <3>3. p > 0
      BY <1>1, <3>1
    <3>4. QED
      BY <1>10, <3>1, <3>2, <3>3
  <2>4. QED
    BY <1>2, <2>2, <2>3
<1>11. QED
  BY <1>7, <1>8, <1>9, <1>10

-----------------------------------------------------------------------------
(* Patterns: paths.                                                         *)

\* The ends of the path that one part more matches: those of the recursion.
Longer(part, path, shorter) ==
    {m \in 0..Len(path) :
       IF part = DoubleStar THEN \E n \in 0..m : n \in shorter
       ELSE /\ m > 0
            /\ glob_match_segment(part, path[Len(path) - m + 1])
            /\ m - 1 \in shorter}

\* The function that the recursion of glob_match_parts defines.
Matched(f, pattern, path) ==
    /\ f[0] = {0}
    /\ \A k \in 1..Len(pattern) : f[k] = Longer(pattern[Len(pattern) - k + 1], path, f[k - 1])

\* There is one, and glob_match_parts looks at its end.
LEMMA MatchedExists ==
    ASSUME NEW pattern \in Seq(Segment), NEW path \in Seq(Segment)
    PROVE  \E f : /\ Matched(f, pattern, path)
                  /\ glob_match_parts(pattern, path) <=> Len(path) \in f[Len(pattern)]
<1> DEFINE l == Len(pattern)
           D == 0..l
           T == SUBSET (0..Len(path))
           step == [k \in Nat |-> [s \in T |-> Longer(pattern[l - (k + 1) + 1], path, s)]]
<1>1. l \in Nat /\ Len(path) \in Nat
  OBVIOUS
<1>2. {0} \in T
  BY <1>1
<1>3. step \in [Nat -> [T -> T]]
  BY DEF Longer
<1>4. PICK h : Follows(h, T, {0}, step)
  <2> HIDE DEF T, step
  <2> QED BY <1>2, <1>3, Recursion
<1> DEFINE g == [k \in D |-> h[k]]
           Good(f) == f = [k \in D |-> IF k = 0 THEN {0} ELSE Longer(pattern[l - k + 1], path, f[k - 1])]
<1>5. Good(g)
  <2>1. ASSUME NEW k \in D, k # 0 PROVE g[k] = Longer(pattern[l - k + 1], path, g[k - 1])
    <3>1. k - 1 \in D /\ k - 1 \in Nat /\ (k - 1) + 1 = k
      BY <1>1, <2>1
    <3>2. h[k - 1] \in T /\ h[k] = step[k - 1][h[k - 1]]
      <4> HIDE DEF T, step, g
      <4> QED BY <1>4, <3>1 DEF Follows
    <3>3. step[k - 1][h[k - 1]] = Longer(pattern[l - ((k - 1) + 1) + 1], path, h[k - 1])
      <4> HIDE DEF T, g
      <4> QED BY <3>1, <3>2
    <3>4. QED
      BY <3>1, <3>2, <3>3
  <2>2. g[0] = {0}
    BY <1>1, <1>4 DEF Follows
  <2>3. g = [k \in D |-> g[k]]
    OBVIOUS
  <2> HIDE DEF g, D
  <2> QED BY <2>1, <2>2, <2>3
<1> DEFINE own == CHOOSE f : Good(f)
<1>6. Good(own)
  <2> HIDE DEF Good, g
  <2> QED BY <1>5
<1>7. glob_match_parts(pattern, path) <=> Len(path) \in own[l]
  BY DEF glob_match_parts, Longer
<1>8. Matched(own, pattern, path)
  <2> HIDE DEF own
  <2>1. \A k \in D : own[k] = IF k = 0 THEN {0} ELSE Longer(pattern[l - k + 1], path, own[k - 1])
    BY <1>6, Zenon
  <2>2. 0 \in D /\ \A k \in 1..l : k \in D /\ k # 0
    BY <1>1
  <2> HIDE DEF D
  <2>3. QED
    BY <2>1, <2>2 DEF Matched
<1>9. QED
  <2> HIDE DEF own
  <2> QED BY <1>7, <1>8

\* One piece of a path: from a to b, for a part of the pattern.
Piece(part, path, a, b) ==
    IF part = DoubleStar THEN a <= b ELSE b = a + 1 /\ SegmentFits(part, path[b])

\* The last k parts of the pattern fit the path behind its first segments.
FitsFrom(pattern, path, k, start) ==
    \E cut \in [0..k -> 0..Len(path)] :
        /\ cut[0] = start /\ cut[k] = Len(path)
        /\ \A j \in 1..k : Piece(pattern[Len(pattern) - k + j], path, cut[j - 1], cut[j])

\* All parts fit the path as a whole.
LEMMA FitsFromStart ==
    ASSUME NEW pattern \in Seq(Segment), NEW path \in Seq(Segment)
    PROVE  FitsFrom(pattern, path, Len(pattern), 0) <=> Fits(pattern, path)
<1>1. Len(pattern) \in Nat
  OBVIOUS
<1>2. \A j \in 1..Len(pattern) : Len(pattern) - Len(pattern) + j = j
  BY <1>1
<1>3. QED
  BY <1>2 DEF FitsFrom, Fits, Piece

\* One part more: a piece, and the rest behind it.
LEMMA FitsFromNext ==
    ASSUME NEW pattern \in Seq(Segment), NEW path \in Seq(Segment),
           NEW k \in Nat, k + 1 <= Len(pattern), NEW start \in 0..Len(path)
    PROVE  FitsFrom(pattern, path, k + 1, start) <=>
             \E next \in 0..Len(path) : /\ Piece(pattern[Len(pattern) - k], path, start, next)
                                         /\ FitsFrom(pattern, path, k, next)
<1> DEFINE l == Len(pattern)
           R == 0..Len(path)
<1>1. l \in Nat /\ Len(path) \in Nat
  OBVIOUS
<1>2. ASSUME FitsFrom(pattern, path, k + 1, start)
      PROVE  \E next \in R : Piece(pattern[l - k], path, start, next) /\ FitsFrom(pattern, path, k, next)
  <2>1. PICK cut \in [0..(k + 1) -> R] :
               /\ cut[0] = start /\ cut[k + 1] = Len(path)
               /\ \A j \in 1..(k + 1) : Piece(pattern[l - (k + 1) + j], path, cut[j - 1], cut[j])
    BY <1>2 DEF FitsFrom
  <2> DEFINE rest == [j \in 0..k |-> cut[j + 1]]
  <2>2. rest \in [0..k -> R] /\ rest[0] = cut[1] /\ rest[k] = Len(path) /\ cut[1] \in R
    BY <2>1
  <2>3. ASSUME NEW j \in 1..k PROVE Piece(pattern[l - k + j], path, rest[j - 1], rest[j])
    <3>1. /\ j + 1 \in 1..(k + 1) /\ l - (k + 1) + (j + 1) = l - k + j /\ (j + 1) - 1 = j
          /\ j \in 0..k /\ j - 1 \in 0..k /\ (j - 1) + 1 = j
      BY <1>1
    <3>2. rest[j] = cut[j + 1] /\ rest[j - 1] = cut[j]
      BY <3>1
    <3>3. Piece(pattern[l - (k + 1) + (j + 1)], path, cut[(j + 1) - 1], cut[j + 1])
      BY <2>1, <3>1
    <3>4. QED
      BY <3>1, <3>2, <3>3
  <2>4. FitsFrom(pattern, path, k, cut[1])
    <3> HIDE DEF rest
    <3> QED BY <2>2, <2>3 DEF FitsFrom
  <2>5. Piece(pattern[l - k], path, start, cut[1])
    <3>1. 1 \in 1..(k + 1) /\ l - (k + 1) + 1 = l - k /\ 1 - 1 = 0
      BY <1>1
    <3>2. Piece(pattern[l - (k + 1) + 1], path, cut[1 - 1], cut[1])
      BY <2>1, <3>1
    <3>3. QED
      BY <2>1, <3>1, <3>2
  <2>6. QED
    BY <2>2, <2>4, <2>5
<1>3. ASSUME NEW next \in R, Piece(pattern[l - k], path, start, next), FitsFrom(pattern, path, k, next)
      PROVE  FitsFrom(pattern, path, k + 1, start)
  <2>1. PICK rest \in [0..k -> R] :
               /\ rest[0] = next /\ rest[k] = Len(path)
               /\ \A j \in 1..k : Piece(pattern[l - k + j], path, rest[j - 1], rest[j])
    BY <1>3 DEF FitsFrom
  <2> DEFINE cut == [j \in 0..(k + 1) |-> IF j = 0 THEN start ELSE rest[j - 1]]
  <2>2. \A j \in 1..(k + 1) : j - 1 \in 0..k /\ j # 0 /\ j \in 0..(k + 1)
    OBVIOUS
  <2>3. cut \in [0..(k + 1) -> R] /\ cut[0] = start /\ \A j \in 1..(k + 1) : cut[j] = rest[j - 1]
    BY <2>1, <2>2
  <2> HIDE DEF cut
  <2>4. cut[k + 1] = Len(path)
    <3>1. k + 1 \in 1..(k + 1) /\ (k + 1) - 1 = k
      OBVIOUS
    <3>2. QED
      BY <2>1, <2>3, <3>1
  <2>5. ASSUME NEW j \in 1..(k + 1) PROVE Piece(pattern[l - (k + 1) + j], path, cut[j - 1], cut[j])
    <3>1. CASE j = 1
      <4>1. l - (k + 1) + j = l - k /\ j - 1 = 0 /\ 1 \in 1..(k + 1)
        BY <1>1, <3>1
      <4>2. cut[j - 1] = start /\ cut[j] = next
        BY <2>1, <2>3, <3>1, <4>1
      <4>3. QED
        BY <1>3, <4>1, <4>2
    <3>2. CASE j # 1
      <4> DEFINE n == j - 1
      <4>1. n \in 1..k /\ n \in 1..(k + 1) /\ l - (k + 1) + j = l - k + n
        BY <1>1, <3>2
      <4>2. cut[j - 1] = rest[n - 1] /\ cut[j] = rest[n]
        BY <2>3, <4>1
      <4>3. Piece(pattern[l - k + n], path, rest[n - 1], rest[n])
        BY <2>1, <4>1
      <4>4. QED
        BY <4>1, <4>2, <4>3
    <3>3. QED
      BY <3>1, <3>2
  <2>6. QED
    BY <2>3, <2>4, <2>5 DEF FitsFrom
<1>4. QED
  BY <1>2, <1>3

\* The recursion finds the ends of the path that the end of the pattern fits.
LEMMA MatchedFits ==
    ASSUME NEW pattern \in Seq(Segment), \A k \in DOMAIN pattern : Plain(pattern[k]),
           NEW path \in Seq(Segment), NEW f, Matched(f, pattern, path)
    PROVE  \A k \in 0..Len(pattern) : \A m \in 0..Len(path) :
             m \in f[k] <=> FitsFrom(pattern, path, k, Len(path) - m)
<1> DEFINE l == Len(pattern)
           R == 0..Len(path)
           S == {k \in Nat : k <= l => \A m \in R : m \in f[k] <=> FitsFrom(pattern, path, k, Len(path) - m)}
<1>1. l \in Nat /\ Len(path) \in Nat
  OBVIOUS
<1>2. 0 \in S
  <2> SUFFICES ASSUME NEW m \in R PROVE m \in f[0] <=> FitsFrom(pattern, path, 0, Len(path) - m)
    OBVIOUS
  <2>1. m \in f[0] <=> m = 0
    BY DEF Matched
  <2>2. FitsFrom(pattern, path, 0, Len(path) - m) => m = 0
    BY <1>1 DEF FitsFrom
  <2>3. ASSUME m = 0 PROVE FitsFrom(pattern, path, 0, Len(path) - m)
    <3> DEFINE cut == [j \in 0..0 |-> Len(path)]
    <3>1. cut \in [0..0 -> R] /\ cut[0] = Len(path) - m /\ cut[0] = Len(path)
      BY <1>1, <2>3
    <3>2. \A j \in 1..0 : FALSE
      OBVIOUS
    <3> HIDE DEF cut
    <3>3. QED
      BY <3>1, <3>2 DEF FitsFrom
  <2>4. QED
    BY <2>1, <2>2, <2>3
<1>3. ASSUME NEW k \in S PROVE k + 1 \in S
  <2>1. k \in Nat
    OBVIOUS
  <2> SUFFICES ASSUME k + 1 <= l, NEW m \in R
               PROVE  m \in f[k + 1] <=> FitsFrom(pattern, path, k + 1, Len(path) - m)
    BY <2>1
  <2>2. \A n \in R : n \in f[k] <=> FitsFrom(pattern, path, k, Len(path) - n)
    BY <1>1, <2>1
  <2> HIDE DEF S
  <2> DEFINE part == pattern[l - k]
             start == Len(path) - m
  <2>3. k + 1 \in 1..l /\ l - (k + 1) + 1 = l - k /\ (k + 1) - 1 = k /\ l - k \in 1..l /\ start \in R
    BY <1>1, <2>1
  <2>4. f[k + 1] = Longer(part, path, f[k])
    <3>1. f[k + 1] = Longer(pattern[l - (k + 1) + 1], path, f[(k + 1) - 1])
      BY <2>3 DEF Matched
    <3>2. QED
      BY <2>3, <3>1
  <2>5. part \in Segment /\ Plain(part)
    BY <2>3
  <2>6. FitsFrom(pattern, path, k + 1, start) <=>
          \E next \in R : Piece(part, path, start, next) /\ FitsFrom(pattern, path, k, next)
    BY <2>1, <2>3, FitsFromNext
  <2> HIDE DEF part
  <2>7. CASE part = DoubleStar
    <3>1. m \in f[k + 1] <=> \E n \in 0..m : n \in f[k]
      BY <2>4, <2>7 DEF Longer
    <3>2. ASSUME NEW n \in 0..m, n \in f[k]
          PROVE  \E next \in R : Piece(part, path, start, next) /\ FitsFrom(pattern, path, k, next)
      <4>1. n \in R /\ Len(path) - n \in R /\ start <= Len(path) - n
        BY <1>1
      <4>2. FitsFrom(pattern, path, k, Len(path) - n)
        BY <2>2, <3>2, <4>1
      <4>3. QED
        BY <2>7, <4>1, <4>2 DEF Piece
    <3>3. ASSUME NEW next \in R, Piece(part, path, start, next), FitsFrom(pattern, path, k, next)
          PROVE  \E n \in 0..m : n \in f[k]
      <4> DEFINE n == Len(path) - next
      <4>1. n \in 0..m /\ n \in R /\ Len(path) - n = next
        BY <1>1, <2>7, <3>3 DEF Piece
      <4> HIDE DEF n
      <4>2. n \in f[k]
        BY <2>2, <3>3, <4>1
      <4>3. QED
        BY <4>1, <4>2
    <3>4. QED
      BY <2>6, <3>1, <3>2, <3>3
  <2>8. CASE part # DoubleStar
    <3>1. m \in f[k + 1] <=> /\ m > 0 /\ glob_match_segment(part, path[Len(path) - m + 1])
                             /\ m - 1 \in f[k]
      BY <2>4, <2>8 DEF Longer
    <3>2. ASSUME m > 0
          PROVE  glob_match_segment(part, path[Len(path) - m + 1]) <=> SegmentFits(part, path[start + 1])
      <4>1. start + 1 \in 1..Len(path) /\ start + 1 = Len(path) - m + 1
        BY <1>1, <3>2
      <4>2. path[start + 1] \in Segment
        BY <4>1
      <4>3. QED
        BY <2>5, <2>8, <4>1, <4>2, SegmentExact
    <3>3. ASSUME m > 0 PROVE m - 1 \in f[k] <=> FitsFrom(pattern, path, k, start + 1)
      <4>1. m - 1 \in R /\ Len(path) - (m - 1) = start + 1
        BY <1>1, <3>3
      <4>2. QED
        BY <2>2, <4>1
    <3>4. (\E next \in R : Piece(part, path, start, next) /\ FitsFrom(pattern, path, k, next))
            <=> m > 0 /\ SegmentFits(part, path[start + 1]) /\ FitsFrom(pattern, path, k, start + 1)
      <4>1. start + 1 \in R <=> m > 0
        BY <1>1
      <4> HIDE DEF start
      <4>2. QED
        BY <2>8, <4>1 DEF Piece
    <3>5. QED
      BY <2>6, <3>1, <3>2, <3>3, <3>4
  <2>9. QED
    BY <2>7, <2>8
<1>4. S = Nat
  <2>1. S \in SUBSET Nat
    OBVIOUS
  <2> HIDE DEF S
  <2> QED BY <1>2, <1>3, <2>1, Induction
<1>5. QED
  BY <1>1, <1>4

\* The patterns of the shortcut fit every path.
LEMMA CatchAllFits ==
    ASSUME NEW pattern \in CatchAll, NEW path \in Seq(Segment), path # <<>>
    PROVE  Fits(pattern, path)
<1> DEFINE l == Len(path)
<1>1. l \in Nat /\ l > 0 /\ l - 1 \in 0..l /\ l \in 0..l /\ 0 \in 0..l
  OBVIOUS
<1>2. CASE pattern = <<DoubleStar>>
  <2> DEFINE cut == [j \in 0..1 |-> IF j = 0 THEN 0 ELSE l]
  <2>1. Len(pattern) = 1 /\ pattern[1] = DoubleStar
    BY <1>2
  <2>2. cut \in [0..1 -> 0..l] /\ cut[0] = 0 /\ cut[1] = l
    BY <1>1
  <2> HIDE DEF cut
  <2>3. QED
    BY <1>1, <2>1, <2>2 DEF Fits
<1>3. CASE pattern = <<DoubleStar, <<Star>>>>
  <2> DEFINE cut == [j \in 0..2 |-> IF j = 0 THEN 0 ELSE IF j = 1 THEN l - 1 ELSE l]
  <2>1. Len(pattern) = 2 /\ pattern[1] = DoubleStar /\ pattern[2] = <<Star>> /\ <<Star>> # DoubleStar
    BY <1>3 DEF DoubleStar
  <2>2. cut \in [0..2 -> 0..l] /\ cut[0] = 0 /\ cut[1] = l - 1 /\ cut[2] = l
    BY <1>1
  <2> HIDE DEF cut
  <2>3. SegmentFits(<<Star>>, path[l])
    <3>1. path[l] \in Segment
      BY <1>1
    <3>2. <<Star>> \in Segment /\ Plain(<<Star>>)
      BY AlgorithmsAssumption DEF Segment, Plain
    <3>3. IsPrefix(<<Star>>, <<Star>>)
      BY DEF IsPrefix
    <3>4. glob_match_segment(<<Star>>, path[l])
      BY <3>3 DEF glob_match_segment
    <3>5. QED
      BY <2>1, <3>1, <3>2, <3>4, SegmentExact
  <2>4. ASSUME NEW k \in 1..2
        PROVE  IF pattern[k] = DoubleStar THEN cut[k - 1] <= cut[k]
               ELSE cut[k] = cut[k - 1] + 1 /\ SegmentFits(pattern[k], path[cut[k]])
    <3>1. CASE k = 1
      BY <1>1, <2>1, <2>2, <3>1
    <3>2. CASE k = 2
      BY <1>1, <2>1, <2>2, <2>3, <3>2
    <3>3. QED
      BY <3>1, <3>2
  <2>5. QED
    BY <2>1, <2>2, <2>4 DEF Fits
<1>4. QED
  BY <1>2, <1>3 DEF CatchAll

\* Whatever the pattern of plain parts and the path, the recursion and the
\* shortcut decide as the reference definition does.
THEOREM GlobsExact == AlgorithmsSpec => []GlobExact
<1>1. SampleInv => GlobExact
  <2> SUFFICES ASSUME SampleInv, Sampled("glob")
               PROVE  glob_matches(sample.arg.pattern, sample.arg.path) <=> Fits(sample.arg.pattern, sample.arg.path)
    BY DEF GlobExact
  <2> DEFINE pattern == sample.arg.pattern
             path == sample.arg.path
  <2>1. /\ pattern \in Seq(Segment) /\ \A k \in DOMAIN pattern : Plain(pattern[k])
        /\ path \in Seq(Segment) /\ path # <<>>
    BY AlgorithmsAssumption DEF SampleInv, Sampled
  <2> HIDE DEF pattern, path
  <2>2. PICK f : /\ Matched(f, pattern, path)
                 /\ glob_match_parts(pattern, path) <=> Len(path) \in f[Len(pattern)]
    BY <2>1, MatchedExists
  <2>3. Len(path) \in f[Len(pattern)] <=> FitsFrom(pattern, path, Len(pattern), 0)
    <3>1. /\ Len(pattern) \in 0..Len(pattern) /\ Len(path) \in 0..Len(path) /\ Len(path) - Len(path) = 0
      BY <2>1
    <3>2. Len(path) \in f[Len(pattern)] <=> FitsFrom(pattern, path, Len(pattern), Len(path) - Len(path))
      BY <2>1, <2>2, <3>1, MatchedFits
    <3>3. QED
      BY <3>1, <3>2
  <2>4. glob_match_parts(pattern, path) <=> Fits(pattern, path)
    BY <2>1, <2>2, <2>3, FitsFromStart
  <2>5. pattern \in CatchAll => Fits(pattern, path)
    BY <2>1, CatchAllFits
  <2>6. QED
    BY <2>4, <2>5 DEF glob_matches, pattern, path
<1>2. QED
  BY SamplesHold, <1>1, PTL

-----------------------------------------------------------------------------
(* Numbers and their bits.                                                  *)

\* Quotients and remainders.
LEMMA DivMod ==
    ASSUME NEW q \in Nat, NEW d \in Nat \ {0}, NEW r \in 0..(d - 1)
    PROVE  (q * d + r) \div d = q /\ (q * d + r) % d = r
OBVIOUS

\* A number is put together from the two.
LEMMA DivModBack ==
    ASSUME NEW p \in Nat, NEW d \in Nat \ {0}
    PROVE  /\ p \div d \in Nat /\ p % d \in 0..(d - 1)
           /\ p = (p \div d) * d + (p % d)
<1>1. p % d \in Nat /\ p % d < d
  BY ModFacts
<1>2. p \div d \in Nat /\ p = d * (p \div d) + (p % d)
  OBVIOUS
<1>3. QED
  BY <1>1, <1>2

\* Products of natural numbers are ordered as the numbers are.
LEMMA ProductOrder ==
    ASSUME NEW x \in Nat, NEW y \in Nat, NEW d \in Nat \ {0}, x < y
    PROVE  x * d + d <= y * d /\ x * d \in Nat /\ y * d \in Nat
<1>1. PICK z \in Nat : y = x + 1 + z
  <2>1. y - x - 1 \in Nat /\ y = x + 1 + (y - x - 1)
    OBVIOUS
  <2>2. QED
    BY <2>1
<1>2. y * d = x * d + d + z * d /\ z * d >= 0
  BY <1>1
<1>3. QED
  BY <1>2

\* Where a place is, if there are count pieces of d.
LEMMA DivBound ==
    ASSUME NEW p \in Nat, NEW d \in Nat \ {0}, NEW count \in Nat
    PROVE  p < count * d <=> p \div d < count
<1>1. p \div d \in Nat /\ p % d \in 0..(d - 1) /\ p = (p \div d) * d + (p % d)
  BY DivModBack
<1>2. ASSUME p \div d < count PROVE p < count * d
  <2>1. (p \div d) * d + d <= count * d /\ (p \div d) * d \in Nat /\ count * d \in Nat
    BY <1>1, <1>2, ProductOrder
  <2>2. QED
    BY <1>1, <2>1
<1>3. ASSUME ~(p \div d < count) PROVE ~(p < count * d)
  <2>1. CASE count = p \div d
    <3>1. count * d = (p \div d) * d /\ count * d \in Nat
      BY <2>1
    <3>2. QED
      BY <1>1, <3>1
  <2>2. CASE count < p \div d
    <3>1. count * d + d <= (p \div d) * d /\ (p \div d) * d \in Nat /\ count * d \in Nat
      BY <1>1, <2>2, ProductOrder
    <3>2. QED
      BY <1>1, <3>1
  <2>3. QED
    BY <1>1, <1>3, <2>1, <2>2
<1>4. QED
  BY <1>2, <1>3

\* Pow2 is what its recursion says.
LEMMA Pow2Facts ==
    /\ Pow2[0] = 1
    /\ \A k \in Nat : Pow2[k] \in Nat \ {0} /\ Pow2[k + 1] = 2 * Pow2[k]
<1> DEFINE T == Nat \ {0}
           step == [k \in Nat |-> [x \in T |-> 2 * x]]
           Good(f) == f = [k \in Nat |-> IF k = 0 THEN 1 ELSE 2 * f[k - 1]]
<1>1. step \in [Nat -> [T -> T]] /\ 1 \in T
  OBVIOUS
<1>2. PICK h : Follows(h, T, 1, step)
  <2> HIDE DEF T, step
  <2> QED BY <1>1, Recursion
<1>3. Good(h)
  <2>1. h \in [Nat -> T] /\ h[0] = 1 /\ \A k \in Nat : h[k + 1] = 2 * h[k]
    BY <1>2 DEF Follows
  <2>2. ASSUME NEW k \in Nat, k # 0 PROVE h[k] = 2 * h[k - 1]
    <3>1. k - 1 \in Nat /\ (k - 1) + 1 = k
      BY <2>2
    <3>2. QED
      BY <2>1, <3>1
  <2>3. h = [k \in Nat |-> h[k]]
    BY <2>1
  <2>4. QED
    BY <2>1, <2>2, <2>3
<1>4. Pow2 = CHOOSE f : Good(f)
  BY DEF Pow2
<1>5. Good(Pow2)
  <2> HIDE DEF Good
  <2> QED BY <1>3, <1>4
<1>6. Pow2[0] = 1 /\ \A k \in Nat : Pow2[k + 1] = 2 * Pow2[k]
  <2>1. \A k \in Nat : Pow2[k] = IF k = 0 THEN 1 ELSE 2 * Pow2[k - 1]
    BY <1>5, Zenon
  <2>2. Pow2[0] = 1
    BY <2>1
  <2>3. ASSUME NEW k \in Nat PROVE Pow2[k + 1] = 2 * Pow2[k]
    <3>1. k + 1 \in Nat /\ k + 1 # 0 /\ (k + 1) - 1 = k
      OBVIOUS
    <3>2. QED
      BY <2>1, <3>1
  <2>4. QED
    BY <2>2, <2>3
<1>7. \A k \in Nat : Pow2[k] \in Nat \ {0}
  <2> DEFINE S == {k \in Nat : Pow2[k] \in Nat \ {0}}
  <2>1. 0 \in S /\ S \in SUBSET Nat
    BY <1>6
  <2>2. ASSUME NEW k \in S PROVE k + 1 \in S
    BY <1>6
  <2>3. S = Nat
    <3> HIDE DEF S
    <3> QED BY <2>1, <2>2, Induction
  <2>4. QED
    BY <2>3
<1>8. QED
  BY <1>6, <1>7

\* The lowest bit, and the others as those of the half.
LEMMA BitFacts ==
    ASSUME NEW v \in Nat
    PROVE  /\ Bit(v, 0) = v % 2 /\ v \div 2 \in Nat
           /\ \A k \in Nat : Bit(v, k) \in {0, 1} /\ Bit(v, k + 1) = Bit(v \div 2, k)
<1>1. v \div 1 = v /\ v \div 2 \in Nat
  OBVIOUS
<1>2. Bit(v, 0) = v % 2
  BY <1>1, Pow2Facts DEF Bit
<1>3. ASSUME NEW k \in Nat PROVE Bit(v, k) \in {0, 1}
  <2>1. Pow2[k] \in Nat \ {0}
    BY Pow2Facts
  <2>2. v \div Pow2[k] \in Nat
    BY <2>1, DivModBack
  <2>3. QED
    BY <2>2 DEF Bit
<1>4. ASSUME NEW k \in Nat PROVE Bit(v, k + 1) = Bit(v \div 2, k)
  <2> DEFINE p == Pow2[k]
  <2>1. p \in Nat \ {0} /\ Pow2[k + 1] = 2 * p
    BY Pow2Facts
  <2> HIDE DEF p
  <2>2. v \div (2 * p) = (v \div 2) \div p
    <3>1. v = 2 * (v \div 2) + (v % 2) /\ v % 2 \in {0, 1}
      OBVIOUS
    <3>2. ASSUME NEW x \in Nat, NEW y \in {0, 1} PROVE (2 * x + y) \div (2 * p) = x \div p
      BY <2>1
    <3>3. QED
      BY <1>1, <3>1, <3>2
  <2>3. QED
    BY <2>1, <2>2 DEF Bit, p
<1>5. QED
  BY <1>1, <1>2, <1>3, <1>4

\* Twice a number, and one more or not: its bits are moved.
LEMMA BitsOfDouble ==
    ASSUME NEW v \in Nat, NEW x \in {0, 1}
    PROVE  Bit(2 * v + x, 0) = x /\ \A k \in Nat : Bit(2 * v + x, k + 1) = Bit(v, k)
<1>1. 2 * v + x \in Nat /\ (2 * v + x) % 2 = x /\ (2 * v + x) \div 2 = v
  OBVIOUS
<1>2. QED
  BY <1>1, BitFacts

\* There is a number with the bits, however many they are.
LEMMA NumberExists ==
    \A count \in Nat : \A bits \in [0..(count - 1) -> {0, 1}] :
      \E v \in 0..(Pow2[count] - 1) : \A k \in 0..(count - 1) : Bit(v, k) = bits[k]
<1> DEFINE S == {count \in Nat : \A bits \in [0..(count - 1) -> {0, 1}] :
                   \E v \in 0..(Pow2[count] - 1) : \A k \in 0..(count - 1) : Bit(v, k) = bits[k]}
<1>1. 0 \in S
  <2>1. 0 \in 0..(Pow2[0] - 1) /\ \A k \in 0..(0 - 1) : FALSE
    BY Pow2Facts
  <2>2. QED
    BY <2>1
<1>2. ASSUME NEW c \in S PROVE c + 1 \in S
  <2>1. c \in Nat /\ (c + 1) - 1 = c
    OBVIOUS
  <2> SUFFICES ASSUME NEW bits \in [0..c -> {0, 1}]
               PROVE  \E v \in 0..(Pow2[c + 1] - 1) : \A k \in 0..c : Bit(v, k) = bits[k]
    BY <2>1
  <2> DEFINE rest == [k \in 0..(c - 1) |-> bits[k + 1]]
  <2>2. bits[0] \in {0, 1} /\ rest \in [0..(c - 1) -> {0, 1}]
    BY <2>1
  <2>3. PICK v \in 0..(Pow2[c] - 1) : \A k \in 0..(c - 1) : Bit(v, k) = rest[k]
    <3> HIDE DEF rest
    <3> QED BY <2>2
  <2> HIDE DEF S
  <2> DEFINE w == 2 * v + bits[0]
  <2>4. v \in Nat /\ w \in 0..(Pow2[c + 1] - 1)
    <3>1. Pow2[c] \in Nat \ {0} /\ Pow2[c + 1] = 2 * Pow2[c]
      BY <2>1, Pow2Facts
    <3>2. QED
      BY <2>2, <3>1
  <2>5. Bit(w, 0) = bits[0] /\ \A k \in Nat : Bit(w, k + 1) = Bit(v, k)
    BY <2>2, <2>4, BitsOfDouble
  <2> HIDE DEF w
  <2>6. ASSUME NEW k \in 0..c PROVE Bit(w, k) = bits[k]
    <3>1. CASE k = 0
      BY <2>5, <3>1
    <3>2. CASE k # 0
      <4>1. k - 1 \in 0..(c - 1) /\ k - 1 \in Nat /\ (k - 1) + 1 = k
        BY <2>1, <3>2
      <4>2. QED
        BY <2>3, <2>5, <4>1
    <3>3. QED
      BY <3>1, <3>2
  <2>7. QED
    BY <2>4, <2>6
<1>3. S = Nat
  <2>1. S \in SUBSET Nat
    OBVIOUS
  <2> HIDE DEF S
  <2> QED BY <1>1, <1>2, <2>1, Induction
<1>4. QED
  BY <1>3

\* And only one.
LEMMA NumberUnique ==
    \A count \in Nat : \A u, v \in 0..(Pow2[count] - 1) :
      (\A k \in 0..(count - 1) : Bit(u, k) = Bit(v, k)) => u = v
<1> DEFINE S == {count \in Nat : \A u, v \in 0..(Pow2[count] - 1) :
                   (\A k \in 0..(count - 1) : Bit(u, k) = Bit(v, k)) => u = v}
<1>1. 0 \in S
  BY Pow2Facts
<1>2. ASSUME NEW c \in S PROVE c + 1 \in S
  <2>1. c \in Nat /\ (c + 1) - 1 = c /\ Pow2[c] \in Nat \ {0} /\ Pow2[c + 1] = 2 * Pow2[c]
    BY Pow2Facts
  <2> SUFFICES ASSUME NEW u \in 0..(Pow2[c + 1] - 1), NEW v \in 0..(Pow2[c + 1] - 1),
                      \A k \in 0..c : Bit(u, k) = Bit(v, k)
               PROVE  u = v
    BY <2>1
  <2>2. \A x, y \in 0..(Pow2[c] - 1) : (\A k \in 0..(c - 1) : Bit(x, k) = Bit(y, k)) => x = y
    OBVIOUS
  <2> HIDE DEF S
  <2>3. u \in Nat /\ v \in Nat
    BY <2>1
  <2>4. u \div 2 \in 0..(Pow2[c] - 1) /\ v \div 2 \in 0..(Pow2[c] - 1)
    BY <2>1, <2>3
  <2>5. ASSUME NEW k \in 0..(c - 1) PROVE Bit(u \div 2, k) = Bit(v \div 2, k)
    <3>1. k \in Nat /\ k + 1 \in 0..c
      BY <2>1
    <3>2. QED
      BY <2>3, <3>1, BitFacts
  <2>6. u \div 2 = v \div 2
    BY <2>2, <2>4, <2>5
  <2>7. u % 2 = v % 2
    <3>1. 0 \in 0..c
      BY <2>1
    <3>2. QED
      BY <2>3, <3>1, BitFacts
  <2>8. u = 2 * (u \div 2) + (u % 2) /\ v = 2 * (v \div 2) + (v % 2)
    BY <2>3
  <2>9. QED
    BY <2>6, <2>7, <2>8
<1>3. S = Nat
  <2>1. S \in SUBSET Nat
    OBVIOUS
  <2> HIDE DEF S
  <2> QED BY <1>1, <1>2, <2>1, Induction
<1>4. QED
  BY <1>3

\* Number is the number with the bits.
LEMMA NumberFacts ==
    ASSUME NEW count \in Nat, NEW bits \in [0..(count - 1) -> {0, 1}]
    PROVE  /\ Number(count, bits) \in 0..(Pow2[count] - 1)
           /\ \A k \in 0..(count - 1) : Bit(Number(count, bits), k) = bits[k]
           /\ \A v \in 0..(Pow2[count] - 1) :
                (\A k \in 0..(count - 1) : Bit(v, k) = bits[k]) => v = Number(count, bits)
<1>1. \E v \in 0..(Pow2[count] - 1) : \A k \in 0..(count - 1) : Bit(v, k) = bits[k]
  BY NumberExists
<1>2. /\ Number(count, bits) \in 0..(Pow2[count] - 1)
      /\ \A k \in 0..(count - 1) : Bit(Number(count, bits), k) = bits[k]
  BY <1>1 DEF Number
<1>3. ASSUME NEW v \in 0..(Pow2[count] - 1), \A k \in 0..(count - 1) : Bit(v, k) = bits[k]
      PROVE  v = Number(count, bits)
  BY <1>2, <1>3, NumberUnique
<1>4. QED
  BY <1>2, <1>3

\* Without its remainder a number has no low bits, and the same high ones.
LEMMA TrimmedBits ==
    \A count \in Nat : \A v \in Nat :
      /\ v - (v % Pow2[count]) \in 0..v
      /\ \A k \in Nat : Bit(v - (v % Pow2[count]), k) = IF k < count THEN 0 ELSE Bit(v, k)
<1> DEFINE S == {count \in Nat : \A v \in Nat :
                   /\ v - (v % Pow2[count]) \in 0..v
                   /\ \A k \in Nat : Bit(v - (v % Pow2[count]), k) = IF k < count THEN 0 ELSE Bit(v, k)}
<1>1. 0 \in S
  <2> SUFFICES ASSUME NEW v \in Nat
               PROVE  /\ v - (v % Pow2[0]) \in 0..v
                      /\ \A k \in Nat : Bit(v - (v % Pow2[0]), k) = IF k < 0 THEN 0 ELSE Bit(v, k)
    OBVIOUS
  <2>1. v % Pow2[0] = 0 /\ v - 0 = v
    BY Pow2Facts
  <2>2. QED
    BY <2>1
<1>2. ASSUME NEW c \in S PROVE c + 1 \in S
  <2> SUFFICES ASSUME NEW v \in Nat
               PROVE  /\ v - (v % Pow2[c + 1]) \in 0..v
                      /\ \A k \in Nat : Bit(v - (v % Pow2[c + 1]), k) = IF k < c + 1 THEN 0 ELSE Bit(v, k)
    OBVIOUS
  <2> DEFINE p == Pow2[c]
             h == v \div 2
             x == v % 2
             t == h - (h % p)
  <2>1. c \in Nat /\ p \in Nat \ {0} /\ Pow2[c + 1] = 2 * p
    BY Pow2Facts
  <2>2. h \in Nat /\ x \in {0, 1} /\ v = 2 * h + x
    OBVIOUS
  <2>3. t \in 0..h /\ \A k \in Nat : Bit(t, k) = IF k < c THEN 0 ELSE Bit(h, k)
    BY <2>2
  <2> HIDE DEF S, p, h, x
  <2>4. v % (2 * p) = 2 * (h % p) + x
    <3>1. h \div p \in Nat /\ h % p \in 0..(p - 1) /\ h = (h \div p) * p + (h % p)
      BY <2>1, <2>2, DivModBack
    <3> DEFINE q == h \div p
               r == h % p
    <3> HIDE DEF q, r
    <3>2. q \in Nat /\ r \in 0..(p - 1) /\ h = q * p + r
      BY <3>1 DEF q, r
    <3>3. v = q * (2 * p) + (2 * r + x) /\ 2 * r + x \in 0..(2 * p - 1) /\ 2 * p \in Nat \ {0}
      BY <2>1, <2>2, <3>2
    <3>4. QED
      BY <3>2, <3>3, DivMod DEF r
  <2>5. h % p \in Nat
    BY <2>1, <2>2, ModFacts
  <2>6. v - (v % Pow2[c + 1]) = 2 * t + 0
    BY <2>1, <2>2, <2>4, <2>5
  <2> HIDE DEF t
  <2>7. 2 * t + 0 \in 0..v /\ t \in Nat
    BY <2>2, <2>3
  <2>8. Bit(2 * t + 0, 0) = 0 /\ \A k \in Nat : Bit(2 * t + 0, k + 1) = Bit(t, k)
    BY <2>7, BitsOfDouble
  <2>9. \A k \in Nat : Bit(v, k + 1) = Bit(h, k)
    BY <2>2, BitsOfDouble
  <2>10. ASSUME NEW k \in Nat PROVE Bit(2 * t + 0, k) = IF k < c + 1 THEN 0 ELSE Bit(v, k)
    <3>1. CASE k = 0
      BY <2>1, <2>8, <3>1
    <3>2. CASE k # 0
      <4> DEFINE j == k - 1
      <4>1. j \in Nat /\ j + 1 = k /\ (j < c <=> k < c + 1)
        BY <2>1, <3>2
      <4> HIDE DEF j
      <4>2. QED
        BY <2>3, <2>8, <2>9, <4>1
    <3>3. QED
      BY <3>1, <3>2
  <2>11. QED
    BY <2>6, <2>7, <2>10
<1>3. S = Nat
  <2>1. S \in SUBSET Nat
    OBVIOUS
  <2> HIDE DEF S
  <2> QED BY <1>1, <1>2, <2>1, Induction
<1>4. QED
  BY <1>3

-----------------------------------------------------------------------------
(* Sentences.                                                               *)

\* The places of the bits of a reference and of a sentence are the same.
LEMMA SentenceFacts ==
    /\ REF_BYTES \in Nat \ {0} /\ WORDS_PER_REF \in Nat \ {0} /\ WORDS_PER_REF - 1 \in Nat
    /\ BITS_PER_WORD \in Nat \ {0} /\ BYTE_BITS \in Nat \ {0} /\ BYTE_BITS <= BITS_PER_WORD
    /\ WORDS_PER_REF * BITS_PER_WORD \in Nat
    /\ WORDS_PER_REF * BITS_PER_WORD = (REF_BYTES + 1) * BYTE_BITS
    /\ Pow2[BITS_PER_WORD] \in Nat \ {0} /\ Pow2[BYTE_BITS] \in Nat \ {0}
<1>1. /\ REF_BYTES \in Nat \ {0} /\ WORDS_PER_REF \in Nat \ {0} /\ WORDS_PER_REF - 1 \in Nat
      /\ BITS_PER_WORD \in Nat \ {0} /\ BYTE_BITS \in Nat \ {0} /\ BYTE_BITS <= BITS_PER_WORD
      /\ WORDS_PER_REF * BITS_PER_WORD = (REF_BYTES + 1) * BYTE_BITS
  BY SentenceAssumption
<1>2. QED
  BY <1>1, Pow2Facts

\* The place of bit k, counted from the lowest, of the q-th piece of d bits.
LEMMA PlaceOf ==
    ASSUME NEW d \in Nat \ {0}, NEW q \in Nat, NEW k \in 0..(d - 1)
    PROVE  /\ q * d + d - 1 - k \in Nat
           /\ (q * d + d - 1 - k) \div d = q
           /\ (d - 1) - ((q * d + d - 1 - k) % d) = k
<1> DEFINE r == d - 1 - k
           place == q * d + d - 1 - k
<1>1. r \in 0..(d - 1) /\ q * d \in Nat /\ place = q * d + r /\ place \in Nat /\ (d - 1) - r = k
  OBVIOUS
<1> HIDE DEF r, place
<1>2. place \div d = q /\ place % d = r
  BY <1>1, DivMod
<1>3. place \in Nat /\ place \div d = q /\ (d - 1) - (place % d) = k
  BY <1>1, <1>2
<1>4. QED
  BY <1>3 DEF place

\* And the piece and the bit of a place.
LEMMA PlaceBack ==
    ASSUME NEW d \in Nat \ {0}, NEW p \in Nat
    PROVE  /\ p \div d \in Nat /\ (d - 1) - (p % d) \in 0..(d - 1)
           /\ (p \div d) * d + d - 1 - ((d - 1) - (p % d)) = p
<1> DEFINE x == (p \div d) * d
           r == p % d
<1>1. p \div d \in Nat /\ r \in 0..(d - 1) /\ p = x + r
  BY DivModBack
<1>2. x \in Nat
  BY <1>1
<1> HIDE DEF x, r
<1>3. (d - 1) - r \in 0..(d - 1) /\ x + d - 1 - ((d - 1) - r) = p
  BY <1>1, <1>2
<1>4. QED
  BY <1>1, <1>3 DEF x, r

\* The bit of a sentence at a place.
WordBit(index, place) == Bit(index[place \div BITS_PER_WORD], (BITS_PER_WORD - 1) - (place % BITS_PER_WORD))

Bytes == [0..REF_BYTES -> 0..(Pow2[BYTE_BITS] - 1)]
PlaceIn(b, k) == b * BYTE_BITS + BYTE_BITS - 1 - k

\* set_bits sets the bits of a word and leaves the others alone.
LEMMA SetBitsFacts ==
    ASSUME NEW bytes \in Bytes, NEW w \in Nat, NEW value \in Nat
    PROVE  LET new == set_bits(bytes, w * BITS_PER_WORD, BITS_PER_WORD, value)
               first == w * BITS_PER_WORD
               last == w * BITS_PER_WORD + BITS_PER_WORD - 1
           IN /\ new \in Bytes
              /\ \A b \in 0..REF_BYTES, k \in 0..(BYTE_BITS - 1) :
                   Bit(new[b], k) = IF PlaceIn(b, k) \in first..last THEN Bit(value, last - PlaceIn(b, k))
                                    ELSE Bit(bytes[b], k)
<1> DEFINE B == BITS_PER_WORD
           first == w * B
           last == w * B + B - 1
           new == set_bits(bytes, first, B, value)
           bit(b, k) == IF PlaceIn(b, k) \in first..last THEN Bit(value, last - PlaceIn(b, k)) ELSE Bit(bytes[b], k)
           bits(b) == [k \in 0..(BYTE_BITS - 1) |->
                         LET place == b * BYTE_BITS + BYTE_BITS - 1 - k IN
                         IF place \in first..(first + B - 1) THEN Bit(value, first + B - 1 - place)
                         ELSE Bit(bytes[b], k)]
<1>1. /\ B \in Nat \ {0} /\ BYTE_BITS \in Nat \ {0} /\ first \in Nat /\ last \in Nat
  BY SentenceFacts
<1>2. DOMAIN bytes = 0..REF_BYTES
  BY DEF Bytes
<1>3. ASSUME NEW b \in 0..REF_BYTES PROVE new[b] = Number(BYTE_BITS, bits(b))
  BY <1>2 DEF set_bits
<1>4. ASSUME NEW b \in 0..REF_BYTES, NEW k \in 0..(BYTE_BITS - 1) PROVE bit(b, k) \in {0, 1}
  <2>1. b \in Nat /\ k \in Nat /\ BYTE_BITS - 1 - k \in Nat
    BY <1>1, SentenceFacts
  <2>2. PlaceIn(b, k) \in Nat
    BY <1>1, <2>1, PlaceOf DEF PlaceIn
  <2>3. bytes[b] \in Nat
    BY SentenceFacts DEF Bytes
  <2>4. CASE PlaceIn(b, k) \in first..last
    <3>1. last - PlaceIn(b, k) \in Nat
      BY <1>1, <2>2, <2>4
    <3>2. QED
      BY <2>4, <3>1, BitFacts
  <2>5. CASE PlaceIn(b, k) \notin first..last
    BY <2>1, <2>3, <2>5, BitFacts
  <2>6. QED
    BY <2>4, <2>5
<1>5. ASSUME NEW b \in 0..REF_BYTES
      PROVE  /\ bits(b) \in [0..(BYTE_BITS - 1) -> {0, 1}]
             /\ \A k \in 0..(BYTE_BITS - 1) : bits(b)[k] = bit(b, k)
  <2>1. ASSUME NEW k \in 0..(BYTE_BITS - 1) PROVE bits(b)[k] = bit(b, k)
    <3> DEFINE place == b * BYTE_BITS + BYTE_BITS - 1 - k
    <3>1. PlaceIn(b, k) = place
      BY DEF PlaceIn
    <3>2. bits(b)[k] = IF place \in first..(first + B - 1) THEN Bit(value, first + B - 1 - place)
                       ELSE Bit(bytes[b], k)
      BY Zenon
    <3>3. place \in Nat
      <4>1. b \in Nat /\ BYTE_BITS \in Nat \ {0}
        BY SentenceFacts
      <4>2. QED
        BY <4>1, PlaceOf
    <3>4. first + B - 1 - place = last - place /\ first + B - 1 = last
      <4> HIDE DEF place
      <4> QED BY <1>1, <3>3
    <3>5. QED
      <4> HIDE DEF place, bits, first, last
      <4> QED BY <3>1, <3>2, <3>4
  <2>2. bits(b) = [k \in 0..(BYTE_BITS - 1) |-> bits(b)[k]]
    OBVIOUS
  <2> HIDE DEF bit, bits
  <2>3. QED
    BY <1>4, <2>1, <2>2
<1>6. ASSUME NEW b \in 0..REF_BYTES
      PROVE  /\ new[b] \in 0..(Pow2[BYTE_BITS] - 1)
             /\ \A k \in 0..(BYTE_BITS - 1) : Bit(new[b], k) = bit(b, k)
  <2>1. /\ Number(BYTE_BITS, bits(b)) \in 0..(Pow2[BYTE_BITS] - 1)
        /\ \A k \in 0..(BYTE_BITS - 1) : Bit(Number(BYTE_BITS, bits(b)), k) = bits(b)[k]
    <3>1. bits(b) \in [0..(BYTE_BITS - 1) -> {0, 1}] /\ BYTE_BITS \in Nat
      BY <1>1, <1>5
    <3> HIDE DEF bits
    <3> QED BY <3>1, NumberFacts
  <2>2. \A k \in 0..(BYTE_BITS - 1) : bits(b)[k] = bit(b, k)
    BY <1>5
  <2> HIDE DEF bit, bits, new
  <2>3. QED
    BY <1>3, <2>1, <2>2
<1>7. new \in Bytes
  <2>1. new = [b \in 0..REF_BYTES |-> new[b]]
    BY <1>2 DEF set_bits
  <2> HIDE DEF new
  <2>2. QED
    BY <1>6, <2>1 DEF Bytes
<1>8. QED
  BY <1>6, <1>7

\* The loop of decode_ref over the words.
Padded(f, index) ==
    /\ f \in [0..WORDS_PER_REF -> Bytes]
    /\ f[0] = [b \in 0..REF_BYTES |-> 0]
    /\ \A w \in Positions : f[w + 1] = set_bits(f[w], w * BITS_PER_WORD, BITS_PER_WORD, index[w])

\* Every sentence, by the indices of its words.
Indices == [Positions -> 0..(Pow2[BITS_PER_WORD] - 1)]
SentenceOf(index) == [w \in Positions |-> wordlists[w % 4][index[w]]]

\* The words of a sentence are in their lists, each at one index.
LEMMA IndexFacts ==
    ASSUME NEW index \in Indices
    PROVE  /\ validate_sentence(SentenceOf(index))
           /\ \A w \in Positions : Index(SentenceOf(index), w) = index[w]
<1> DEFINE words == SentenceOf(index)
<1>1. ASSUME NEW w \in Positions
      PROVE  words[w] \in Range(wordlists[w % 4]) /\ Index(words, w) = index[w]
  <2> DEFINE list == wordlists[w % 4]
             S == {k \in DOMAIN list : list[k] = words[w]}
  <2>1. w % 4 \in 0..3
    BY SentenceFacts DEF Positions
  <2>2. DOMAIN list = 0..(Pow2[BITS_PER_WORD] - 1) /\ IsInjective(list)
    BY <2>1, SentenceAssumption
  <2>3. index[w] \in DOMAIN list /\ words[w] = list[index[w]]
    BY <2>2 DEF Indices, SentenceOf
  <2>4. words[w] \in Range(list)
    BY <2>3 DEF Range
  <2>5. S = {index[w]}
    BY <2>2, <2>3 DEF IsInjective
  <2>6. index[w] \in Nat
    BY SentenceFacts DEF Indices
  <2>7. Max(S) = index[w]
    <3> HIDE DEF S
    <3>1. index[w] >= index[w]
      BY <2>6
    <3>2. QED
      BY <2>5, <3>1 DEF Max
  <2>8. Index(words, w) = Max(S)
    <3> HIDE DEF words
    <3>1. build_reverse_lookup(list)[words[w]] = Max(S)
      BY <2>4 DEF build_reverse_lookup
    <3>2. QED
      BY <3>1 DEF Index
  <2>9. QED
    BY <2>4, <2>7, <2>8
<1>2. DOMAIN words = Positions
  BY DEF SentenceOf
<1>3. validate_sentence(words)
  BY <1>1, <1>2 DEF validate_sentence
<1>4. QED
  BY <1>1, <1>3

\* decode_ref goes through the words of a sentence, and leaves out the last byte.
LEMMA DecodeFacts ==
    ASSUME NEW index \in Indices
    PROVE  \E f : /\ Padded(f, index)
                  /\ decode_ref(SentenceOf(index)) = [b \in 0..(REF_BYTES - 1) |-> f[WORDS_PER_REF][b]]
<1> DEFINE words == SentenceOf(index)
           W == WORDS_PER_REF
           B == BITS_PER_WORD
           D == 0..W
           zero == [b \in 0..REF_BYTES |-> 0]
           step == [w \in Nat |-> [x \in Bytes |-> IF w < W THEN set_bits(x, w * B, B, index[w]) ELSE x]]
           Good(f) == f = [w \in D |-> IF w = 0 THEN zero
                                       ELSE set_bits(f[w - 1], (w - 1) * B, B, Index(words, w - 1))]
<1>1. W \in Nat \ {0} /\ \A w \in Nat : w < W <=> w \in Positions
  BY SentenceFacts DEF Positions
<1>2. zero \in Bytes
  BY SentenceFacts DEF Bytes
<1>3. step \in [Nat -> [Bytes -> Bytes]]
  <2> SUFFICES ASSUME NEW w \in Nat, NEW x \in Bytes, w < W
               PROVE  set_bits(x, w * B, B, index[w]) \in Bytes
    BY Zenon
  <2>1. index[w] \in Nat
    BY <1>1, SentenceFacts DEF Indices
  <2>2. QED
    BY <2>1, SetBitsFacts
<1>4. PICK h : Follows(h, Bytes, zero, step)
  <2> HIDE DEF zero, step
  <2> QED BY <1>2, <1>3, Recursion
<1> HIDE DEF zero
<1>5. h \in [Nat -> Bytes] /\ h[0] = zero /\ \A w \in Nat : h[w + 1] = step[w][h[w]]
  BY <1>4 DEF Follows
<1>6. ASSUME NEW w \in Positions
      PROVE  h[w + 1] = set_bits(h[w], w * B, B, index[w]) /\ Index(words, w) = index[w] /\ w \in Nat /\ w + 1 \in D /\ w \in D
  <2>1. w \in Nat /\ w < W /\ w + 1 \in D /\ w \in D
    BY <1>1, SentenceFacts DEF Positions
  <2>2. h[w] \in Bytes
    BY <1>5, <2>1
  <2>3. step[w][h[w]] = set_bits(h[w], w * B, B, index[w])
    BY <2>1, <2>2
  <2>4. h[w + 1] = step[w][h[w]]
    <3> HIDE DEF step
    <3> QED BY <1>5, <2>1
  <2>5. Index(words, w) = index[w]
    BY IndexFacts
  <2>6. QED
    BY <2>1, <2>3, <2>4, <2>5
<1> DEFINE g == [w \in D |-> h[w]]
<1>7. Good(g)
  <2>1. ASSUME NEW w \in D, w # 0
        PROVE  g[w] = set_bits(g[w - 1], (w - 1) * B, B, Index(words, w - 1))
    <3> DEFINE v == w - 1
    <3>1. v \in Positions /\ v \in D /\ v + 1 = w
      BY <1>1, <2>1, SentenceFacts DEF Positions
    <3>2. g[v] = h[v] /\ g[w] = h[w]
      BY <3>1
    <3> HIDE DEF v, g
    <3>3. g[w] = set_bits(g[v], v * B, B, Index(words, v))
      BY <1>6, <3>1, <3>2
    <3>4. QED
      BY <3>3 DEF v
  <2>2. g[0] = zero
    BY <1>1, <1>5
  <2>3. g = [w \in D |-> g[w]]
    OBVIOUS
  <2> HIDE DEF g, D
  <2>4. QED
    BY <2>1, <2>2, <2>3
<1> DEFINE own == CHOOSE f : Good(f)
<1>8. Good(own)
  <2> HIDE DEF Good, g
  <2> QED BY <1>7
<1>9. \A w \in D : own[w] = IF w = 0 THEN zero ELSE set_bits(own[w - 1], (w - 1) * B, B, Index(words, w - 1))
  <2> HIDE DEF own, D
  <2> QED BY <1>8, Zenon
<1>10. decode_ref(words) = [b \in 0..(REF_BYTES - 1) |-> own[W][b]]
  <2>1. validate_sentence(words)
    BY IndexFacts
  <2> HIDE DEF words
  <2>2. QED
    BY <2>1 DEF decode_ref, zero
<1>11. own = [w \in D |-> own[w]]
  <2> HIDE DEF own, D
  <2>1. DOMAIN own = D
    BY <1>8, Zenon
  <2>2. own = [w \in DOMAIN own |-> own[w]]
    <3>1. own = [w \in D |-> IF w = 0 THEN zero ELSE set_bits(own[w - 1], (w - 1) * B, B, Index(words, w - 1))]
      BY <1>8
    <3>2. QED
      BY <1>9, <2>1, <3>1
  <2>3. QED
    BY <2>1, <2>2
<1> HIDE DEF own
<1>12. own[0] = zero /\ \A w \in Positions : own[w + 1] = set_bits(own[w], w * B, B, index[w])
  <2>1. own[0] = zero
    BY <1>1, <1>9
  <2>2. ASSUME NEW w \in Positions PROVE own[w + 1] = set_bits(own[w], w * B, B, index[w])
    <3>1. w + 1 \in D /\ w + 1 # 0 /\ (w + 1) - 1 = w /\ Index(words, w) = index[w]
      BY <1>6
    <3>2. own[w + 1] = set_bits(own[(w + 1) - 1], ((w + 1) - 1) * B, B, Index(words, (w + 1) - 1))
      <4> HIDE DEF D
      <4> QED BY <1>9, <3>1
    <3>3. QED
      BY <3>1, <3>2
  <2>3. QED
    BY <2>1, <2>2
<1>13. \A w \in D : own[w] \in Bytes
  <2> DEFINE S == {w \in Nat : w \in D => own[w] \in Bytes}
  <2>1. 0 \in S
    BY <1>2, <1>12
  <2>2. ASSUME NEW w \in S PROVE w + 1 \in S
    <3>1. w \in Nat
      OBVIOUS
    <3> SUFFICES ASSUME w + 1 \in D PROVE own[w + 1] \in Bytes
      BY <3>1
    <3>2. w \in Positions /\ w \in D
      <4> HIDE DEF S
      <4> QED BY <1>1, <3>1, SentenceFacts
    <3>3. own[w] \in Bytes
      BY <3>2
    <3>4. index[w] \in Nat
      BY <3>2, SentenceFacts DEF Indices
    <3>5. set_bits(own[w], w * B, B, index[w]) \in Bytes
      BY <3>1, <3>3, <3>4, SetBitsFacts
    <3>6. QED
      BY <1>12, <3>2, <3>5
  <2>3. S = Nat
    <3>1. S \in SUBSET Nat
      OBVIOUS
    <3> HIDE DEF S
    <3> QED BY <2>1, <2>2, <3>1, Induction
  <2>4. QED
    BY <1>1, <2>3
<1>14. own \in [0..WORDS_PER_REF -> Bytes]
  BY <1>11, <1>13
<1>15. Padded(own, index)
  BY <1>12, <1>14 DEF Padded, zero
<1>16. QED
  BY <1>10, <1>15

\* The bits of 0.
LEMMA ZeroBits == \A k \in Nat : Bit(0, k) = 0
<1> SUFFICES ASSUME NEW k \in Nat PROVE Bit(0, k) = 0
  OBVIOUS
<1>1. Pow2[k] \in Nat \ {0}
  BY Pow2Facts
<1>2. 0 \div Pow2[k] = 0 /\ 0 % 2 = 0
  BY <1>1
<1>3. QED
  BY <1>2 DEF Bit

\* The word that a place is in, and the bit of it.
LEMMA PlaceInWord ==
    ASSUME NEW d \in Nat \ {0}, NEW w \in Nat, NEW p \in Nat
    PROVE  /\ w * d \in Nat /\ (w + 1) * d = w * d + d
           /\ p \in (w * d)..(w * d + d - 1) =>
                p \div d = w /\ (d - 1) - (p % d) = (w * d + d - 1) - p
<1> DEFINE x == w * d
<1>1. x \in Nat /\ (w + 1) * d = x + d
  OBVIOUS
<1>2. ASSUME p \in x..(x + d - 1)
      PROVE  p \div d = w /\ (d - 1) - (p % d) = (x + d - 1) - p
  <2> DEFINE r == p - x
  <2>1. r \in 0..(d - 1) /\ p = x + r /\ (d - 1) - r = (x + d - 1) - p
    <3> HIDE DEF x
    <3> QED BY <1>1, <1>2
  <2> HIDE DEF r
  <2>2. (x + r) \div d = w /\ (x + r) % d = r
    BY <2>1, DivMod
  <2>3. QED
    <3> HIDE DEF x
    <3> QED BY <2>1, <2>2
<1>3. QED
  BY <1>1, <1>2

\* After w words the bits of those words are in their places, and no other is set.
LEMMA PaddedBits ==
    ASSUME NEW index \in Indices, NEW f, Padded(f, index)
    PROVE  \A w \in 0..WORDS_PER_REF, b \in 0..REF_BYTES, k \in 0..(BYTE_BITS - 1) :
             Bit(f[w][b], k) = IF PlaceIn(b, k) < w * BITS_PER_WORD THEN WordBit(index, PlaceIn(b, k)) ELSE 0
<1> DEFINE W == WORDS_PER_REF
           B == BITS_PER_WORD
           K == 0..(BYTE_BITS - 1)
           Right(w) == \A b \in 0..REF_BYTES, k \in K :
             Bit(f[w][b], k) = IF PlaceIn(b, k) < w * B THEN WordBit(index, PlaceIn(b, k)) ELSE 0
           S == {w \in Nat : w \in 0..W => Right(w)}
<1>1. ASSUME NEW b \in 0..REF_BYTES, NEW k \in K PROVE PlaceIn(b, k) \in Nat /\ k \in Nat /\ b \in Nat
  <2>1. b \in Nat /\ k \in Nat /\ BYTE_BITS \in Nat \ {0}
    BY SentenceFacts
  <2>2. QED
    BY <2>1, PlaceOf DEF PlaceIn
<1>2. Right(0)
  <2> SUFFICES ASSUME NEW b \in 0..REF_BYTES, NEW k \in K
               PROVE  Bit(f[0][b], k) = IF PlaceIn(b, k) < 0 * B THEN WordBit(index, PlaceIn(b, k)) ELSE 0
    BY Zenon
  <2>1. f[0][b] = 0
    BY DEF Padded
  <2>2. 0 * B = 0 /\ ~(PlaceIn(b, k) < 0 * B)
    BY <1>1, SentenceFacts
  <2>3. QED
    BY <1>1, <2>1, <2>2, ZeroBits
<1>3. ASSUME NEW w \in Positions, Right(w) PROVE Right(w + 1)
  <2>1. w \in Nat /\ w \in 0..W /\ B \in Nat \ {0}
    BY SentenceFacts DEF Positions
  <2>2. f[w] \in Bytes /\ index[w] \in Nat /\ f[w + 1] = set_bits(f[w], w * B, B, index[w])
    BY <2>1, SentenceFacts DEF Padded, Indices
  <2> SUFFICES ASSUME NEW b \in 0..REF_BYTES, NEW k \in K
               PROVE  Bit(f[w + 1][b], k) =
                        IF PlaceIn(b, k) < (w + 1) * B THEN WordBit(index, PlaceIn(b, k)) ELSE 0
    BY Zenon
  <2> DEFINE p == PlaceIn(b, k)
             first == w * B
             last == w * B + B - 1
  <2>3. p \in Nat
    BY <1>1
  <2>4. Bit(f[w + 1][b], k) = IF p \in first..last THEN Bit(index[w], last - p) ELSE Bit(f[w][b], k)
    BY <2>1, <2>2, SetBitsFacts
  <2>5. Bit(f[w][b], k) = IF p < first THEN WordBit(index, p) ELSE 0
    BY <1>3
  <2> HIDE DEF p
  <2>6. /\ first \in Nat /\ (w + 1) * B = first + B
        /\ p \in first..last => p \div B = w /\ (B - 1) - (p % B) = last - p
    BY <2>1, <2>3, PlaceInWord
  <2> HIDE DEF first
  <2>7. last = first + B - 1
    BY DEF first
  <2> HIDE DEF last
  <2>8. CASE p \in first..last
    <3>1. p < (w + 1) * B
      BY <2>1, <2>3, <2>6, <2>7, <2>8
    <3>2. WordBit(index, p) = Bit(index[w], last - p)
      BY <2>6, <2>8 DEF WordBit
    <3>3. QED
      BY <2>4, <2>8, <3>1, <3>2 DEF p
  <2>9. CASE p \notin first..last
    <3>1. p < (w + 1) * B <=> p < first
      BY <2>1, <2>3, <2>6, <2>7, <2>9
    <3>2. QED
      BY <2>4, <2>5, <2>9, <3>1 DEF p
  <2>10. QED
    BY <2>8, <2>9
<1>4. 0 \in S
  <2> HIDE DEF Right
  <2> QED BY <1>2
<1>5. ASSUME NEW w \in S PROVE w + 1 \in S
  <2> HIDE DEF Right
  <2>1. w \in Nat /\ (w \in 0..W => Right(w))
    OBVIOUS
  <2>2. w + 1 \in 0..W => w \in Positions /\ w \in 0..W
    BY <2>1, SentenceFacts DEF Positions
  <2>3. QED
    BY <1>3, <2>1, <2>2
<1>6. S = Nat
  <2>1. S \in SUBSET Nat
    OBVIOUS
  <2> HIDE DEF S
  <2> QED BY <1>4, <1>5, <2>1, Induction
<1>7. \A w \in 0..W : Right(w)
  <2> HIDE DEF Right
  <2> QED BY <1>6, SentenceFacts
<1>8. QED
  BY <1>7

\* The bits of what decode_ref gave, with a zero byte behind it.
LEMMA DecodedBits ==
    ASSUME NEW index \in Indices, NEW f, Padded(f, index), NEW place \in Nat,
           place < WORDS_PER_REF * BITS_PER_WORD
    PROVE  LET padded == [b \in 0..REF_BYTES |-> IF b < REF_BYTES THEN f[WORDS_PER_REF][b] ELSE 0] IN
           BitAt(padded, place) = IF place < REF_BYTES * BYTE_BITS THEN WordBit(index, place) ELSE 0
<1> DEFINE W == WORDS_PER_REF
           Y == BYTE_BITS
           R == REF_BYTES
           padded == [b \in 0..R |-> IF b < R THEN f[W][b] ELSE 0]
           b == place \div Y
           k == (Y - 1) - (place % Y)
<1>1. Y \in Nat \ {0} /\ R \in Nat \ {0} /\ W \in 0..W
  BY SentenceFacts
<1>2. b \in Nat /\ k \in 0..(Y - 1) /\ b * Y + Y - 1 - k = place
  BY <1>1, PlaceBack
<1>3. place < R * Y <=> b < R
  BY <1>1, DivBound
<1>4. b < R + 1
  <2>1. place < (R + 1) * Y /\ R + 1 \in Nat
    BY SentenceFacts
  <2>2. QED
    BY <1>1, <2>1, DivBound
<1>5. BitAt(padded, place) = Bit(padded[b], k)
  BY DEF BitAt
<1> HIDE DEF b, k
<1>6. b \in 0..R /\ padded[b] = IF b < R THEN f[W][b] ELSE 0
  <2>1. b \in 0..R
    BY <1>1, <1>2, <1>4
  <2>2. QED
    BY <2>1
<1> HIDE DEF padded
<1>7. CASE b < R
  <2>1. PlaceIn(b, k) = place
    BY <1>2 DEF PlaceIn
  <2>2. Bit(f[W][b], k) = IF PlaceIn(b, k) < W * BITS_PER_WORD THEN WordBit(index, PlaceIn(b, k)) ELSE 0
    BY <1>1, <1>2, <1>6, PaddedBits
  <2>3. QED
    BY <1>3, <1>5, <1>6, <1>7, <2>1, <2>2 DEF padded
<1>8. CASE ~(b < R)
  <2>1. Bit(0, k) = 0
    BY <1>1, <1>2, ZeroBits
  <2>2. QED
    BY <1>3, <1>5, <1>6, <1>8, <2>1 DEF padded
<1>9. QED
  BY <1>7, <1>8

\* Which places of the words are those of the byte that is left out: the lowest
\* bits of the last word.
LEMMA PlacesLeftOut ==
    ASSUME NEW w \in Positions, NEW k \in 0..(BITS_PER_WORD - 1)
    PROVE  LET place == w * BITS_PER_WORD + BITS_PER_WORD - 1 - k IN
           /\ place \in Nat /\ place < WORDS_PER_REF * BITS_PER_WORD
           /\ place < REF_BYTES * BYTE_BITS <=> ~(w = WORDS_PER_REF - 1 /\ k < BYTE_BITS)
<1> DEFINE W == WORDS_PER_REF
           B == BITS_PER_WORD
           Y == BYTE_BITS
           place == w * B + B - 1 - k
           x == w * B
           n == W * B
           m == REF_BYTES * Y
<1>1. w \in Nat /\ W \in Nat /\ W - 1 \in Nat /\ w <= W - 1 /\ B \in Nat \ {0} /\ Y \in Nat \ {0} /\ Y <= B /\ k \in 0..(B - 1)
  BY SentenceFacts DEF Positions
<1>2. x \in Nat /\ n \in Nat /\ m \in Nat /\ x + B <= n
  <2>1. x \in Nat /\ n \in Nat /\ m \in Nat
    BY <1>1, SentenceFacts
  <2>2. w < W
    BY <1>1
  <2>3. QED
    BY <1>1, <2>1, <2>2, ProductOrder
<1>3. n = m + Y
  BY SentenceFacts
<1>4. w = W - 1 => x + B = n
  <2> SUFFICES ASSUME w = W - 1 PROVE x + B = n
    OBVIOUS
  <2>1. W = w + 1
    BY <1>1
  <2>2. (w + 1) * B = w * B + B
    BY <1>1
  <2>3. QED
    BY <2>1, <2>2
<1>5. w # W - 1 => x + B + B <= n
  <2> SUFFICES ASSUME w # W - 1 PROVE x + B + B <= n
    OBVIOUS
  <2>1. w + 1 < W /\ w + 1 \in Nat
    BY <1>1
  <2>2. (w + 1) * B + B <= n /\ (w + 1) * B = x + B
    BY <1>1, <2>1, ProductOrder
  <2>3. QED
    BY <2>2
<1>6. place = x + B - 1 - k
  OBVIOUS
<1> HIDE DEF x, n, m, place
<1>7. place \in Nat /\ place < n
  BY <1>1, <1>2, <1>6
<1>8. CASE w = W - 1
  <2>1. place < m <=> ~(k < Y)
    BY <1>1, <1>2, <1>3, <1>4, <1>6, <1>8
  <2>2. QED
    BY <1>7, <1>8, <2>1 DEF place, n, m
<1>9. CASE w # W - 1
  <2>1. place < m
    BY <1>1, <1>2, <1>3, <1>5, <1>6, <1>9
  <2>2. QED
    BY <1>7, <1>9, <2>1 DEF place, n, m
<1>10. QED
  BY <1>8, <1>9

\* The words of what was decoded: the last one without its lowest bits.
LEMMA WordsAgain ==
    ASSUME NEW index \in Indices, NEW f, Padded(f, index), NEW w \in Positions
    PROVE  LET padded == [b \in 0..REF_BYTES |-> IF b < REF_BYTES THEN f[WORDS_PER_REF][b] ELSE 0] IN
           extract_bits(padded, w * BITS_PER_WORD, BITS_PER_WORD) =
             IF w = WORDS_PER_REF - 1 THEN index[w] - (index[w] % Pow2[BYTE_BITS]) ELSE index[w]
<1> DEFINE W == WORDS_PER_REF
           B == BITS_PER_WORD
           K == 0..(B - 1)
           padded == [b \in 0..REF_BYTES |-> IF b < REF_BYTES THEN f[W][b] ELSE 0]
           want == IF w = W - 1 THEN index[w] - (index[w] % Pow2[BYTE_BITS]) ELSE index[w]
           bits == [k \in K |-> BitAt(padded, w * B + B - 1 - k)]
<1>1. w \in Nat /\ B \in Nat \ {0} /\ BYTE_BITS \in Nat
  BY SentenceFacts DEF Positions
<1>2. index[w] \in 0..(Pow2[B] - 1) /\ index[w] \in Nat /\ Pow2[B] \in Nat
  BY SentenceFacts DEF Indices
<1>3. /\ index[w] - (index[w] % Pow2[BYTE_BITS]) \in 0..index[w]
      /\ \A k \in Nat : Bit(index[w] - (index[w] % Pow2[BYTE_BITS]), k) = IF k < BYTE_BITS THEN 0 ELSE Bit(index[w], k)
  BY <1>1, <1>2, TrimmedBits
<1>4. want \in 0..(Pow2[B] - 1)
  BY <1>2, <1>3
<1>5. \A k \in Nat : Bit(want, k) = IF w = W - 1 /\ k < BYTE_BITS THEN 0 ELSE Bit(index[w], k)
  <2>1. CASE w = W - 1
    BY <1>3, <2>1
  <2>2. CASE w # W - 1
    BY <2>2
  <2>3. QED
    BY <2>1, <2>2
<1> HIDE DEF want
<1>6. ASSUME NEW k \in K PROVE BitAt(padded, w * B + B - 1 - k) = Bit(want, k)
  <2> DEFINE place == w * B + B - 1 - k
  <2>1. /\ place \in Nat /\ place < W * B
        /\ place < REF_BYTES * BYTE_BITS <=> ~(w = W - 1 /\ k < BYTE_BITS)
    BY PlacesLeftOut
  <2>2. place \div B = w /\ (B - 1) - (place % B) = k
    BY <1>1, PlaceOf
  <2> HIDE DEF place
  <2>3. BitAt(padded, place) = IF place < REF_BYTES * BYTE_BITS THEN WordBit(index, place) ELSE 0
    BY <2>1, DecodedBits
  <2>4. WordBit(index, place) = Bit(index[w], k)
    BY <2>2 DEF WordBit
  <2>5. k \in Nat
    BY <1>1
  <2>6. Bit(want, k) = IF w = W - 1 /\ k < BYTE_BITS THEN 0 ELSE Bit(index[w], k)
    BY <1>5, <2>5
  <2> HIDE DEF padded
  <2>7. BitAt(padded, place) = Bit(want, k)
    BY <2>1, <2>3, <2>4, <2>6
  <2>8. QED
    BY <2>7 DEF place
<1>7. want \in Nat /\ \A k \in K : Bit(want, k) \in {0, 1}
  BY <1>1, <1>2, <1>4, BitFacts
<1> HIDE DEF padded
<1>8. bits \in [K -> {0, 1}] /\ \A k \in K : Bit(want, k) = bits[k]
  <2>1. \A k \in K : bits[k] = Bit(want, k)
    BY <1>6
  <2>2. QED
    BY <1>6, <1>7, <2>1
<1>9. extract_bits(padded, w * B, B) = Number(B, bits)
  BY DEF extract_bits
<1>10. want = Number(B, bits)
  <2> HIDE DEF bits
  <2> QED BY <1>1, <1>4, <1>8, NumberFacts
<1>11. QED
  <2> HIDE DEF bits
  <2> QED BY <1>9, <1>10 DEF want, padded

\* Whatever the word lists, the size of references and that of words: what a
\* sentence decodes to is encoded as that sentence without the bits behind the
\* reference, the lowest of the last word.  These, the place of the check byte,
\* and no others are what decode_ref leaves unchecked.
THEOREM OnlyLastByteUnchecked ==
    ASSUME NEW index \in Indices
    PROVE  encode_ref(decode_ref(SentenceOf(index))) =
             SentenceOf([index EXCEPT ![WORDS_PER_REF - 1] = @ - (@ % Pow2[BYTE_BITS])])
<1> DEFINE ref == decode_ref(SentenceOf(index))
           trimmed == [index EXCEPT ![WORDS_PER_REF - 1] = @ - (@ % Pow2[BYTE_BITS])]
           bytes(x) == [b \in 0..REF_BYTES |-> IF b < REF_BYTES THEN x[b] ELSE 0]
<1>1. index \in Indices
  OBVIOUS
<1>2. PICK f : Padded(f, index) /\ ref = [b \in 0..(REF_BYTES - 1) |-> f[WORDS_PER_REF][b]]
  BY <1>1, DecodeFacts
<1> HIDE DEF ref
<1>3. bytes(ref) = bytes(f[WORDS_PER_REF])
  <2>1. ASSUME NEW b \in 0..REF_BYTES, b < REF_BYTES PROVE ref[b] = f[WORDS_PER_REF][b]
    <3>1. b \in 0..(REF_BYTES - 1)
      BY <2>1, SentenceFacts
    <3>2. QED
      BY <1>2, <3>1
  <2>2. QED
    BY <2>1
<1>4. ASSUME NEW w \in Positions
      PROVE  extract_bits(bytes(ref), w * BITS_PER_WORD, BITS_PER_WORD) = trimmed[w]
  <2>1. extract_bits(bytes(f[WORDS_PER_REF]), w * BITS_PER_WORD, BITS_PER_WORD) =
          IF w = WORDS_PER_REF - 1 THEN index[w] - (index[w] % Pow2[BYTE_BITS]) ELSE index[w]
    BY <1>1, <1>2, WordsAgain
  <2>2. trimmed[w] = IF w = WORDS_PER_REF - 1 THEN index[w] - (index[w] % Pow2[BYTE_BITS]) ELSE index[w]
    BY <1>1 DEF Indices
  <2> HIDE DEF bytes, trimmed
  <2>3. QED
    BY <1>3, <2>1, <2>2
<1>5. encode_ref(ref) = [w \in Positions |-> wordlists[w % 4][extract_bits(bytes(ref), w * BITS_PER_WORD, BITS_PER_WORD)]]
  BY DEF encode_ref
<1> HIDE DEF bytes, trimmed
<1>6. encode_ref(ref) = [w \in Positions |-> wordlists[w % 4][trimmed[w]]]
  BY <1>4, <1>5
<1>7. encode_ref(ref) = SentenceOf(trimmed)
  BY <1>6 DEF SentenceOf
<1>8. QED
  BY <1>7 DEF ref, trimmed

\* The words of a reference, by their indices.
WordsOf(ref) ==
    LET padded == [b \in 0..REF_BYTES |-> IF b < REF_BYTES THEN ref[b] ELSE 0] IN
    [w \in Positions |-> extract_bits(padded, w * BITS_PER_WORD, BITS_PER_WORD)]

\* encode_ref puts every bit of a reference in its place among the words.
LEMMA EncodeFacts ==
    ASSUME NEW ref \in References
    PROVE  /\ WordsOf(ref) \in Indices
           /\ encode_ref(ref) = SentenceOf(WordsOf(ref))
           /\ \A place \in Nat : place < REF_BYTES * BYTE_BITS =>
                WordBit(WordsOf(ref), place) = BitAt(ref, place)
<1> DEFINE W == WORDS_PER_REF
           B == BITS_PER_WORD
           Y == BYTE_BITS
           R == REF_BYTES
           K == 0..(B - 1)
           padded == [b \in 0..R |-> IF b < R THEN ref[b] ELSE 0]
           bits(w) == [k \in K |-> BitAt(padded, w * B + B - 1 - k)]
<1>1. B \in Nat \ {0} /\ Y \in Nat \ {0} /\ R \in Nat /\ R + 1 \in Nat /\ W * B = (R + 1) * Y
  BY SentenceFacts
<1>2. \A b \in 0..R : padded[b] \in Nat
  <2> SUFFICES ASSUME NEW b \in 0..R PROVE (IF b < R THEN ref[b] ELSE 0) \in Nat
    BY Zenon
  <2>1. b < R => b \in 0..(R - 1)
    BY <1>1
  <2>2. QED
    BY <2>1, SentenceFacts DEF References
<1>3. ASSUME NEW place \in Nat, place < W * B
      PROVE  /\ BitAt(padded, place) \in {0, 1}
             /\ place < R * Y => BitAt(padded, place) = BitAt(ref, place)
  <2> DEFINE b == place \div Y
             k == (Y - 1) - (place % Y)
  <2>1. b \in Nat /\ k \in 0..(Y - 1)
    BY <1>1, PlaceBack
  <2>2. b < R + 1 /\ (place < R * Y => b < R)
    <3>1. place < (R + 1) * Y
      BY <1>1, <1>3
    <3>2. QED
      BY <1>1, <3>1, DivBound
  <2>3. BitAt(padded, place) = Bit(padded[b], k) /\ BitAt(ref, place) = Bit(ref[b], k)
    BY DEF BitAt
  <2> HIDE DEF b, k
  <2>4. b \in 0..R
    BY <1>1, <2>1, <2>2
  <2>5. b < R => padded[b] = ref[b]
    BY <2>4
  <2> HIDE DEF padded
  <2>6. Bit(padded[b], k) \in {0, 1}
    <3>1. k \in Nat /\ padded[b] \in Nat
      BY <1>1, <1>2, <2>1, <2>4
    <3>2. QED
      BY <3>1, BitFacts
  <2>7. QED
    BY <2>2, <2>3, <2>5, <2>6
<1> HIDE DEF padded
<1>4. ASSUME NEW w \in Positions
      PROVE  /\ WordsOf(ref)[w] \in 0..(Pow2[B] - 1)
             /\ \A k \in K : Bit(WordsOf(ref)[w], k) = BitAt(padded, w * B + B - 1 - k)
  <2>1. ASSUME NEW k \in K PROVE BitAt(padded, w * B + B - 1 - k) \in {0, 1}
    <3> DEFINE place == w * B + B - 1 - k
    <3>1. place \in Nat /\ place < W * B
      BY PlacesLeftOut
    <3> HIDE DEF place
    <3>2. BitAt(padded, place) \in {0, 1}
      BY <1>3, <3>1
    <3>3. QED
      BY <3>2 DEF place
  <2>2. bits(w) \in [K -> {0, 1}] /\ \A k \in K : bits(w)[k] = BitAt(padded, w * B + B - 1 - k)
    BY <2>1
  <2>3. WordsOf(ref)[w] = Number(B, bits(w))
    BY DEF WordsOf, extract_bits, padded
  <2> HIDE DEF bits
  <2>4. /\ Number(B, bits(w)) \in 0..(Pow2[B] - 1)
        /\ \A k \in K : Bit(Number(B, bits(w)), k) = bits(w)[k]
    BY <1>1, <2>2, NumberFacts
  <2>5. QED
    BY <2>2, <2>3, <2>4
<1>5. WordsOf(ref) = [w \in Positions |-> WordsOf(ref)[w]]
  BY DEF WordsOf
<1>6. WordsOf(ref) \in Indices
  BY <1>4, <1>5 DEF Indices
<1>7. encode_ref(ref) = SentenceOf(WordsOf(ref))
  BY DEF encode_ref, SentenceOf, WordsOf
<1>8. ASSUME NEW place \in Nat, place < R * Y
      PROVE  WordBit(WordsOf(ref), place) = BitAt(ref, place)
  <2> DEFINE w == place \div B
             k == (B - 1) - (place % B)
  <2>1. w \in Nat /\ k \in 0..(B - 1) /\ w * B + B - 1 - k = place
    BY <1>1, PlaceBack
  <2>2. place < W * B
    <3> DEFINE x == R * Y
    <3>1. x \in Nat /\ (R + 1) * Y = x + Y
      BY <1>1
    <3> HIDE DEF x
    <3>2. place < x
      BY <1>8 DEF x
    <3>3. QED
      BY <1>1, <3>1, <3>2
  <2>3. w \in Positions
    <3>1. W \in Nat /\ w < W
      BY <1>1, <2>2, DivBound, SentenceFacts
    <3> HIDE DEF w
    <3>2. QED
      BY <2>1, <3>1 DEF Positions
  <2>4. WordBit(WordsOf(ref), place) = Bit(WordsOf(ref)[w], k)
    BY DEF WordBit
  <2> HIDE DEF w, k
  <2>5. Bit(WordsOf(ref)[w], k) = BitAt(padded, place)
    <3>1. Bit(WordsOf(ref)[w], k) = BitAt(padded, w * B + B - 1 - k)
      BY <1>4, <2>1, <2>3
    <3>2. QED
      BY <2>1, <3>1
  <2>6. QED
    BY <1>3, <1>8, <2>2, <2>4, <2>5
<1>9. QED
  BY <1>6, <1>7, <1>8

\* A reference comes back from its sentence.
LEMMA DecodeEncode ==
    ASSUME NEW ref \in References
    PROVE  decode_ref(encode_ref(ref)) = ref
<1> DEFINE W == WORDS_PER_REF
           B == BITS_PER_WORD
           Y == BYTE_BITS
           R == REF_BYTES
           index == WordsOf(ref)
<1>1. index \in Indices /\ encode_ref(ref) = SentenceOf(index)
  BY EncodeFacts
<1>2. \A place \in Nat : place < R * Y => WordBit(index, place) = BitAt(ref, place)
  BY EncodeFacts
<1> HIDE DEF index
<1>3. PICK f : Padded(f, index) /\ decode_ref(SentenceOf(index)) = [b \in 0..(R - 1) |-> f[W][b]]
  BY <1>1, DecodeFacts
<1>4. R \in Nat \ {0} /\ Y \in Nat \ {0} /\ W \in 0..W /\ W * B = (R + 1) * Y
  BY SentenceFacts
<1>5. ASSUME NEW b \in 0..(R - 1) PROVE f[W][b] = ref[b]
  <2>1. b \in Nat /\ b \in 0..R /\ b < R
    BY <1>4
  <2>2. f[W][b] \in 0..(Pow2[Y] - 1) /\ ref[b] \in 0..(Pow2[Y] - 1)
    BY <1>3, <1>4, <2>1 DEF Padded, Bytes, References
  <2>3. ASSUME NEW k \in 0..(Y - 1) PROVE Bit(f[W][b], k) = Bit(ref[b], k)
    <3> DEFINE place == b * Y + Y - 1 - k
    <3>1. place \in Nat /\ place \div Y = b /\ (Y - 1) - (place % Y) = k
      BY <1>4, <2>1, PlaceOf
    <3>2. PlaceIn(b, k) = place
      BY DEF PlaceIn
    <3> HIDE DEF place
    <3>3. place < R * Y /\ place < (R + 1) * Y
      <4>1. R \in Nat /\ R + 1 \in Nat /\ b < R + 1
        BY <1>4, <2>1
      <4>2. QED
        BY <1>4, <2>1, <3>1, <4>1, DivBound
    <3>4. Bit(f[W][b], k) = IF PlaceIn(b, k) < W * B THEN WordBit(index, PlaceIn(b, k)) ELSE 0
      BY <1>1, <1>3, <1>4, <2>1, PaddedBits
    <3>5. BitAt(ref, place) = Bit(ref[b], k)
      BY <3>1 DEF BitAt
    <3>6. QED
      BY <1>2, <1>4, <3>1, <3>2, <3>3, <3>4, <3>5
  <2>4. QED
    BY <1>4, <2>2, <2>3, NumberUnique
<1>6. ref = [b \in 0..(R - 1) |-> ref[b]]
  BY DEF References
<1>7. QED
  BY <1>1, <1>3, <1>5, <1>6

\* Whatever the word lists, the size of references and that of words: every
\* reference comes back from its sentence.
THEOREM ReferencesComeBack == AlgorithmsSpec => []ReferenceComesBack
<1>1. SampleInv => ReferenceComesBack
  BY DecodeEncode DEF SampleInv, Sampled, ReferenceComesBack
<1>2. QED
  BY SamplesHold, <1>1, PTL
=============================================================================
