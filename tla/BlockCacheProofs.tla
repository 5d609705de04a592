-------------------------- MODULE BlockCacheProofs --------------------------
(***************************************************************************)
(* Theorems about BlockCache, for any number of threads and blocks and any *)
(* sizes.                                                                  *)
(***************************************************************************)
EXTENDS BlockCache, FiniteSetTheorems, SequenceTheorems, WellFoundedInduction, TLAPS

-----------------------------------------------------------------------------
(* The inductive invariant, in parts.                                       *)

InPut == {"open", "write", "gone", "index"}

\* A file that a thread writes into is there, unless the thread is at "gone".
WritesToFile == \A t \in Threads : threads[t].at = "write" => threads[t].rid \in DOMAIN files

\* A complete file is indexed, or the thread that has written it comes to that.
WrittenIsIndexed ==
    \A r \in DOMAIN files \ left :
        files[r] => r \in Indexed \/ \E t \in Threads : threads[t].rid = r /\ threads[t].at = "index"

\* A block that has not been put twice is put by one thread, and is not indexed
\* before that thread has done so.
PutOnce ==
    \A t \in Threads : threads[t].at \in InPut /\ threads[t].rid \notin again =>
        /\ threads[t].rid \notin Indexed
        /\ \A u \in Threads : threads[u].at \in InPut /\ threads[u].rid = threads[t].rid => u = t

\* Its file is not removed meanwhile, and is complete when it is indexed.
PutBacked ==
    \A t \in Threads : threads[t].rid \notin again =>
        /\ threads[t].at # "gone"
        /\ threads[t].at = "index" => threads[t].rid \in DOMAIN files /\ files[threads[t].rid]

IInv ==
    /\ TypeOK /\ SizeIsSum
    /\ WritesToFile /\ WrittenIsIndexed
    /\ PutOnce /\ PutBacked /\ EntriesBacked

-----------------------------------------------------------------------------
(* Numbers.                                                                 *)

\* A set of natural numbers has a least element.
LEMMA Least ==
    ASSUME NEW S \in SUBSET Nat, S # {}
    PROVE  \E m \in S : \A n \in S : m <= n
  <1>1. PICK m \in S : \A n \in S : <<n, m>> \notin OpToRel(<, Nat)
    BY WFMin, NatLessThanWellFounded
  <1>2. \A n \in S : ~(n < m)
    BY <1>1 DEF OpToRel
  <1> QED BY <1>2

\* A bounded one has a greatest, and Max gives it.
LEMMA Greatest ==
    ASSUME NEW n \in Nat, NEW S \in SUBSET (0..n), S # {}
    PROVE  Max(S) \in S /\ \A x \in S : x <= Max(S)
  <1> DEFINE T == {k \in 0..n : n - k \in S}
  <1>1. T \in SUBSET Nat /\ \A x \in S : n - x \in T
    OBVIOUS
  <1>2. PICK m \in T : \A k \in T : m <= k
    <2> HIDE DEF T
    <2> QED BY <1>1, Least
  <1>3. \A x \in S : n - m >= x
    BY <1>1, <1>2
  <1>4. n - m \in S
    BY <1>2
  <1>5. Max(S) \in S /\ \A x \in S : Max(S) >= x
    BY <1>3, <1>4 DEF Max
  <1> QED BY <1>5

-----------------------------------------------------------------------------
(* The index: sequences without repetitions.                                *)

Distinct(s) == \A i, j \in DOMAIN s : s[i] = s[j] => i = j

\* The sequence s is one of blocks, each once, and these are S.
Lists(s, S) == s \in Seq(Rids) /\ Distinct(s) /\ Range(s) = S

\* A part of a sequence.
LEMMA PartOf ==
    ASSUME NEW s \in Seq(Rids), NEW m \in 1..(Len(s) + 1), NEW n \in (m - 1)..Len(s)
    PROVE  /\ SubSeq(s, m, n) \in Seq(Rids) /\ Len(SubSeq(s, m, n)) = n - m + 1
           /\ DOMAIN SubSeq(s, m, n) = 1..(n - m + 1)
           /\ \A j \in 1..(n - m + 1) : SubSeq(s, m, n)[j] = s[m + j - 1]
  <1>1. Len(s) \in Nat /\ \A i \in 1..Len(s) : s[i] \in Rids
    OBVIOUS
  <1>2. m \in Int /\ n \in Int /\ \A i \in m..n : s[i] \in Rids
    BY <1>1
  <1>3. /\ SubSeq(s, m, n) \in Seq(Rids) /\ Len(SubSeq(s, m, n)) = IF m <= n THEN n - m + 1 ELSE 0
        /\ \A j \in 1..(n - m + 1) : SubSeq(s, m, n)[j] = s[m + j - 1]
    BY <1>2, SubSeqProperties
  <1>4. Len(SubSeq(s, m, n)) = n - m + 1
    BY <1>1, <1>3
  <1>5. DOMAIN SubSeq(s, m, n) = 1..(n - m + 1)
    BY <1>3, <1>4, LenProperties
  <1> QED BY <1>3, <1>4, <1>5

\* A sequence without one of its places.
LEMMA CutOut ==
    ASSUME NEW s \in Seq(Rids), Distinct(s), NEW i \in DOMAIN s
    PROVE  Lists(SubSeq(s, 1, i - 1) \o SubSeq(s, i + 1, Len(s)), Range(s) \ {s[i]})
  <1> DEFINE t == SubSeq(s, 1, i - 1) \o SubSeq(s, i + 1, Len(s))
  <1>1. Len(s) \in Nat /\ DOMAIN s = 1..Len(s) /\ i \in 1..Len(s) /\ \A j \in 1..Len(s) : s[j] \in Rids
    OBVIOUS
  <1>2. /\ t \in Seq(Rids) /\ Len(t) = Len(s) - 1 /\ DOMAIN t = 1..(Len(s) - 1)
        /\ \A j \in 1..(Len(s) - 1) : t[j] = IF j < i THEN s[j] ELSE s[j + 1]
    <2> DEFINE a == SubSeq(s, 1, i - 1)
               b == SubSeq(s, i + 1, Len(s))
    <2>0. Len(s) \in Nat /\ i \in Nat /\ 1 <= i /\ i <= Len(s)
      BY <1>1
    <2>1. /\ 1 \in 1..(Len(s) + 1) /\ i - 1 \in (1 - 1)..Len(s)
          /\ i + 1 \in 1..(Len(s) + 1) /\ Len(s) \in ((i + 1) - 1)..Len(s)
      BY <2>0
    <2>2. a \in Seq(Rids) /\ Len(a) = i - 1 /\ \A j \in 1..(i - 1) : a[j] = s[j]
      <3>1. /\ a \in Seq(Rids) /\ Len(a) = (i - 1) - 1 + 1
            /\ \A j \in 1..((i - 1) - 1 + 1) : a[j] = s[1 + j - 1]
        BY <2>1, PartOf
      <3> HIDE DEF a
      <3> QED BY <1>1, <3>1
    <2>3. b \in Seq(Rids) /\ Len(b) = Len(s) - i /\ \A j \in 1..(Len(s) - i) : b[j] = s[i + j]
      <3>1. /\ b \in Seq(Rids) /\ Len(b) = Len(s) - (i + 1) + 1
            /\ \A j \in 1..(Len(s) - (i + 1) + 1) : b[j] = s[(i + 1) + j - 1]
        BY <2>1, PartOf
      <3> HIDE DEF b
      <3> QED BY <1>1, <3>1
    <2> HIDE DEF a, b
    <2>4. /\ a \o b \in Seq(Rids) /\ Len(a \o b) = Len(a) + Len(b)
          /\ \A j \in 1..(Len(a) + Len(b)) : (a \o b)[j] = IF j <= Len(a) THEN a[j] ELSE b[j - Len(a)]
      BY <2>2, <2>3, ConcatProperties
    <2>5. Len(a \o b) = Len(s) - 1 /\ DOMAIN (a \o b) = 1..(Len(s) - 1)
      <3>1. Len(a \o b) = Len(s) - 1
        <4>1. Len(a \o b) = (i - 1) + (Len(s) - i)
          BY <2>2, <2>3, <2>4
        <4> QED BY <2>0, <4>1
      <3>2. DOMAIN (a \o b) = 1..Len(a \o b)
        BY <2>4, LenProperties
      <3> QED BY <3>1, <3>2
    <2>6. \A j \in 1..(Len(s) - 1) : (a \o b)[j] = IF j < i THEN s[j] ELSE s[j + 1]
      <3> TAKE j \in 1..(Len(s) - 1)
      <3>1. (a \o b)[j] = IF j <= i - 1 THEN a[j] ELSE b[j - (i - 1)]
        BY <1>1, <2>2, <2>3, <2>4
      <3>2. CASE j < i
        BY <1>1, <2>2, <3>1, <3>2
      <3>3. CASE ~(j < i)
        <4>1. j - (i - 1) \in 1..(Len(s) - i) /\ i + (j - (i - 1)) = j + 1
          BY <1>1, <3>3
        <4>2. b[j - (i - 1)] = s[j + 1]
          BY <2>3, <4>1
        <4> QED BY <1>1, <3>1, <3>3, <4>2
      <3> QED BY <3>2, <3>3
    <2> QED BY <2>4, <2>5, <2>6 DEF t, a, b
  <1> HIDE DEF t
  <1>3. Distinct(t)
    BY <1>1, <1>2 DEF Distinct
  <1>4. ASSUME NEW r \in Range(t)
        PROVE  r \in Range(s) \ {s[i]}
    <2>1. PICK j \in 1..(Len(s) - 1) : r = t[j]
      BY <1>2, <1>4 DEF Range
    <2> QED BY <1>1, <1>2, <2>1 DEF Range, Distinct
  <1>5. ASSUME NEW r \in Range(s) \ {s[i]}
        PROVE  r \in Range(t)
    <2>1. PICK j \in 1..Len(s) : r = s[j] /\ j # i
      BY <1>1, <1>5 DEF Range
    <2>2. CASE j < i
      <3>1. j \in 1..(Len(s) - 1) /\ t[j] = r
        BY <1>1, <1>2, <2>1, <2>2
      <3> QED BY <1>2, <3>1 DEF Range
    <2>3. CASE j > i
      <3>1. j - 1 \in 1..(Len(s) - 1) /\ t[j - 1] = r
        BY <1>1, <1>2, <2>1, <2>3
      <3> QED BY <1>2, <3>1 DEF Range
    <2> QED BY <1>1, <2>1, <2>2, <2>3
  <1>6. Range(t) = Range(s) \ {s[i]}
    BY <1>4, <1>5
  <1> QED BY <1>2, <1>3, <1>6 DEF Lists, t

\* A sequence without its first k.
LEMMA DropFirst ==
    ASSUME NEW s \in Seq(Rids), Distinct(s), NEW k \in 0..Len(s)
    PROVE  /\ Lists(SubSeq(s, k + 1, Len(s)), Range(s) \ Range(SubSeq(s, 1, k)))
           /\ Range(SubSeq(s, 1, k)) \subseteq Range(s) /\ Range(s) \subseteq Rids
  <1> DEFINE t == SubSeq(s, k + 1, Len(s))
             h == SubSeq(s, 1, k)
  <1>1. Len(s) \in Nat /\ DOMAIN s = 1..Len(s) /\ \A j \in 1..Len(s) : s[j] \in Rids
    OBVIOUS
  <1>2. /\ t \in Seq(Rids) /\ DOMAIN t = 1..(Len(s) - k)
        /\ \A j \in 1..(Len(s) - k) : t[j] = s[k + j]
    <2>1. k + 1 \in 1..(Len(s) + 1) /\ Len(s) \in ((k + 1) - 1)..Len(s)
      BY <1>1
    <2>2. /\ t \in Seq(Rids) /\ DOMAIN t = 1..(Len(s) - (k + 1) + 1)
          /\ \A j \in 1..(Len(s) - (k + 1) + 1) : t[j] = s[(k + 1) + j - 1]
      BY <2>1, PartOf
    <2> HIDE DEF t
    <2> QED BY <1>1, <2>2
  <1>3. DOMAIN h = 1..k /\ \A j \in 1..k : h[j] = s[j]
    <2>1. 1 \in 1..(Len(s) + 1) /\ k \in (1 - 1)..Len(s)
      BY <1>1
    <2>2. DOMAIN h = 1..(k - 1 + 1) /\ \A j \in 1..(k - 1 + 1) : h[j] = s[1 + j - 1]
      BY <2>1, PartOf
    <2> HIDE DEF h
    <2> QED BY <1>1, <2>2
  <1> HIDE DEF t, h
  <1>4. Distinct(t)
    <2> SUFFICES ASSUME NEW m \in 1..(Len(s) - k), NEW n \in 1..(Len(s) - k), t[m] = t[n]
                 PROVE  m = n
      BY <1>2 DEF Distinct
    <2>1. s[k + m] = s[k + n]
      BY <1>2
    <2>2. k + m \in DOMAIN s /\ k + n \in DOMAIN s
      BY <1>1
    <2>3. k + m = k + n
      BY <2>1, <2>2 DEF Distinct
    <2> QED BY <2>3
  <1>5. ASSUME NEW r \in Range(t)
        PROVE  r \in Range(s) \ Range(h)
    <2>1. PICK j \in 1..(Len(s) - k) : r = s[k + j]
      BY <1>2, <1>5 DEF Range
    <2>2. k + j \in 1..Len(s) /\ \A m \in 1..k : m # k + j /\ m \in 1..Len(s)
      BY <1>1
    <2>3. r \notin Range(h)
      BY <1>1, <1>3, <2>1, <2>2 DEF Range, Distinct
    <2> QED BY <1>1, <2>1, <2>2, <2>3 DEF Range
  <1>6. ASSUME NEW r \in Range(s) \ Range(h)
        PROVE  r \in Range(t)
    <2>1. PICK j \in 1..Len(s) : r = s[j]
      BY <1>1, <1>6 DEF Range
    <2>2. j \notin 1..k
      BY <1>3, <1>6, <2>1 DEF Range
    <2>3. j - k \in 1..(Len(s) - k) /\ k + (j - k) = j
      BY <1>1, <2>2
    <2>4. t[j - k] = r
      BY <1>2, <2>1, <2>3
    <2> QED BY <1>2, <2>3, <2>4 DEF Range
  <1>7. Range(t) = Range(s) \ Range(h)
    BY <1>5, <1>6
  <1>8. Range(h) \subseteq Range(s) /\ Range(s) \subseteq Rids
    BY <1>1, <1>3 DEF Range
  <1> QED BY <1>2, <1>4, <1>7, <1>8 DEF Lists, t, h

\* The index without a block, and after an access to one.
LEMMA IndexSteps ==
    ASSUME TypeOK, NEW r \in Rids
    PROVE  Lists(Without(r), Indexed \ {r}) /\ Lists(Touched(r), Indexed \cup {r})
  <1>1. lru \in Seq(Rids) /\ Distinct(lru)
    BY DEF TypeOK, Distinct
  <1>2. Lists(Without(r), Indexed \ {r})
    <2>1. CASE r \in Indexed
      <3> DEFINE i == CHOOSE i \in DOMAIN lru : lru[i] = r
      <3>1. i \in DOMAIN lru /\ lru[i] = r
        BY <2>1 DEF Indexed, Range
      <3>2. Without(r) = SubSeq(lru, 1, i - 1) \o SubSeq(lru, i + 1, Len(lru))
        BY <2>1 DEF Without
      <3> HIDE DEF i
      <3> QED BY <1>1, <3>1, <3>2, CutOut DEF Indexed
    <2>2. CASE r \notin Indexed
      BY <1>1, <2>2 DEF Without, Lists, Indexed
    <2> QED BY <2>1, <2>2
  <1> DEFINE s == Without(r)
  <1>3. s \in Seq(Rids) /\ Distinct(s) /\ Range(s) = Indexed \ {r}
    BY <1>2 DEF Lists
  <1> HIDE DEF s
  <1>4. /\ Append(s, r) \in Seq(Rids) /\ Len(s) \in Nat /\ DOMAIN s = 1..Len(s)
        /\ DOMAIN Append(s, r) = 1..(Len(s) + 1)
        /\ \A j \in 1..(Len(s) + 1) : Append(s, r)[j] = IF j = Len(s) + 1 THEN r ELSE s[j]
    BY <1>3
  <1>5. \A j \in 1..Len(s) : s[j] # r
    BY <1>3, <1>4 DEF Range
  <1>6. Distinct(Append(s, r))
    BY <1>3, <1>4, <1>5 DEF Distinct
  <1>7. Range(Append(s, r)) = Range(s) \cup {r}
    <2>1. Range(Append(s, r)) \subseteq Range(s) \cup {r}
      BY <1>4 DEF Range
    <2>2. Range(s) \cup {r} \subseteq Range(Append(s, r))
      BY <1>4 DEF Range
    <2> QED BY <2>1, <2>2
  <1>8. Range(Append(s, r)) = Indexed \cup {r}
    BY <1>3, <1>7
  <1> QED BY <1>2, <1>4, <1>6, <1>8 DEF Lists, Touched, s

-----------------------------------------------------------------------------
(* The sum of the sizes of blocks.                                          *)

Bytes(S) == UNION {{r} \X (1..SizeOf[r]) : r \in S}

\* The bytes of blocks are finitely many.
LEMMA TotalFinite ==
    ASSUME NEW S \in SUBSET Rids
    PROVE  IsFiniteSet(Bytes(S)) /\ Total(S) = Cardinality(Bytes(S)) /\ Total(S) \in Nat
  <1> DEFINE B(r) == {r} \X (1..SizeOf[r])
             T == {B(r) : r \in S}
             f == [r \in S |-> B(r)]
  <1>1. IsFiniteSet(S)
    BY BlockCacheAssumption, FS_Subset
  <1>2. f \in Surjection(S, T)
    BY DEF Surjection
  <1>3. IsFiniteSet(T)
    BY <1>1, <1>2, FS_Surjection
  <1>4. ASSUME NEW r \in S
        PROVE  IsFiniteSet(B(r))
    <2>1. SizeOf[r] \in Nat
      BY BlockCacheAssumption
    <2>2. IsFiniteSet(1..SizeOf[r])
      BY <2>1, FS_Interval
    <2>3. IsFiniteSet({r})
      BY FS_Singleton
    <2> QED BY <2>2, <2>3, FS_Product
  <1>5. IsFiniteSet(UNION T)
    <2>1. \A X \in T : IsFiniteSet(X)
      BY <1>4
    <2> HIDE DEF T
    <2> QED BY <1>3, <2>1, FS_UNION
  <1>6. Bytes(S) = UNION T
    BY DEF Bytes
  <1>7. IsFiniteSet(Bytes(S)) /\ Cardinality(Bytes(S)) \in Nat
    BY <1>5, <1>6, FS_CardinalityType
  <1> QED BY <1>7 DEF Total, Bytes

\* Blocks that are not among others add their sizes.
LEMMA TotalAdds ==
    ASSUME NEW S \in SUBSET Rids, NEW T \in SUBSET Rids, S \cap T = {}
    PROVE  Total(S \cup T) = Total(S) + Total(T)
  <1>1. Bytes(S \cup T) = Bytes(S) \cup Bytes(T)
    BY DEF Bytes
  <1>2. Bytes(S) \cap Bytes(T) = {}
    BY DEF Bytes
  <1>3. /\ IsFiniteSet(Bytes(S)) /\ Total(S) = Cardinality(Bytes(S)) /\ Total(S) \in Nat
        /\ IsFiniteSet(Bytes(T)) /\ Total(T) = Cardinality(Bytes(T)) /\ Total(T) \in Nat
        /\ Total(S \cup T) = Cardinality(Bytes(S \cup T))
    BY TotalFinite
  <1>4. Cardinality(Bytes(S) \cup Bytes(T)) =
           Cardinality(Bytes(S)) + Cardinality(Bytes(T)) - Cardinality(Bytes(S) \cap Bytes(T))
    BY <1>3, FS_Union
  <1>5. Cardinality(Bytes(S) \cap Bytes(T)) = 0
    BY <1>2, FS_EmptySet
  <1>6. Total(S \cup T) = Total(S) + Total(T) - 0
    BY <1>1, <1>3, <1>4, <1>5, Zenon
  <1> QED BY <1>3, <1>6

\* One block, and none.
LEMMA TotalOne ==
    /\ \A r \in Rids : Total({r}) = SizeOf[r] /\ SizeOf[r] \in Nat
    /\ Total({}) = 0
  <1>1. ASSUME NEW r \in Rids
        PROVE  Total({r}) = SizeOf[r] /\ SizeOf[r] \in Nat
    <2>1. SizeOf[r] \in Nat
      BY BlockCacheAssumption
    <2>2. Bytes({r}) = {r} \X (1..SizeOf[r])
      BY DEF Bytes
    <2>3. IsFiniteSet(1..SizeOf[r]) /\ Cardinality(1..SizeOf[r]) = SizeOf[r]
      BY <2>1, FS_Interval
    <2>4. IsFiniteSet({r}) /\ Cardinality({r}) = 1
      BY FS_Singleton
    <2>5. Cardinality({r} \X (1..SizeOf[r])) = 1 * SizeOf[r]
      BY <2>3, <2>4, FS_Product
    <2>6. Total({r}) = Cardinality(Bytes({r}))
      BY TotalFinite
    <2>7. Total({r}) = 1 * SizeOf[r]
      BY <2>2, <2>5, <2>6, Zenon
    <2> QED BY <2>1, <2>7
  <1>2. Bytes({}) = {}
    BY DEF Bytes
  <1>3. Total({}) = Cardinality(Bytes({}))
    BY TotalFinite
  <1>4. Total({}) = 0
    BY <1>2, <1>3, FS_EmptySet
  <1> QED BY <1>1, <1>4

\* Blocks taken away from others take their sizes away.
LEMMA TotalDrops ==
    ASSUME NEW S \in SUBSET Rids, NEW V \in SUBSET S
    PROVE  /\ Total(S \ V) = Total(S) - Total(V)
           /\ Total(S) \in Nat /\ Total(V) \in Nat /\ Total(S \ V) \in Nat
  <1>1. (S \ V) \cup V = S /\ (S \ V) \cap V = {}
    OBVIOUS
  <1>2. Total((S \ V) \cup V) = Total(S \ V) + Total(V)
    BY <1>1, TotalAdds
  <1>3. Total(S \ V) \in Nat /\ Total(V) \in Nat /\ Total(S) \in Nat
    BY TotalFinite
  <1>4. Total(S) = Total(S \ V) + Total(V)
    BY <1>1, <1>2, Zenon
  <1> QED BY <1>3, <1>4

\* evict_if_needed makes room, or empties the index.
LEMMA EvictMakesRoom ==
    ASSUME TypeOK, NEW needed \in Nat
    PROVE  LET k == EvictCount(needed) IN
           /\ k \in 0..Len(lru)
           /\ \/ currentSize - Total(Range(SubSeq(lru, 1, k))) + needed <= MaxSize
              \/ k = Len(lru)
  <1> DEFINE fits(n) == currentSize - Total(Range(SubSeq(lru, 1, n))) + needed <= MaxSize
             S == {k \in 0..Len(lru) : fits(k) \/ k = Len(lru)}
             C(k) == (fits(k) \/ k = Len(lru)) /\ \A n \in 0..(k - 1) : ~fits(n)
  <1>1. Len(lru) \in Nat
    BY DEF TypeOK
  <1>2. EvictCount(needed) = CHOOSE k \in 0..Len(lru) : C(k)
    BY DEF EvictCount
  <1> HIDE DEF fits
  <1>3. S \in SUBSET Nat /\ S # {}
    BY <1>1
  <1>4. PICK k \in S : \A n \in S : k <= n
    <2> HIDE DEF S
    <2> QED BY <1>3, Least
  <1>5. k \in 0..Len(lru) /\ (fits(k) \/ k = Len(lru))
    BY <1>4
  <1>6. \A n \in 0..(k - 1) : ~fits(n)
    BY <1>1, <1>4, <1>5
  <1>7. \E m \in 0..Len(lru) : C(m)
    BY <1>5, <1>6
  <1> HIDE DEF C
  <1>8. EvictCount(needed) \in 0..Len(lru) /\ C(EvictCount(needed))
    BY <1>2, <1>7
  <1> QED BY <1>8 DEF C, fits

-----------------------------------------------------------------------------
(* The actions.                                                             *)

\* Where the threads are, and what the files are.
ThreadsTyped == threads \in [Threads -> [at: Points, rid: Rids]]
FilesTyped == DOMAIN files \subseteq Rids /\ files \in [DOMAIN files -> BOOLEAN]

\* The part of the invariant that is about files and entries.
Backing == WritesToFile /\ WrittenIsIndexed /\ PutOnce /\ PutBacked /\ EntriesBacked

\* A thread that goes on within put or get keeps its block; the others stay.
LEMMA GotoStep ==
    ASSUME ThreadsTyped, NEW t \in Threads, NEW at \in Points, threads' = Goto(t, at)
    PROVE  /\ ThreadsTyped'
           /\ threads'[t].at = at /\ threads'[t].rid = threads[t].rid
           /\ \A u \in Threads : u # t => threads'[u] = threads[u]
  BY DEF ThreadsTyped, Goto

\* The new index, and its blocks.
LEMMA NewIndex ==
    ASSUME NEW S \in SUBSET Rids, Lists(lru', S)
    PROVE  /\ lru' \in Seq(Rids) /\ (\A i, j \in DOMAIN lru' : lru'[i] = lru'[j] => i = j)
           /\ Indexed' = S
  BY DEF Lists, Distinct, Indexed

\* The blocks of the index are blocks.
LEMMA IndexedAreBlocks == ASSUME TypeOK PROVE Indexed \subseteq Rids
  BY DEF TypeOK, Indexed, Range

\* The files of the blocks D are removed, when the threads have gone on to moved.
Removed(D, moved) ==
    /\ DOMAIN files' = DOMAIN files \ D /\ \A r \in DOMAIN files \ D : files'[r] = files[r]
    /\ \A u \in Threads :
         /\ threads'[u].rid = moved[u].rid
         /\ moved[u].at = "write" /\ moved[u].rid \in D => threads'[u].at = "gone"
         /\ ~(moved[u].at = "write" /\ moved[u].rid \in D) => threads'[u] = moved[u]

\* What removing the files of blocks, except those of kept where that fails, does
\* to the files and to the threads that write into them.
LEMMA RemovalSteps ==
    ASSUME NEW R \in SUBSET Rids, NEW moved \in [Threads -> [at: Points, rid: Rids]],
           FilesTyped, RemoveFiles(R, moved)
    PROVE  /\ ThreadsTyped' /\ FilesTyped'
           /\ \E kept \in SUBSET (R \cap DOMAIN files) :
                left' = (left \ R) \cup kept /\ Removed(R \ kept, moved)
  <1>0. PICK kept \in SUBSET (R \cap DOMAIN files) :
            /\ files' = [r \in DOMAIN files \ (R \ kept) |-> files[r]]
            /\ threads' = [t \in Threads |->
                             IF moved[t].at = "write" /\ moved[t].rid \in R \ kept
                               THEN [moved[t] EXCEPT !.at = "gone"] ELSE moved[t]]
            /\ left' = (left \ R) \cup kept
    BY DEF RemoveFiles
  <1> DEFINE D == R \ kept
  <1>1. \A u \in Threads : moved[u] \in [at: Points, rid: Rids] /\ [moved[u] EXCEPT !.at = "gone"] \in [at: Points, rid: Rids]
    BY DEF Points
  <1>2. ThreadsTyped'
    BY <1>0, <1>1 DEF ThreadsTyped
  <1>3. FilesTyped' /\ DOMAIN files' = DOMAIN files \ D /\ \A r \in DOMAIN files \ D : files'[r] = files[r]
    BY <1>0 DEF FilesTyped
  <1>4. ASSUME NEW u \in Threads
        PROVE  /\ threads'[u].rid = moved[u].rid
               /\ moved[u].at = "write" /\ moved[u].rid \in D => threads'[u].at = "gone"
               /\ ~(moved[u].at = "write" /\ moved[u].rid \in D) => threads'[u] = moved[u]
    BY <1>0, <1>1
  <1>5. Removed(D, moved)
    BY <1>3, <1>4 DEF Removed
  <1> QED BY <1>0, <1>2, <1>3, <1>5

\* A thread that has just begun to put a block: one that was neither indexed nor
\* being put, unless it counts as put again.
Begins(u, moved, again_) ==
    /\ threads[u].at = "idle" /\ moved[u].at = "open"
    /\ moved[u].rid \notin again_ =>
         /\ moved[u].rid \notin Indexed
         /\ \A v \in Threads : moved[v].at \in InPut /\ moved[v].rid = moved[u].rid => v = u

\* Removing entries together with their files keeps the two in step.
LEMMA RemovalKeepsBacking ==
    ASSUME TypeOK, Backing,
           NEW R \in SUBSET Indexed, NEW moved \in [Threads -> [at: Points, rid: Rids]],
           RemoveFiles(R, moved), Indexed' = Indexed \ R,
           again \subseteq again',
           \A u \in Threads : moved[u] = threads[u] \/ Begins(u, moved, again')
    PROVE  ThreadsTyped' /\ FilesTyped' /\ Backing' /\ left' \subseteq Rids
  <1>1. R \in SUBSET Rids /\ FilesTyped
    BY IndexedAreBlocks DEF TypeOK, FilesTyped
  <1>0. /\ ThreadsTyped' /\ FilesTyped'
        /\ \E kept \in SUBSET (R \cap DOMAIN files) :
             left' = (left \ R) \cup kept /\ Removed(R \ kept, moved)
    BY <1>1, RemovalSteps
  <1>a. PICK kept \in SUBSET (R \cap DOMAIN files) :
            left' = (left \ R) \cup kept /\ Removed(R \ kept, moved)
    BY <1>0
  <1> DEFINE D == R \ kept
  <1>2. /\ ThreadsTyped' /\ FilesTyped' /\ D \subseteq R
        /\ DOMAIN files' = DOMAIN files \ D /\ \A r \in DOMAIN files \ D : files'[r] = files[r]
        /\ \A u \in Threads :
                /\ threads'[u].rid = moved[u].rid
                /\ moved[u].at = "write" /\ moved[u].rid \in D => threads'[u].at = "gone"
                /\ ~(moved[u].at = "write" /\ moved[u].rid \in D) => threads'[u] = moved[u]
    BY <1>0, <1>a DEF Removed
  <1>b. left' \subseteq Rids
    BY <1>1, <1>a DEF TypeOK
  <1>c. \A r \in DOMAIN files' \ left' : r \in DOMAIN files \ left /\ r \notin R
    BY <1>a, <1>2
  <1> HIDE DEF D
  <1>3. \A u \in Threads : moved[u].at # "open" => moved[u] = threads[u]
    BY DEF Begins
  <1>4. WritesToFile'
    BY <1>2, <1>3 DEF Backing, WritesToFile
  <1>5. WrittenIsIndexed'
    <2> SUFFICES ASSUME NEW r \in DOMAIN files' \ left', files'[r]
                 PROVE  r \in Indexed' \/ \E u \in Threads : threads'[u].rid = r /\ threads'[u].at = "index"
      BY DEF WrittenIsIndexed
    <2>1. r \in DOMAIN files \ left /\ r \notin R /\ files[r]
      BY <1>2, <1>c
    <2>2. CASE r \in Indexed
      BY <2>1, <2>2
    <2>3. CASE r \notin Indexed
      <3>1. PICK u \in Threads : threads[u].rid = r /\ threads[u].at = "index"
        BY <2>1, <2>3 DEF Backing, WrittenIsIndexed
      <3>2. moved[u] = threads[u]
        BY <3>1 DEF Begins
      <3> QED BY <1>2, <3>1, <3>2
    <2> QED BY <2>2, <2>3
  <1>6. \A u \in Threads : threads'[u].at \in InPut => moved[u].at \in InPut
    BY <1>2 DEF InPut
  <1>7. PutOnce'
    <2> SUFFICES ASSUME NEW u \in Threads, threads'[u].at \in InPut, threads'[u].rid \notin again'
                 PROVE  /\ threads'[u].rid \notin Indexed'
                        /\ \A v \in Threads : threads'[v].at \in InPut /\ threads'[v].rid = threads'[u].rid => v = u
      BY DEF PutOnce
    <2>1. moved[u].at \in InPut /\ moved[u].rid = threads'[u].rid
      BY <1>2, <1>6
    <2>2. CASE Begins(u, moved, again')
      BY <1>2, <1>6, <2>1, <2>2 DEF Begins
    <2>3. CASE moved[u] = threads[u]
      <3>1. /\ moved[u].rid \notin Indexed
            /\ \A v \in Threads : threads[v].at \in InPut /\ threads[v].rid = moved[u].rid => v = u
        BY <2>1, <2>3 DEF Backing, PutOnce
      <3>2. ASSUME NEW v \in Threads, threads'[v].at \in InPut, threads'[v].rid = threads'[u].rid
            PROVE  v = u
        <4>1. moved[v].at \in InPut /\ moved[v].rid = moved[u].rid
          BY <1>2, <1>6, <2>1, <3>2
        <4>2. CASE moved[v] = threads[v]
          BY <3>1, <4>1, <4>2
        <4>3. CASE Begins(v, moved, again')
          BY <2>1, <4>1, <4>3 DEF Begins
        <4> QED BY <4>2, <4>3
      <3> QED BY <2>1, <3>1, <3>2
    <2> QED BY <2>2, <2>3
  <1>8. PutBacked'
    <2> SUFFICES ASSUME NEW u \in Threads, threads'[u].rid \notin again'
                 PROVE  /\ threads'[u].at # "gone"
                        /\ threads'[u].at = "index" => threads'[u].rid \in DOMAIN files' /\ files'[threads'[u].rid]
      BY DEF PutBacked
    <2>1. moved[u].rid = threads'[u].rid /\ moved[u].rid \notin again
      BY <1>2
    <2>2. CASE moved[u].at = "open"
      BY <1>2, <2>2
    <2>3. CASE moved[u] = threads[u]
      <3>1. threads[u].at \in InPut => threads[u].rid \notin R
        BY <2>1, <2>3 DEF Backing, PutOnce
      <3>2. threads'[u] = threads[u]
        BY <1>2, <2>3, <3>1 DEF InPut
      <3>3. threads[u].at # "gone" /\ (threads[u].at = "index" => threads[u].rid \in DOMAIN files /\ files[threads[u].rid])
        BY <2>1, <2>3 DEF Backing, PutBacked
      <3> QED BY <1>2, <3>1, <3>2, <3>3 DEF InPut
    <2> QED BY <1>3, <2>2, <2>3
  <1>9. EntriesBacked'
    BY <1>2 DEF Backing, EntriesBacked
  <1> QED BY <1>2, <1>b, <1>4, <1>5, <1>7, <1>8, <1>9 DEF Backing

\* The invariant in its parts.
LEMMA IInvParts ==
    IInv => ThreadsTyped /\ FilesTyped /\ Backing /\ Indexed \subseteq Rids
  BY IndexedAreBlocks DEF IInv, Backing, TypeOK, ThreadsTyped, FilesTyped

\* The invariant of the next state from its parts.
LEMMA IInvFrom ==
    ASSUME NEW S \in SUBSET Rids, Lists(lru', S), currentSize' = Total(S),
           ThreadsTyped', FilesTyped', Backing',
           got' \in Results, left' \subseteq Rids, again' \subseteq Rids
    PROVE  IInv'
  <1>1. /\ lru' \in Seq(Rids) /\ (\A i, j \in DOMAIN lru' : lru'[i] = lru'[j] => i = j)
        /\ Indexed' = S
    BY NewIndex
  <1>2. currentSize' \in Nat /\ SizeIsSum'
    <2>1. Total(S) \in Nat
      BY TotalFinite
    <2>2. (Total(Indexed))' = Total(S)
      BY <1>1 DEF Total
    <2> QED BY <2>1, <2>2 DEF SizeIsSum
  <1> QED BY <1>1, <1>2 DEF IInv, TypeOK, Backing, ThreadsTyped, FilesTyped

\* The history of blocks that are put again, when a thread begins a put.
LEMMA PutBegins ==
    ASSUME IInv, NEW t \in Threads, NEW r \in Rids, threads[t].at = "idle",
           again' = IF r \in Indexed \/ Putting(r) THEN again \cup {r} ELSE again,
           NEW moved, moved = [threads EXCEPT ![t] = [at |-> "open", rid |-> r]]
    PROVE  /\ moved \in [Threads -> [at: Points, rid: Rids]]
           /\ again \subseteq again' /\ again' \subseteq Rids
           /\ \A u \in Threads : moved[u] = threads[u] \/ Begins(u, moved, again')
  <1>1. ThreadsTyped
    BY IInvParts
  <1>2. moved \in [Threads -> [at: Points, rid: Rids]]
    BY <1>1 DEF ThreadsTyped, Points
  <1>3. again \subseteq again' /\ again' \subseteq Rids
    BY DEF IInv, TypeOK
  <1>4. moved[t] = [at |-> "open", rid |-> r] /\ \A u \in Threads : u # t => moved[u] = threads[u]
    BY <1>1 DEF ThreadsTyped
  <1>5. Begins(t, moved, again')
    <2>1. moved[t].rid = r /\ moved[t].at = "open"
      BY <1>4
    <2>2. ASSUME r \notin again'
          PROVE  r \notin Indexed /\ \A v \in Threads : moved[v].at \in InPut /\ moved[v].rid = r => v = t
      <3>1. r \notin Indexed /\ ~Putting(r)
        BY <2>2
      <3> QED BY <1>4, <3>1 DEF Putting, InPut
    <2> QED BY <2>1, <2>2 DEF Begins
  <1> QED BY <1>2, <1>3, <1>4, <1>5

\* put, up to the write, preserves the invariant.
LEMMA PutEvictPreserves ==
    ASSUME IInv, NEW t \in Threads, NEW r \in Rids, PutEvict(t, r)
    PROVE  IInv'
  <1> DEFINE k == EvictCount(SizeOf[r])
             V == Range(SubSeq(lru, 1, k))
             moved == [threads EXCEPT ![t] = [at |-> "open", rid |-> r]]
  <1>1. TypeOK /\ Backing /\ Indexed \subseteq Rids /\ SizeOf[r] \in Nat
    BY IInvParts, BlockCacheAssumption DEF IInv
  <1>2. k \in 0..Len(lru)
    BY <1>1, EvictMakesRoom
  <1>3. /\ threads[t].at = "idle"
        /\ lru' = SubSeq(lru, k + 1, Len(lru))
        /\ currentSize' = currentSize - Total(V)
        /\ RemoveFiles(V, moved)
        /\ again' = IF r \in Indexed \/ Putting(r) THEN again \cup {r} ELSE again
        /\ got' = got
    BY DEF PutEvict
  <1>4. lru \in Seq(Rids) /\ Distinct(lru)
    BY <1>1 DEF TypeOK, Distinct
  <1> HIDE DEF k
  <1>5. Lists(lru', Indexed \ V) /\ V \subseteq Indexed
    BY <1>2, <1>3, <1>4, DropFirst DEF Indexed
  <1> HIDE DEF V
  <1>6. currentSize' = Total(Indexed \ V)
    <2>1. currentSize = Total(Indexed)
      BY DEF IInv, SizeIsSum
    <2> QED BY <1>1, <1>3, <1>5, <2>1, TotalDrops
  <1>7. Indexed \ V \in SUBSET Rids /\ Indexed' = Indexed \ V
    BY <1>1, <1>5, NewIndex
  <1>8. /\ moved \in [Threads -> [at: Points, rid: Rids]]
        /\ again \subseteq again' /\ again' \subseteq Rids
        /\ \A u \in Threads : moved[u] = threads[u] \/ Begins(u, moved, again')
    BY <1>3, PutBegins
  <1> HIDE DEF moved
  <1>9. ThreadsTyped' /\ FilesTyped' /\ Backing' /\ left' \subseteq Rids
    BY <1>1, <1>3, <1>5, <1>7, <1>8, RemovalKeepsBacking
  <1>10. got' \in Results
    BY <1>1, <1>3 DEF TypeOK
  <1> QED BY <1>5, <1>6, <1>7, <1>8, <1>9, <1>10, IInvFrom

\* remove and clear preserve the invariant.
LEMMA RemovePreserves ==
    ASSUME IInv, NEW t \in Threads,
           (\E r \in Rids : Remove(t, r)) \/ Clear(t)
    PROVE  IInv'
  <1>1. TypeOK /\ Backing /\ Indexed \subseteq Rids /\ threads \in [Threads -> [at: Points, rid: Rids]]
    BY IInvParts DEF IInv, TypeOK
  <1>2. got' = got /\ again' = again
    BY DEF Remove, Clear
  <1>3. got' \in Results /\ again' \subseteq Rids
    BY <1>1, <1>2 DEF TypeOK
  <1>4. currentSize = Total(Indexed)
    BY DEF IInv, SizeIsSum
  <1>5. ASSUME NEW R \in SUBSET Indexed, RemoveFiles(R, threads),
               Lists(lru', Indexed \ R), currentSize' = Total(Indexed \ R)
        PROVE  IInv'
    <2>1. Indexed \ R \in SUBSET Rids /\ Indexed' = Indexed \ R
      BY <1>1, <1>5, NewIndex
    <2>2. ThreadsTyped' /\ FilesTyped' /\ Backing' /\ left' \subseteq Rids
      BY <1>1, <1>2, <1>5, <2>1, RemovalKeepsBacking
    <2> QED BY <1>3, <1>5, <2>1, <2>2, IInvFrom
  <1>6. ASSUME NEW r \in Rids, Remove(t, r)
        PROVE  IInv'
    <2>1. /\ r \in Indexed /\ lru' = Without(r) /\ currentSize' = currentSize - SizeOf[r]
          /\ RemoveFiles({r}, threads)
      BY <1>6 DEF Remove
    <2>2. Lists(lru', Indexed \ {r})
      BY <1>1, <2>1, IndexSteps
    <2>3. currentSize' = Total(Indexed \ {r})
      <3>1. {r} \in SUBSET Indexed /\ Total({r}) = SizeOf[r]
        BY <2>1, TotalOne
      <3>2. Total(Indexed \ {r}) = Total(Indexed) - Total({r})
        BY <1>1, <3>1, TotalDrops
      <3> QED BY <1>4, <2>1, <3>1, <3>2
    <2>4. {r} \in SUBSET Indexed
      BY <2>1
    <2> QED BY <1>5, <2>1, <2>2, <2>3, <2>4
  <1>7. ASSUME Clear(t)
        PROVE  IInv'
    <2>1. lru' = <<>> /\ currentSize' = 0 /\ RemoveFiles(Indexed, threads)
      BY <1>7 DEF Clear
    <2>2. Lists(<<>>, {})
      BY DEF Lists, Distinct, Range
    <2>3. Indexed \ Indexed = {}
      OBVIOUS
    <2>4. Lists(lru', Indexed \ Indexed) /\ currentSize' = Total(Indexed \ Indexed)
      BY <2>1, <2>2, <2>3, TotalOne, Zenon
    <2> QED BY <1>5, <2>1, <2>4
  <1> QED BY <1>6, <1>7

\* A step that leaves the index alone leaves the sum alone.
LEMMA SameIndex ==
    ASSUME IInv, lru' = lru, currentSize' = currentSize,
           ThreadsTyped', FilesTyped', Backing',
           got' \in Results, left' \subseteq Rids, again' \subseteq Rids
    PROVE  IInv'
  <1>1. Lists(lru', Indexed) /\ Indexed \in SUBSET Rids
    BY IInvParts DEF IInv, TypeOK, Lists, Distinct, Indexed
  <1>2. currentSize' = Total(Indexed)
    BY DEF IInv, SizeIsSum
  <1> QED BY <1>1, <1>2, IInvFrom

\* Opening the file preserves the invariant.
LEMMA PutOpenPreserves ==
    ASSUME IInv, NEW t \in Threads, PutOpen(t)
    PROVE  IInv'
  <1> DEFINE r == threads[t].rid
  <1>1. TypeOK /\ ThreadsTyped /\ FilesTyped /\ Backing /\ r \in Rids
    BY IInvParts DEF IInv, ThreadsTyped
  <1>2. /\ threads[t].at = "open" /\ threads' = Goto(t, "write") /\ left' = left \ {r}
        /\ files' = [s \in DOMAIN files \cup {r} |-> IF s = r THEN FALSE ELSE files[s]]
        /\ lru' = lru /\ currentSize' = currentSize /\ got' = got /\ again' = again
    BY DEF PutOpen
  <1>3. got' \in Results /\ left' \subseteq Rids /\ again' \subseteq Rids
    BY <1>1, <1>2 DEF TypeOK
  <1>4. /\ ThreadsTyped' /\ threads'[t].at = "write" /\ threads'[t].rid = r
        /\ \A u \in Threads : u # t => threads'[u] = threads[u]
    BY <1>1, <1>2, GotoStep DEF Points
  <1>5. /\ FilesTyped' /\ DOMAIN files' = DOMAIN files \cup {r} /\ files'[r] = FALSE
        /\ \A s \in DOMAIN files : s # r => files'[s] = files[s]
    BY <1>1, <1>2 DEF FilesTyped
  <1>6. Indexed' = Indexed
    BY <1>2 DEF Indexed
  <1> HIDE DEF r
  <1>7. r = threads[t].rid
    BY DEF r
  <1>8. WritesToFile'
    BY <1>1, <1>4, <1>5 DEF Backing, WritesToFile
  <1>9. WrittenIsIndexed'
    <2> SUFFICES ASSUME NEW s \in DOMAIN files' \ left', files'[s]
                 PROVE  s \in Indexed' \/ \E u \in Threads : threads'[u].rid = s /\ threads'[u].at = "index"
      BY DEF WrittenIsIndexed
    <2>1. s # r /\ s \in DOMAIN files \ left /\ files[s]
      BY <1>2, <1>5
    <2>2. s \in Indexed \/ \E u \in Threads : threads[u].rid = s /\ threads[u].at = "index"
      BY <1>1, <2>1 DEF Backing, WrittenIsIndexed
    <2> QED BY <1>2, <1>4, <1>6, <2>2
  <1>10. \A u \in Threads : threads'[u].rid = threads[u].rid /\ (threads'[u].at \in InPut <=> threads[u].at \in InPut)
    BY <1>2, <1>4, <1>7 DEF InPut
  <1>11. PutOnce'
    BY <1>1, <1>2, <1>6, <1>10 DEF Backing, PutOnce
  <1>12. r \notin again => r \notin Indexed /\ \A u \in Threads : threads[u].at \in InPut /\ threads[u].rid = r => u = t
    BY <1>1, <1>2, <1>7 DEF Backing, PutOnce, InPut
  <1>13. PutBacked'
    <2> SUFFICES ASSUME NEW u \in Threads, threads'[u].rid \notin again'
                 PROVE  /\ threads'[u].at # "gone"
                        /\ threads'[u].at = "index" => threads'[u].rid \in DOMAIN files' /\ files'[threads'[u].rid]
      BY DEF PutBacked
    <2>1. CASE u = t
      BY <1>4, <2>1
    <2>2. CASE u # t
      <3>1. threads'[u] = threads[u] /\ threads[u].rid \notin again
        BY <1>2, <1>4, <2>2
      <3>2. threads[u].at # "gone" /\ (threads[u].at = "index" => threads[u].rid \in DOMAIN files /\ files[threads[u].rid])
        BY <1>1, <3>1 DEF Backing, PutBacked
      <3>3. threads[u].at = "index" => threads[u].rid # r
        BY <1>12, <2>2, <3>1 DEF InPut
      <3> QED BY <1>5, <3>1, <3>2, <3>3
    <2> QED BY <2>1, <2>2
  <1>14. EntriesBacked'
    BY <1>1, <1>2, <1>5, <1>6, <1>12 DEF Backing, EntriesBacked
  <1>15. Backing'
    BY <1>8, <1>9, <1>11, <1>13, <1>14 DEF Backing
  <1> QED BY <1>2, <1>3, <1>4, <1>5, <1>15, SameIndex

\* Writing the file, or failing to, preserves the invariant.
LEMMA PutWritePreserves ==
    ASSUME IInv, NEW t \in Threads, PutWrite(t)
    PROVE  IInv'
  <1> DEFINE r == threads[t].rid
  <1>1. TypeOK /\ ThreadsTyped /\ FilesTyped /\ Backing /\ r \in Rids
    BY IInvParts DEF IInv, ThreadsTyped
  <1>2. /\ threads[t].at \in {"write", "gone"}
        /\ lru' = lru /\ currentSize' = currentSize /\ got' = got /\ left' = left /\ again' = again
    BY DEF PutWrite
  <1>3. got' \in Results /\ left' \subseteq Rids /\ again' \subseteq Rids /\ Indexed' = Indexed
    BY <1>1, <1>2 DEF TypeOK, Indexed
  <1>4. ASSUME NEW at \in {"index", "idle"}, threads' = Goto(t, at)
        PROVE  /\ ThreadsTyped' /\ threads'[t].at = at /\ threads'[t].rid = r
               /\ \A u \in Threads : u # t => threads'[u] = threads[u]
    BY <1>1, <1>4, GotoStep DEF Points
  <1>5. threads[t].at = "write" => r \in DOMAIN files
    BY <1>1 DEF Backing, WritesToFile
  <1> HIDE DEF r
  <1>6. r = threads[t].rid
    BY DEF r
  <1>7. CASE /\ files' = IF threads[t].at = "write" THEN [files EXCEPT ![r] = TRUE] ELSE files
             /\ threads' = Goto(t, "index")
    <2>1. /\ ThreadsTyped' /\ threads'[t].at = "index" /\ threads'[t].rid = r
          /\ \A u \in Threads : u # t => threads'[u] = threads[u]
      BY <1>4, <1>7
    <2>2. /\ FilesTyped' /\ DOMAIN files' = DOMAIN files
          /\ \A s \in DOMAIN files : s # r => files'[s] = files[s]
          /\ threads[t].at = "write" => files'[r] = TRUE
          /\ files[r] => files'[r]
      <3>1. CASE threads[t].at = "write"
        BY <1>1, <1>5, <1>7, <3>1 DEF FilesTyped
      <3>2. CASE threads[t].at # "write"
        BY <1>1, <1>7, <3>2 DEF FilesTyped
      <3> QED BY <3>1, <3>2
    <2>3. WritesToFile'
      BY <1>1, <2>1, <2>2 DEF Backing, WritesToFile
    <2>4. WrittenIsIndexed'
      <3> SUFFICES ASSUME NEW s \in DOMAIN files' \ left', files'[s]
                   PROVE  s \in Indexed' \/ \E u \in Threads : threads'[u].rid = s /\ threads'[u].at = "index"
        BY DEF WrittenIsIndexed
      <3>1. CASE s = r
        BY <2>1, <3>1
      <3>2. CASE s # r
        <4>1. s \in Indexed \/ \E u \in Threads : threads[u].rid = s /\ threads[u].at = "index"
          BY <1>1, <1>2, <2>2, <3>2 DEF Backing, WrittenIsIndexed
        <4> QED BY <1>3, <1>6, <2>1, <3>2, <4>1
      <3> QED BY <3>1, <3>2
    <2>5. \A u \in Threads : threads'[u].rid = threads[u].rid /\ (threads'[u].at \in InPut <=> threads[u].at \in InPut)
      BY <1>2, <1>6, <2>1 DEF InPut
    <2>6. PutOnce'
      BY <1>1, <1>2, <1>3, <2>5 DEF Backing, PutOnce
    <2>7. PutBacked'
      <3> SUFFICES ASSUME NEW u \in Threads, threads'[u].rid \notin again'
                   PROVE  /\ threads'[u].at # "gone"
                          /\ threads'[u].at = "index" => threads'[u].rid \in DOMAIN files' /\ files'[threads'[u].rid]
        BY DEF PutBacked
      <3>1. threads[u].at # "gone" /\ (threads[u].at = "index" => threads[u].rid \in DOMAIN files /\ files[threads[u].rid])
        BY <1>1, <1>2, <2>5 DEF Backing, PutBacked
      <3>2. CASE u = t
        BY <1>2, <1>5, <2>1, <2>2, <3>1, <3>2
      <3>3. CASE u # t
        BY <2>1, <2>2, <3>1, <3>3
      <3> QED BY <3>2, <3>3
    <2>8. EntriesBacked'
      BY <1>1, <1>2, <1>3, <2>2 DEF Backing, EntriesBacked
    <2>9. Backing'
      BY <2>3, <2>4, <2>6, <2>7, <2>8 DEF Backing
    <2> QED BY <1>2, <1>3, <2>1, <2>2, <2>9, SameIndex
  <1>8. CASE threads' = Goto(t, "idle") /\ files' = files
    <2>1. /\ ThreadsTyped' /\ threads'[t].at = "idle" /\ threads'[t].rid = r
          /\ \A u \in Threads : u # t => threads'[u] = threads[u]
      BY <1>4, <1>8
    <2>2. WritesToFile' /\ EntriesBacked'
      BY <1>1, <1>2, <1>3, <1>8, <2>1 DEF Backing, WritesToFile, EntriesBacked
    <2>3. WrittenIsIndexed'
      BY <1>1, <1>2, <1>3, <1>8, <2>1 DEF Backing, WrittenIsIndexed
    <2>4. PutOnce' /\ PutBacked'
      BY <1>1, <1>2, <1>3, <1>8, <2>1 DEF Backing, PutOnce, PutBacked, InPut
    <2>5. Backing' /\ FilesTyped'
      BY <1>1, <1>8, <2>2, <2>3, <2>4 DEF Backing, FilesTyped
    <2> QED BY <1>2, <1>3, <2>1, <2>5, SameIndex
  <1> QED BY <1>7, <1>8 DEF PutWrite, r

\* The size of the index after an access to r that adds it if it is missing.
LEMMA TotalWith ==
    ASSUME NEW S \in SUBSET Rids, NEW r \in Rids
    PROVE  /\ Total(S \cup {r}) = Total(S) - (IF r \in S THEN SizeOf[r] ELSE 0) + SizeOf[r]
           /\ Total(S) \in Nat /\ SizeOf[r] \in Nat
  <1>1. Total(S) \in Nat /\ SizeOf[r] \in Nat /\ Total({r}) = SizeOf[r]
    BY TotalFinite, TotalOne
  <1>2. CASE r \in S
    <2>1. S \cup {r} = S
      BY <1>2
    <2>2. Total(S \cup {r}) = Total(S)
      BY <2>1, Zenon
    <2> QED BY <1>1, <1>2, <2>2
  <1>3. CASE r \notin S
    <2>1. S \cap {r} = {}
      BY <1>3
    <2>2. Total(S \cup {r}) = Total(S) + Total({r})
      BY <2>1, TotalAdds
    <2> QED BY <1>1, <1>3, <2>2
  <1> QED BY <1>2, <1>3

\* The end of put preserves the invariant.
LEMMA PutIndexPreserves ==
    ASSUME IInv, NEW t \in Threads, PutIndex(t)
    PROVE  IInv'
  <1> DEFINE r == threads[t].rid
  <1>1. TypeOK /\ ThreadsTyped /\ FilesTyped /\ Backing /\ r \in Rids /\ Indexed \subseteq Rids
    BY IInvParts DEF IInv, ThreadsTyped
  <1>2. /\ threads[t].at = "index" /\ threads' = Goto(t, "idle") /\ lru' = Touched(r)
        /\ currentSize' = currentSize - (IF r \in Indexed THEN SizeOf[r] ELSE 0) + SizeOf[r]
        /\ files' = files /\ got' = got /\ left' = left /\ again' = again
    BY DEF PutIndex
  <1>3. got' \in Results /\ left' \subseteq Rids /\ again' \subseteq Rids
    BY <1>1, <1>2 DEF TypeOK
  <1>4. /\ ThreadsTyped' /\ threads'[t].at = "idle" /\ threads'[t].rid = r
        /\ \A u \in Threads : u # t => threads'[u] = threads[u]
    BY <1>1, <1>2, GotoStep DEF Points
  <1> HIDE DEF r
  <1>5. r = threads[t].rid
    BY DEF r
  <1>6. Lists(lru', Indexed \cup {r})
    BY <1>1, <1>2, IndexSteps
  <1>7. Indexed' = Indexed \cup {r} /\ Indexed \cup {r} \in SUBSET Rids
    BY <1>1, <1>6, NewIndex
  <1>8. currentSize' = Total(Indexed \cup {r})
    <2>1. currentSize = Total(Indexed)
      BY DEF IInv, SizeIsSum
    <2> QED BY <1>1, <1>2, <2>1, TotalWith
  <1>9. WritesToFile' /\ FilesTyped'
    BY <1>1, <1>2, <1>4 DEF Backing, WritesToFile, FilesTyped
  <1>10. WrittenIsIndexed'
    BY <1>1, <1>2, <1>4, <1>5, <1>7 DEF Backing, WrittenIsIndexed
  <1>11. PutOnce'
    <2> SUFFICES ASSUME NEW u \in Threads, threads'[u].at \in InPut, threads'[u].rid \notin again'
                 PROVE  /\ threads'[u].rid \notin Indexed'
                        /\ \A v \in Threads : threads'[v].at \in InPut /\ threads'[v].rid = threads'[u].rid => v = u
      BY DEF PutOnce
    <2>1. u # t /\ threads'[u] = threads[u]
      BY <1>4 DEF InPut
    <2>2. /\ threads[u].rid \notin Indexed
          /\ \A v \in Threads : threads[v].at \in InPut /\ threads[v].rid = threads[u].rid => v = u
      BY <1>1, <1>2, <2>1 DEF Backing, PutOnce
    <2>3. threads[u].rid # r
      BY <1>2, <1>5, <2>1, <2>2 DEF InPut
    <2> QED BY <1>4, <1>7, <2>1, <2>2, <2>3 DEF InPut
  <1>12. PutBacked'
    BY <1>1, <1>2, <1>4 DEF Backing, PutBacked
  <1>13. EntriesBacked'
    BY <1>1, <1>2, <1>5, <1>7 DEF Backing, EntriesBacked, PutBacked
  <1>14. Backing'
    BY <1>9, <1>10, <1>11, <1>12, <1>13 DEF Backing
  <1> QED BY <1>3, <1>4, <1>6, <1>7, <1>8, <1>9, <1>14, IInvFrom

\* A step of a get leaves what is said about puts as it is.
LEMMA GetKeepsBacking ==
    ASSUME Backing, FilesTyped, NEW t \in Threads, threads[t].at \in {"idle", "read"},
           threads'[t].at \in {"idle", "read"}, threads'[t].at \in Points,
           \A u \in Threads : u # t => threads'[u] = threads[u],
           Indexed' = Indexed, files' = files, left' = left, again' = again
    PROVE  Backing' /\ FilesTyped'
  <1>1. WritesToFile' /\ EntriesBacked' /\ FilesTyped'
    BY DEF Backing, WritesToFile, EntriesBacked, FilesTyped
  <1>2. WrittenIsIndexed'
    BY DEF Backing, WrittenIsIndexed
  <1>3. PutOnce' /\ PutBacked'
    BY DEF Backing, PutOnce, PutBacked, InPut
  <1> QED BY <1>1, <1>2, <1>3 DEF Backing

\* The locked part of get preserves the invariant.
LEMMA GetIndexPreserves ==
    ASSUME IInv, NEW t \in Threads, NEW r \in Rids, GetIndex(t, r)
    PROVE  IInv'
  <1>1. TypeOK /\ ThreadsTyped /\ FilesTyped /\ Backing /\ Indexed \subseteq Rids /\ currentSize = Total(Indexed)
    BY IInvParts DEF IInv, SizeIsSum
  <1>2. /\ threads[t].at = "idle" /\ currentSize' = currentSize
        /\ files' = files /\ left' = left /\ again' = again
    BY DEF GetIndex
  <1>3. left' \subseteq Rids /\ again' \subseteq Rids /\ got \in Results
    BY <1>1, <1>2 DEF TypeOK
  <1>4. CASE /\ r \in Indexed /\ lru' = Touched(r) /\ got' = got
             /\ threads' = [threads EXCEPT ![t] = [at |-> "read", rid |-> r]]
    <2>1. Indexed \cup {r} = Indexed
      BY <1>4
    <2>2. Lists(lru', Indexed)
      BY <1>1, <1>4, <2>1, IndexSteps
    <2>3. Indexed' = Indexed /\ Indexed \in SUBSET Rids
      BY <1>1, <2>2, NewIndex
    <2>4. ThreadsTyped' /\ threads'[t].at = "read" /\ \A u \in Threads : u # t => threads'[u] = threads[u]
      BY <1>1, <1>4 DEF ThreadsTyped, Points
    <2>5. Backing' /\ FilesTyped'
      BY <1>1, <1>2, <2>3, <2>4, GetKeepsBacking DEF Points
    <2> QED BY <1>1, <1>2, <1>3, <1>4, <2>2, <2>3, <2>4, <2>5, IInvFrom
  <1>5. CASE got' = "error" /\ lru' = lru /\ threads' = threads
    <2>1. Indexed' = Indexed /\ ThreadsTyped' /\ got' \in Results
      BY <1>1, <1>5 DEF Indexed, ThreadsTyped, Results
    <2>2. Backing' /\ FilesTyped'
      BY <1>1, <1>2, <1>5, <2>1, GetKeepsBacking DEF Points
    <2> QED BY <1>2, <1>3, <1>5, <2>1, <2>2, SameIndex
  <1> QED BY <1>4, <1>5 DEF GetIndex

\* Reading the file preserves the invariant.
LEMMA GetReadPreserves ==
    ASSUME IInv, NEW t \in Threads, GetRead(t)
    PROVE  IInv'
  <1>1. TypeOK /\ ThreadsTyped /\ FilesTyped /\ Backing
    BY IInvParts DEF IInv
  <1>2. /\ threads[t].at = "read" /\ threads' = Goto(t, "idle") /\ lru' = lru /\ currentSize' = currentSize
        /\ files' = files /\ left' = left /\ again' = again
    BY DEF GetRead
  <1>3. got' \in Results /\ left' \subseteq Rids /\ again' \subseteq Rids
    BY <1>1, <1>2 DEF TypeOK, GetRead, Results
  <1>4. ThreadsTyped' /\ threads'[t].at = "idle" /\ \A u \in Threads : u # t => threads'[u] = threads[u]
    BY <1>1, <1>2, GotoStep DEF Points
  <1>5. Indexed' = Indexed
    BY <1>2 DEF Indexed
  <1>6. Backing' /\ FilesTyped'
    BY <1>1, <1>2, <1>4, <1>5, GetKeepsBacking DEF Points
  <1> QED BY <1>2, <1>3, <1>4, <1>6, SameIndex

\* An empty index.
LEMMA EmptyIndex == Lists(<<>>, {}) /\ Total({}) = 0 /\ Range(<<>>) = {}
  BY TotalOne DEF Lists, Distinct, Range

\* A new process preserves the invariant: it leaves the files it finds to left.
LEMMA RestartPreserves == ASSUME IInv, Restart PROVE IInv'
  <1>1. TypeOK /\ ThreadsTyped /\ FilesTyped
    BY IInvParts DEF IInv
  <1>2. /\ lru' = <<>> /\ currentSize' = 0 /\ got' = "none" /\ left' = DOMAIN files /\ again' = {} /\ files' = files
        /\ threads' = [t \in Threads |-> [threads[t] EXCEPT !.at = "idle"]]
    BY DEF Restart
  <1>3. Lists(lru', {}) /\ currentSize' = Total({}) /\ Indexed' = {}
    BY <1>2, EmptyIndex DEF Indexed
  <1>4. ThreadsTyped' /\ \A t \in Threads : threads'[t].at = "idle"
    <2>1. \A t \in Threads : threads[t] \in [at: Points, rid: Rids]
      BY <1>1 DEF ThreadsTyped
    <2> QED BY <1>2, <2>1 DEF ThreadsTyped, Points
  <1>5. WritesToFile' /\ WrittenIsIndexed' /\ PutOnce' /\ PutBacked' /\ EntriesBacked'
    BY <1>2, <1>3, <1>4 DEF WritesToFile, WrittenIsIndexed, PutOnce, PutBacked, EntriesBacked, InPut
  <1>6. FilesTyped' /\ got' \in Results /\ left' \subseteq Rids /\ again' \subseteq Rids
    BY <1>1, <1>2 DEF FilesTyped, Results
  <1>7. Backing' /\ {} \in SUBSET Rids
    BY <1>5 DEF Backing
  <1> QED BY <1>3, <1>4, <1>6, <1>7, IInvFrom

\* The invariant holds at the beginning.
LEMMA InitIInv == Init => IInv
  <1> SUFFICES ASSUME Init PROVE IInv
    OBVIOUS
  <1>1. Indexed = {} /\ lru = <<>> /\ currentSize = 0
    BY EmptyIndex DEF Init, Indexed
  <1>2. SizeIsSum
    BY <1>1, EmptyIndex, Zenon DEF SizeIsSum
  <1>3. DOMAIN files = {} /\ files \in [{} -> BOOLEAN]
    BY DEF Init
  <1>4. TypeOK
    BY <1>1, <1>3 DEF Init, TypeOK, Points, Results
  <1>5. \A t \in Threads : threads[t].at = "idle"
    BY DEF Init
  <1>6. WritesToFile /\ WrittenIsIndexed /\ PutOnce /\ PutBacked /\ EntriesBacked
    BY <1>1, <1>3, <1>5 DEF WritesToFile, WrittenIsIndexed, PutOnce, PutBacked, EntriesBacked, InPut
  <1> QED BY <1>2, <1>4, <1>6 DEF IInv

\* Every step preserves the invariant.
LEMMA NextIInv == IInv /\ [Next]_vars => IInv'
  <1> SUFFICES ASSUME IInv, [Next]_vars PROVE IInv'
    OBVIOUS
  <1>1. ASSUME NEW t \in Threads, NEW r \in Rids, PutEvict(t, r)
        PROVE  IInv'
    BY <1>1, PutEvictPreserves
  <1>2. ASSUME NEW t \in Threads, NEW r \in Rids, GetIndex(t, r)
        PROVE  IInv'
    BY <1>2, GetIndexPreserves
  <1>3. ASSUME NEW t \in Threads, (\E r \in Rids : Remove(t, r)) \/ Clear(t)
        PROVE  IInv'
    BY <1>3, RemovePreserves
  <1>4. ASSUME NEW t \in Threads, PutOpen(t) \/ PutWrite(t) \/ PutIndex(t) \/ GetRead(t)
        PROVE  IInv'
    BY <1>4, PutOpenPreserves, PutWritePreserves, PutIndexPreserves, GetReadPreserves
  <1>5. CASE Restart
    BY <1>5, RestartPreserves
  <1>6. CASE UNCHANGED vars
    <2>1. Indexed' = Indexed /\ (Total(Indexed))' = Total(Indexed)
      BY <1>6 DEF vars, Indexed, Total
    <2>2. SizeIsSum'
      BY <1>6, <2>1 DEF vars, IInv, SizeIsSum
    <2> QED BY <1>6, <2>1, <2>2 DEF vars, IInv, TypeOK, WritesToFile, WrittenIsIndexed, PutOnce, PutBacked, EntriesBacked
  <1> QED BY <1>1, <1>2, <1>3, <1>4, <1>5, <1>6 DEF Next

\* The invariant holds in every reachable state.
LEMMA IInvAlways == Spec => []IInv
  BY InitIInv, NextIInv, PTL DEF Spec

-----------------------------------------------------------------------------
(* The theorems.                                                            *)

\* current_size is the sum of the sizes in the index, for any sizes, any number
\* of threads and whatever they put, evict, remove and clear between the locked
\* parts of a put: no subtraction from it underflows.
THEOREM SizeIsAlwaysSum == Spec => []SizeIsSum
  <1>1. IInv => SizeIsSum
    BY DEF IInv
  <1> QED BY <1>1, IInvAlways, PTL

\* A complete file that the index does not know is one that a thread is about to
\* put there, that an earlier process left or that remove_file could not remove:
\* no order of the steps makes another.
THEOREM FilesAreFound == Spec => []NoStrayFiles
  <1>1. IInv => NoStrayFiles
    BY DEF IInv, WrittenIsIndexed, NoStrayFiles, Putting
  <1> QED BY <1>1, IInvAlways, PTL

\* A block that is put once at a time, and not while it is in the index, has
\* its complete file for as long as its entry.
THEOREM EntriesStayBacked == Spec => []EntriesBacked
  <1>1. IInv => EntriesBacked
    BY DEF IInv
  <1> QED BY <1>1, IInvAlways, PTL

\* No other step than its read takes a thread out of a get, and a new process,
\* which takes out all, has an empty index.
LEMMA ReadsEnd ==
    ASSUME IInv, Next, NEW t \in Threads, threads[t].at = "read", threads'[t].at = "idle"
    PROVE  GetRead(t) \/ Indexed' = {}
  <1>1. ThreadsTyped /\ FilesTyped /\ Indexed \subseteq Rids /\ TypeOK
    BY IInvParts DEF IInv
  <1>2. ASSUME NEW u \in Threads, NEW at \in Points, threads' = Goto(u, at), u # t
        PROVE  FALSE
    BY <1>1, <1>2, GotoStep
  <1>3. ASSUME NEW R \in SUBSET Rids, NEW moved \in [Threads -> [at: Points, rid: Rids]],
               moved[t] = threads[t], RemoveFiles(R, moved)
        PROVE  FALSE
    <2>1. \E kept \in SUBSET (R \cap DOMAIN files) :
            left' = (left \ R) \cup kept /\ Removed(R \ kept, moved)
      BY <1>1, <1>3, RemovalSteps
    <2>2. PICK D : Removed(D, moved)
      BY <2>1
    <2> QED BY <1>3, <2>2 DEF Removed
  <1>4. ASSUME NEW u \in Threads, PutOpen(u) \/ PutWrite(u) \/ PutIndex(u)
        PROVE  FALSE
    <2>1. u # t
      BY <1>4 DEF PutOpen, PutWrite, PutIndex
    <2>2. PICK at \in Points : threads' = Goto(u, at)
      BY <1>4 DEF PutOpen, PutWrite, PutIndex, Points
    <2> QED BY <1>2, <2>1, <2>2
  <1>5. ASSUME NEW u \in Threads, GetRead(u)
        PROVE  GetRead(t)
    <2>1. threads' = Goto(u, "idle") /\ "idle" \in Points
      BY <1>5 DEF GetRead, Points
    <2> QED BY <1>2, <1>5, <2>1
  <1>6. ASSUME NEW u \in Threads, NEW r \in Rids, GetIndex(u, r)
        PROVE  FALSE
    <2>1. threads' = threads \/ threads' = [threads EXCEPT ![u] = [at |-> "read", rid |-> r]]
      BY <1>6 DEF GetIndex
    <2> QED BY <1>1, <2>1 DEF ThreadsTyped
  <1>7. ASSUME NEW u \in Threads, (\E r \in Rids : Remove(u, r)) \/ Clear(u)
        PROVE  FALSE
    <2>1. PICK R \in SUBSET Rids : RemoveFiles(R, threads)
      BY <1>1, <1>7 DEF Remove, Clear
    <2> QED BY <1>1, <1>3, <2>1 DEF ThreadsTyped
  <1>8. ASSUME NEW u \in Threads, NEW r \in Rids, PutEvict(u, r)
        PROVE  FALSE
    <2> DEFINE k == EvictCount(SizeOf[r])
               V == Range(SubSeq(lru, 1, k))
               moved == [threads EXCEPT ![u] = [at |-> "open", rid |-> r]]
    <2>1. threads[u].at = "idle" /\ RemoveFiles(V, moved)
      BY <1>8 DEF PutEvict
    <2>2. moved \in [Threads -> [at: Points, rid: Rids]] /\ moved[t] = threads[t]
      BY <1>1, <2>1 DEF ThreadsTyped, Points
    <2>3. k \in 0..Len(lru) /\ lru \in Seq(Rids) /\ Distinct(lru)
      BY <1>1, EvictMakesRoom, BlockCacheAssumption DEF TypeOK, Distinct
    <2> HIDE DEF k, moved
    <2>4. V \in SUBSET Rids
      BY <2>3, DropFirst
    <2> HIDE DEF V
    <2> QED BY <1>3, <2>1, <2>2, <2>4
  <1>9. CASE Restart
    BY <1>9, EmptyIndex DEF Restart, Indexed
  <1> QED BY <1>4, <1>5, <1>6, <1>7, <1>8, <1>9 DEF Next

\* For any number of threads and any sizes: a get that found its block in the
\* index, and reads the file after others have put, evicted and removed blocks or
\* failed to, returns the data if the block is indexed when it reads, unless the
\* block was put twice.
THEOREM HitsAlwaysServed == Spec => HitsServed
  <1>1. ASSUME IInv, [Next]_vars
        PROVE  [\A t \in Threads :
                  threads[t].at = "read" /\ threads'[t].at = "idle" /\ threads[t].rid \in Indexed' \ again =>
                     got' = "data"]_vars
    <2> SUFFICES ASSUME Next, NEW t \in Threads, threads[t].at = "read", threads'[t].at = "idle",
                        threads[t].rid \in Indexed' \ again
                 PROVE  got' = "data"
      BY <1>1
    <2>1. GetRead(t)
      BY <1>1, ReadsEnd
    <2>2. Indexed' = Indexed
      BY <2>1 DEF GetRead, Indexed
    <2>3. threads[t].rid \in DOMAIN files /\ files[threads[t].rid]
      BY <1>1, <2>2 DEF IInv, EntriesBacked
    <2> QED BY <2>1, <2>3 DEF GetRead
  <1> QED BY <1>1, IInvAlways, PTL DEF Spec, HitsServed

-----------------------------------------------------------------------------
(* The bound on the overshoot.                                              *)

\* Largest is an upper bound of the sizes.
LEMMA LargestBounds == Largest \in Nat /\ \A r \in Rids : SizeOf[r] <= Largest
  <1> DEFINE S == {SizeOf[r] : r \in Rids}
             n == Total(Rids)
  <1>1. n \in Nat
    BY TotalFinite
  <1>2. ASSUME NEW r \in Rids
        PROVE  SizeOf[r] \in 0..n
    <2>1. {r} \in SUBSET Rids /\ Total({r}) = SizeOf[r] /\ SizeOf[r] \in Nat
      BY TotalOne
    <2>2. Total(Rids \ {r}) = n - Total({r}) /\ Total(Rids \ {r}) \in Nat
      BY <2>1, TotalDrops
    <2> HIDE DEF n
    <2> QED BY <1>1, <2>1, <2>2
  <1>3. S \in SUBSET (0..n) /\ S # {}
    BY <1>2, BlockCacheAssumption
  <1>4. Largest = Max(S)
    BY DEF Largest
  <1> HIDE DEF S, n
  <1>5. Largest \in S /\ \A x \in S : x <= Largest
    BY <1>1, <1>3, <1>4, Greatest
  <1> QED BY <1>1, <1>3, <1>5 DEF S

\* What the other threads can have under way at most.
Slack == (Cardinality(Threads) - 1) * Largest

\* The bytes that threads inside put are about to add to the index.
PutBytes ==
    {b \in Threads \X (1..Largest) : threads[b[1]].at \in InPut /\ b[2] <= SizeOf[threads[b[1]].rid]}

\* There is room for them within the bound: the invariant that OvershootBounded
\* needs, since an eviction only makes room for its own block.
Room == currentSize + Cardinality(PutBytes) <= MaxSize + Slack

\* The bytes under way are finitely many.
LEMMA PutBytesFinite == IsFiniteSet(PutBytes) /\ Cardinality(PutBytes) \in Nat
  <1>1. IsFiniteSet(1..Largest) /\ IsFiniteSet(Threads)
    BY LargestBounds, FS_Interval, BlockCacheAssumption
  <1>2. IsFiniteSet(Threads \X (1..Largest))
    BY <1>1, FS_Product
  <1>3. PutBytes \in SUBSET (Threads \X (1..Largest))
    BY DEF PutBytes
  <1>4. IsFiniteSet(PutBytes)
    BY <1>2, <1>3, FS_Subset
  <1> QED BY <1>4, FS_CardinalityType

\* The bytes of the threads other than t are within the slack.
LEMMA SlackCovers ==
    ASSUME NEW t \in Threads
    PROVE  /\ Slack \in Nat /\ IsFiniteSet((Threads \ {t}) \X (1..Largest))
           /\ Cardinality((Threads \ {t}) \X (1..Largest)) = Slack
  <1>1. IsFiniteSet(1..Largest) /\ Cardinality(1..Largest) = Largest /\ Largest \in Nat
    BY LargestBounds, FS_Interval
  <1>2. IsFiniteSet(Threads \ {t}) /\ Cardinality(Threads \ {t}) = Cardinality(Threads) - 1
    BY BlockCacheAssumption, FS_RemoveElement
  <1>3. /\ IsFiniteSet((Threads \ {t}) \X (1..Largest))
        /\ Cardinality((Threads \ {t}) \X (1..Largest)) = Cardinality(Threads \ {t}) * Cardinality(1..Largest)
    BY <1>1, <1>2, FS_Product
  <1>4. Cardinality((Threads \ {t}) \X (1..Largest)) = Slack
    BY <1>1, <1>2, <1>3, Zenon DEF Slack
  <1>5. Cardinality((Threads \ {t}) \X (1..Largest)) \in Nat
    BY <1>3, FS_CardinalityType
  <1> QED BY <1>3, <1>4, <1>5

\* With nothing added to the index or begun, there is still room.
LEMMA RoomStays ==
    ASSUME Room, currentSize \in Nat, currentSize' \in Nat, currentSize' <= currentSize,
           PutBytes' \subseteq PutBytes
    PROVE  Room'
  <1>1. IsFiniteSet(PutBytes) /\ Cardinality(PutBytes) \in Nat
    BY PutBytesFinite
  <1>2. Cardinality(PutBytes') <= Cardinality(PutBytes)
    BY <1>1, FS_Subset
  <1>3. IsFiniteSet(PutBytes')
    BY <1>1, FS_Subset
  <1>4. Cardinality(PutBytes') \in Nat
    BY <1>3, FS_CardinalityType
  <1>5. MaxSize \in Nat /\ Slack \in Nat
    BY BlockCacheAssumption, SlackCovers
  <1>6. Slack' = Slack
    BY DEF Slack, Largest
  <1>7. currentSize' + Cardinality(PutBytes') <= MaxSize + Slack
    BY <1>1, <1>2, <1>4, <1>5 DEF Room
  <1> QED BY <1>6, <1>7 DEF Room

\* A put makes room for its own block.
LEMMA PutEvictRoom ==
    ASSUME IInv, IInv', \A r \in Rids : SizeOf[r] <= MaxSize,
           NEW t \in Threads, NEW r \in Rids, PutEvict(t, r)
    PROVE  Room'
  <1> DEFINE k == EvictCount(SizeOf[r])
             V == Range(SubSeq(lru, 1, k))
             moved == [threads EXCEPT ![t] = [at |-> "open", rid |-> r]]
  <1>1. TypeOK /\ FilesTyped /\ ThreadsTyped /\ SizeOf[r] \in Nat /\ MaxSize \in Nat /\ SizeOf[r] <= MaxSize
    BY IInvParts, BlockCacheAssumption DEF IInv
  <1>2. k \in 0..Len(lru) /\ (currentSize - Total(V) + SizeOf[r] <= MaxSize \/ k = Len(lru))
    BY <1>1, EvictMakesRoom
  <1>3. /\ lru' = SubSeq(lru, k + 1, Len(lru)) /\ currentSize' = currentSize - Total(V)
        /\ RemoveFiles(V, moved)
    BY DEF PutEvict
  <1>4. lru \in Seq(Rids) /\ Distinct(lru)
    BY <1>1 DEF TypeOK, Distinct
  <1> HIDE DEF k
  <1>5. V \subseteq Indexed /\ Indexed \subseteq Rids
    BY <1>2, <1>4, DropFirst DEF Indexed
  <1>6. currentSize' + SizeOf[r] <= MaxSize
    <2>1. CASE currentSize - Total(V) + SizeOf[r] <= MaxSize
      BY <1>3, <2>1
    <2>2. CASE k = Len(lru)
      <3>1. SubSeq(lru, 1, Len(lru)) = lru
        BY <1>4
      <3>2. V = Indexed
        BY <2>2, <3>1 DEF Indexed
      <3>3. currentSize = Total(Indexed) /\ currentSize \in Nat
        BY DEF IInv, SizeIsSum, TypeOK
      <3>4. currentSize' = currentSize - currentSize
        BY <1>3, <3>2, <3>3, Zenon
      <3> QED BY <1>1, <3>3, <3>4
    <2> QED BY <1>2, <2>1, <2>2
  <1>7. threads'[t].rid = r
    <2>1. moved \in [Threads -> [at: Points, rid: Rids]] /\ moved[t] = [at |-> "open", rid |-> r]
      BY <1>1 DEF ThreadsTyped, Points
    <2> HIDE DEF V
    <2>2. V \in SUBSET Rids
      BY <1>5
    <2>3. threads'[t].rid = moved[t].rid
      <3>1. FilesTyped /\ RemoveFiles(V, moved)
        BY <1>1, <1>3
      <3> HIDE DEF moved
      <3>2. \E kept \in SUBSET (V \cap DOMAIN files) :
              left' = (left \ V) \cup kept /\ Removed(V \ kept, moved)
        BY <2>1, <2>2, <3>1, RemovalSteps
      <3> QED BY <3>2 DEF Removed
    <2> QED BY <2>1, <2>3
  <1> DEFINE P == {t} \X (1..SizeOf[r])
             Q == (Threads \ {t}) \X (1..Largest)
  <1>8. PutBytes' \subseteq P \cup Q
    <2>1. PutBytes' = {b \in Threads \X (1..Largest) : threads'[b[1]].at \in InPut /\ b[2] <= SizeOf[threads'[b[1]].rid]}
      BY DEF PutBytes, Largest
    <2>2. ASSUME NEW u \in Threads, NEW n \in 1..Largest, <<u, n>> \in PutBytes'
          PROVE  <<u, n>> \in P \cup Q
      <3>1. n <= SizeOf[threads'[u].rid]
        BY <2>1, <2>2
      <3>2. CASE u = t
        <4>1. n \in 1..SizeOf[r]
          BY <1>1, <1>7, <3>1, <3>2
        <4> QED BY <3>2, <4>1
      <3>3. CASE u # t
        BY <3>3
      <3> QED BY <3>2, <3>3
    <2> HIDE DEF P, Q
    <2>3. \A b \in PutBytes' : \E u \in Threads, n \in 1..Largest : b = <<u, n>>
      BY <2>1
    <2> QED BY <2>2, <2>3
  <1>9. IsFiniteSet(P) /\ Cardinality(P) = SizeOf[r]
    <2>0. SizeOf[r] \in Nat
      BY <1>1
    <2>1. IsFiniteSet(1..SizeOf[r]) /\ Cardinality(1..SizeOf[r]) = SizeOf[r]
      BY <2>0, FS_Interval
    <2>2. IsFiniteSet({t}) /\ Cardinality({t}) = 1
      BY FS_Singleton
    <2>3. IsFiniteSet(P) /\ Cardinality(P) = 1 * SizeOf[r]
      BY <2>1, <2>2, FS_Product
    <2> QED BY <1>1, <2>3
  <1>10. IsFiniteSet(Q) /\ Cardinality(Q) = Slack /\ Slack \in Nat
    BY SlackCovers
  <1> HIDE DEF P, Q
  <1>11. IsFiniteSet(P \cup Q) /\ Cardinality(P \cup Q) <= SizeOf[r] + Slack
    <2>1. IsFiniteSet(P \cup Q) /\ Cardinality(P \cup Q) = Cardinality(P) + Cardinality(Q) - Cardinality(P \cap Q)
      BY <1>9, <1>10, FS_Union
    <2>2. IsFiniteSet(P \cap Q)
      BY <1>9, FS_Intersection
    <2>3. Cardinality(P \cap Q) \in Nat
      BY <2>2, FS_CardinalityType
    <2>4. Cardinality(P \cup Q) = SizeOf[r] + Slack - Cardinality(P \cap Q)
      BY <1>9, <1>10, <2>1, Zenon
    <2> QED BY <1>1, <1>10, <2>1, <2>3, <2>4
  <1>12. Cardinality(PutBytes') <= Cardinality(P \cup Q) /\ IsFiniteSet(PutBytes')
    BY <1>8, <1>11, FS_Subset
  <1>13. Cardinality(PutBytes') \in Nat /\ Cardinality(P \cup Q) \in Nat
    BY <1>11, <1>12, FS_CardinalityType
  <1>14. currentSize' \in Nat
    BY DEF IInv, TypeOK
  <1>15. currentSize' + Cardinality(PutBytes') <= MaxSize + Slack
    BY <1>1, <1>6, <1>10, <1>11, <1>12, <1>13, <1>14
  <1>16. Slack' = Slack
    BY DEF Slack, Largest
  <1> QED BY <1>15, <1>16 DEF Room

\* The end of a put moves its bytes from those under way to the index.
LEMMA PutIndexRoom ==
    ASSUME IInv, IInv', Room, NEW t \in Threads, PutIndex(t)
    PROVE  Room'
  <1> DEFINE r == threads[t].rid
             P == {t} \X (1..SizeOf[r])
  <1>1. ThreadsTyped /\ r \in Rids
    BY IInvParts DEF ThreadsTyped
  <1>2. SizeOf[r] \in Nat /\ SizeOf[r] <= Largest /\ Largest \in Nat
    BY <1>1, LargestBounds, BlockCacheAssumption
  <1>3. /\ threads[t].at = "index" /\ threads' = Goto(t, "idle")
        /\ currentSize' = currentSize - (IF r \in Indexed THEN SizeOf[r] ELSE 0) + SizeOf[r]
    BY DEF PutIndex
  <1>4. threads'[t].at = "idle" /\ \A u \in Threads : u # t => threads'[u] = threads[u]
    BY <1>1, <1>3, GotoStep DEF Points
  <1>5. currentSize \in Nat /\ currentSize' \in Nat /\ MaxSize \in Nat /\ Slack \in Nat /\ Slack' = Slack
    BY BlockCacheAssumption, SlackCovers DEF IInv, TypeOK, Slack, Largest
  <1> HIDE DEF r
  <1>6. PutBytes' = {b \in Threads \X (1..Largest) : threads'[b[1]].at \in InPut /\ b[2] <= SizeOf[threads'[b[1]].rid]}
    BY DEF PutBytes, Largest
  <1>7. P \subseteq PutBytes
    <2>1. ASSUME NEW n \in 1..SizeOf[r]
          PROVE  <<t, n>> \in PutBytes
      <3>1. n \in 1..Largest /\ n <= SizeOf[r]
        BY <1>2
      <3> QED BY <1>3, <3>1 DEF PutBytes, InPut, r
    <2> QED BY <2>1
  <1>8. PutBytes' \subseteq PutBytes \ P
    <2>1. ASSUME NEW u \in Threads, NEW n \in 1..Largest, <<u, n>> \in PutBytes'
          PROVE  <<u, n>> \in PutBytes \ P
      <3>1. threads'[u].at \in InPut /\ n <= SizeOf[threads'[u].rid]
        BY <1>6, <2>1
      <3>2. u # t
        BY <1>4, <3>1 DEF InPut
      <3> QED BY <1>4, <3>1, <3>2 DEF PutBytes
    <2>2. \A b \in PutBytes' : \E u \in Threads, n \in 1..Largest : b = <<u, n>>
      BY <1>6
    <2> HIDE DEF P
    <2> QED BY <2>1, <2>2
  <1>9. Cardinality(P) = SizeOf[r]
    <2>0. SizeOf[r] \in Nat
      BY <1>2
    <2>1. IsFiniteSet(1..SizeOf[r]) /\ Cardinality(1..SizeOf[r]) = SizeOf[r]
      BY <2>0, FS_Interval
    <2>2. IsFiniteSet({t}) /\ Cardinality({t}) = 1
      BY FS_Singleton
    <2>3. Cardinality(P) = 1 * SizeOf[r]
      BY <2>1, <2>2, FS_Product
    <2> QED BY <2>0, <2>3
  <1> HIDE DEF P
  <1>10. IsFiniteSet(PutBytes) /\ Cardinality(PutBytes) \in Nat
    BY PutBytesFinite
  <1>11. IsFiniteSet(PutBytes \ P) /\ Cardinality(PutBytes \ P) = Cardinality(PutBytes) - SizeOf[r]
    <2>1. PutBytes \cap P = P
      BY <1>7
    <2>2. IsFiniteSet(PutBytes \ P) /\ Cardinality(PutBytes \ P) = Cardinality(PutBytes) - Cardinality(PutBytes \cap P)
      BY <1>10, FS_Difference
    <2> QED BY <1>9, <2>1, <2>2, Zenon
  <1>12. Cardinality(PutBytes') <= Cardinality(PutBytes \ P) /\ IsFiniteSet(PutBytes')
    BY <1>8, <1>11, FS_Subset
  <1>13. Cardinality(PutBytes') \in Nat
    BY <1>12, FS_CardinalityType
  <1>14. currentSize' <= currentSize + SizeOf[r]
    BY <1>2, <1>3, <1>5
  <1>15. currentSize + Cardinality(PutBytes) <= MaxSize + Slack
    BY DEF Room
  <1>16. currentSize' + Cardinality(PutBytes') <= MaxSize + Slack
    BY <1>2, <1>5, <1>10, <1>11, <1>12, <1>13, <1>14, <1>15
  <1> QED BY <1>5, <1>16 DEF Room

\* The other steps add nothing to the index and begin no put.
LEMMA OthersRoom ==
    ASSUME IInv, IInv', Room, NEW t \in Threads,
           \/ \E r \in Rids : GetIndex(t, r) \/ Remove(t, r)
           \/ PutOpen(t) \/ PutWrite(t) \/ GetRead(t) \/ Clear(t)
    PROVE  Room'
  <1>1. currentSize \in Nat /\ currentSize' \in Nat /\ ThreadsTyped /\ FilesTyped /\ Indexed \subseteq Rids
    BY IInvParts DEF IInv, TypeOK
  <1>2. currentSize' <= currentSize
    <2>1. ASSUME NEW r \in Rids, Remove(t, r)
          PROVE  currentSize' <= currentSize
      <3>1. currentSize' = currentSize - SizeOf[r] /\ SizeOf[r] \in Nat
        BY <2>1, BlockCacheAssumption DEF Remove
      <3> QED BY <1>1, <3>1
    <2>2. CASE Clear(t)
      BY <1>1, <2>2 DEF Clear
    <2>3. CASE (\E r \in Rids : GetIndex(t, r)) \/ PutOpen(t) \/ PutWrite(t) \/ GetRead(t)
      <3>1. currentSize' = currentSize
        BY <2>3 DEF GetIndex, PutOpen, PutWrite, GetRead
      <3> QED BY <1>1, <3>1
    <2> QED BY <2>1, <2>2, <2>3
  <1>3. \A u \in Threads : threads'[u].at \in InPut => threads[u].at \in InPut /\ threads'[u].rid = threads[u].rid
    <2>1. ASSUME NEW R \in SUBSET Rids, RemoveFiles(R, threads)
          PROVE  \A u \in Threads : threads'[u].at \in InPut => threads[u].at \in InPut /\ threads'[u].rid = threads[u].rid
      <3>1. \E kept \in SUBSET (R \cap DOMAIN files) :
              left' = (left \ R) \cup kept /\ Removed(R \ kept, threads)
        BY <1>1, <2>1, RemovalSteps DEF ThreadsTyped
      <3>2. PICK D : Removed(D, threads)
        BY <3>1
      <3> QED BY <3>2 DEF Removed, InPut
    <2>2. CASE (\E r \in Rids : Remove(t, r)) \/ Clear(t)
      <3>1. PICK R \in SUBSET Rids : RemoveFiles(R, threads)
        BY <1>1, <2>2 DEF Remove, Clear
      <3> QED BY <2>1, <3>1
    <2>3. ASSUME NEW r \in Rids, GetIndex(t, r)
          PROVE  \A u \in Threads : threads'[u].at \in InPut => threads[u].at \in InPut /\ threads'[u].rid = threads[u].rid
      <3>1. threads' = threads \/ threads' = [threads EXCEPT ![t] = [at |-> "read", rid |-> r]]
        BY <2>3 DEF GetIndex
      <3> QED BY <1>1, <3>1 DEF ThreadsTyped, InPut
    <2>4. CASE PutOpen(t) \/ PutWrite(t) \/ GetRead(t)
      <3>1. PICK at \in Points : threads' = Goto(t, at) /\ (at \in InPut => threads[t].at \in InPut)
        BY <2>4 DEF PutOpen, PutWrite, GetRead, Points, InPut
      <3>2. /\ threads'[t].at = at /\ threads'[t].rid = threads[t].rid
            /\ \A u \in Threads : u # t => threads'[u] = threads[u]
        BY <1>1, <3>1, GotoStep
      <3> QED BY <3>1, <3>2
    <2> QED BY <2>2, <2>3, <2>4
  <1>4. PutBytes' \subseteq PutBytes
    <2>1. PutBytes' = {b \in Threads \X (1..Largest) : threads'[b[1]].at \in InPut /\ b[2] <= SizeOf[threads'[b[1]].rid]}
      BY DEF PutBytes, Largest
    <2> QED BY <1>3, <2>1 DEF PutBytes
  <1> QED BY <1>1, <1>2, <1>4, RoomStays

\* With no thread inside put and nothing indexed, there is room.
LEMMA EmptyRoom ==
    currentSize = 0 /\ (\A t \in Threads : threads[t].at = "idle") => Room
  <1> SUFFICES ASSUME currentSize = 0, \A t \in Threads : threads[t].at = "idle"
               PROVE  Room
    OBVIOUS
  <1>1. PutBytes = {}
    BY DEF PutBytes, InPut
  <1>2. Cardinality(PutBytes) = 0
    BY <1>1, FS_EmptySet
  <1>3. MaxSize \in Nat /\ Slack \in Nat
    BY BlockCacheAssumption, SlackCovers
  <1> QED BY <1>2, <1>3 DEF Room

\* If every block fits into the cache, threads that put at the same time overshoot
\* max_size by at most one block for each other thread, for any number of
\* threads.  (A block larger than max_size is put all the same: evict_if_needed
\* stops at an empty index.)
THEOREM OvershootStaysBounded ==
    ASSUME \A r \in Rids : SizeOf[r] <= MaxSize
    PROVE  Spec => []OvershootBounded
  <1>1. Init => Room
    <2> SUFFICES ASSUME Init PROVE Room
      OBVIOUS
    <2>1. currentSize = 0 /\ \A t \in Threads : threads[t].at = "idle"
      BY DEF Init
    <2> QED BY <2>1, EmptyRoom
  <1>2. IInv /\ IInv' /\ Room /\ [Next]_vars => Room'
    <2> SUFFICES ASSUME IInv, IInv', Room, [Next]_vars PROVE Room'
      OBVIOUS
    <2>1. ASSUME NEW t \in Threads, NEW r \in Rids, PutEvict(t, r)
          PROVE  Room'
      BY <2>1, PutEvictRoom
    <2>2. ASSUME NEW t \in Threads, PutIndex(t)
          PROVE  Room'
      BY <2>2, PutIndexRoom
    <2>3. ASSUME NEW t \in Threads,
                 \/ \E r \in Rids : GetIndex(t, r) \/ Remove(t, r)
                 \/ PutOpen(t) \/ PutWrite(t) \/ GetRead(t) \/ Clear(t)
          PROVE  Room'
      BY <2>3, OthersRoom
    <2>4. CASE Restart
      <3>1. (currentSize = 0 /\ \A t \in Threads : threads[t].at = "idle")'
        <4>1. \A t \in Threads : threads[t] \in [at: Points, rid: Rids]
          BY DEF IInv, TypeOK
        <4> QED BY <2>4, <4>1 DEF Restart
      <3>2. (currentSize = 0 /\ \A t \in Threads : threads[t].at = "idle")' => Room'
        BY EmptyRoom, PTL
      <3> QED BY <3>1, <3>2
    <2>5. CASE UNCHANGED vars
      BY <2>5 DEF vars, Room, PutBytes, Slack, Largest
    <2> QED BY <2>1, <2>2, <2>3, <2>4, <2>5 DEF Next
  <1>3. IInv /\ Room => OvershootBounded
    <2> SUFFICES ASSUME IInv, Room PROVE OvershootBounded
      OBVIOUS
    <2>1. Cardinality(PutBytes) \in Nat /\ Slack \in Nat /\ MaxSize \in Nat /\ currentSize \in Nat
      BY PutBytesFinite, SlackCovers, BlockCacheAssumption DEF IInv, TypeOK
    <2>2. currentSize + Cardinality(PutBytes) <= MaxSize + Slack
      BY DEF Room
    <2>3. currentSize <= MaxSize + Slack
      BY <2>1, <2>2
    <2> QED BY <2>3 DEF OvershootBounded, Slack
  <1> QED BY <1>1, <1>2, <1>3, IInvAlways, PTL DEF Spec
=============================================================================
