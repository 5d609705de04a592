----------------------------- MODULE BlockCache -----------------------------
(***************************************************************************)
(* The local cache of blocks: an index with its total size behind a mutex, *)
(* and one file per block, written and read without the mutex.  Threads    *)
(* that share the cache interleave between the locked parts of put and get *)
(* and the system calls on the files.                                      *)
(*                                                                         *)
(* A block's content never changes (its id is random), so a file is        *)
(* complete or not.  access_order grows with every access and is only      *)
(* compared: the index is kept as the sequence of its blocks from the      *)
(* least to the most recently used.  Hits and misses are not counted.      *)
(***************************************************************************)
EXTENDS Naturals, Sequences, FiniteSets, FiniteSetsExt, Functions

CONSTANTS
    Threads,        \* the threads that share the cache
    Rids,           \* the ids of blocks
    SizeOf,         \* the size of each block as written to disk
    MaxSize,        \* CacheConfig.max_size
    EncryptAtRest,  \* CacheConfig.encrypt_at_rest
    WritesFail,     \* std::fs::write can fail after it has truncated the file
    RemovesFail     \* std::fs::remove_file can fail, which nobody looks at

ASSUME BlockCacheAssumption ==
    /\ IsFiniteSet(Threads) /\ Threads # {}
    /\ IsFiniteSet(Rids) /\ Rids # {}
    /\ SizeOf \in [Rids -> Nat]
    /\ MaxSize \in Nat
    /\ EncryptAtRest \in BOOLEAN /\ WritesFail \in BOOLEAN /\ RemovesFail \in BOOLEAN

VARIABLES
    lru,          \* the index, from the least to the most recently used block
    currentSize,  \* inner.current_size
    files,        \* rid -> is the file of this block complete
    threads,      \* thread -> [at, rid]: where in put or get it is
    got,          \* what the last get returned
    left,         \* history: the blocks whose files an earlier process left, or
                  \* a removal that failed
    again         \* history: the blocks put while indexed or being put

vars == <<lru, currentSize, files, threads, got, left, again>>

\* "open", "write", "gone" and "index" are inside put ("gone": the file this
\* thread has open was removed from the directory), "read" is inside get.
Points == {"idle", "open", "write", "gone", "index", "read"}
Results == {"none", "data", "error", "garbage"}

TypeOK ==
    /\ lru \in Seq(Rids) /\ \A i, j \in DOMAIN lru : lru[i] = lru[j] => i = j
    /\ currentSize \in Nat
    /\ DOMAIN files \subseteq Rids /\ files \in [DOMAIN files -> BOOLEAN]
    /\ threads \in [Threads -> [at: Points, rid: Rids]]
    /\ got \in Results
    /\ left \subseteq Rids /\ again \subseteq Rids

-----------------------------------------------------------------------------
Indexed == Range(lru)
Putting(r) == \E t \in Threads : threads[t].rid = r /\ threads[t].at \in {"open", "write", "gone", "index"}

\* The sum of the sizes of the blocks S: the number of their bytes.
Total(S) == Cardinality(UNION {{r} \X (1..SizeOf[r]) : r \in S})

\* The index without r, which is in it once or not at all.
Without(r) ==
    IF r \in Indexed
      THEN LET i == CHOOSE i \in DOMAIN lru : lru[i] = r
           IN SubSeq(lru, 1, i - 1) \o SubSeq(lru, i + 1, Len(lru))
      ELSE lru

\* The index after an access to r.
Touched(r) == Append(Without(r), r)

\* remove_file for the blocks R, when the threads have gone on to moved.  Its
\* error is dropped: some of the files can stay.
RemoveFiles(R, moved) ==
    \E kept \in SUBSET (R \cap DOMAIN files) :
        /\ RemovesFail \/ kept = {}
        /\ files' = [r \in DOMAIN files \ (R \ kept) |-> files[r]]
        /\ threads' = [t \in Threads |->
                         IF moved[t].at = "write" /\ moved[t].rid \in R \ kept
                           THEN [moved[t] EXCEPT !.at = "gone"] ELSE moved[t]]
        /\ left' = (left \ R) \cup kept

Goto(t, at) == [threads EXCEPT ![t].at = at]

\* Mutant: nothing is ever evicted.
EvictNothing(needed) == 0

\* evict_if_needed drops the first k blocks: as few as make room, or all.
EvictCount(needed) ==
    CHOOSE k \in 0..Len(lru) :
        LET fits(n) == currentSize - Total(Range(SubSeq(lru, 1, n))) + needed <= MaxSize
        IN (fits(k) \/ k = Len(lru)) /\ \A n \in 0..(k - 1) : ~fits(n)

\* put, up to the write: evict_if_needed holds the lock.
PutEvict(t, r) ==
    LET k == EvictCount(SizeOf[r])
        victims == Range(SubSeq(lru, 1, k))
    IN
    /\ threads[t].at = "idle"
    /\ lru' = SubSeq(lru, k + 1, Len(lru))
    /\ currentSize' = currentSize - Total(victims)
    /\ RemoveFiles(victims, [threads EXCEPT ![t] = [at |-> "open", rid |-> r]])
    /\ again' = IF r \in Indexed \/ Putting(r) THEN again \cup {r} ELSE again
    /\ UNCHANGED got

\* std::fs::write creates or truncates the file ...
PutOpen(t) ==
    LET r == threads[t].rid IN
    /\ threads[t].at = "open"
    /\ files' = [s \in DOMAIN files \cup {r} |-> IF s = r THEN FALSE ELSE files[s]]
    /\ threads' = Goto(t, "write")
    /\ left' = left \ {r}
    /\ UNCHANGED <<lru, currentSize, got, again>>

\* Mutant: a write that has failed is indexed all the same.
PutWriteUnchecked(t) ==
    /\ threads[t].at \in {"write", "gone"}
    /\ \/ files' = IF threads[t].at = "write" THEN [files EXCEPT ![threads[t].rid] = TRUE] ELSE files
       \/ WritesFail /\ UNCHANGED files
    /\ threads' = Goto(t, "index")
    /\ UNCHANGED <<lru, currentSize, got, left, again>>

\* ... and writes it; into a file that nobody can open any more if it was
\* removed meanwhile.
PutWrite(t) ==
    /\ threads[t].at \in {"write", "gone"}
    /\ \/ /\ files' = IF threads[t].at = "write" THEN [files EXCEPT ![threads[t].rid] = TRUE] ELSE files
          /\ threads' = Goto(t, "index")
       \/ /\ WritesFail
          /\ threads' = Goto(t, "idle")
          /\ UNCHANGED files
    /\ UNCHANGED <<lru, currentSize, got, left, again>>

\* Mutant: the size of a replaced entry is not taken off.
PutIndexTwice(t) ==
    /\ threads[t].at = "index"
    /\ lru' = Touched(threads[t].rid)
    /\ currentSize' = currentSize + SizeOf[threads[t].rid]
    /\ threads' = Goto(t, "idle")
    /\ UNCHANGED <<files, got, left, again>>

\* The end of put, under the lock.
PutIndex(t) ==
    LET r == threads[t].rid
        old == IF r \in Indexed THEN SizeOf[r] ELSE 0
    IN
    /\ threads[t].at = "index"
    /\ lru' = Touched(r)
    /\ currentSize' = currentSize - old + SizeOf[r]
    /\ threads' = Goto(t, "idle")
    /\ UNCHANGED <<files, got, left, again>>

\* get under the lock: a miss returns at once.
GetIndex(t, r) ==
    /\ threads[t].at = "idle"
    /\ \/ /\ r \in Indexed
          /\ lru' = Touched(r)
          /\ threads' = [threads EXCEPT ![t] = [at |-> "read", rid |-> r]]
          /\ UNCHANGED got
       \/ /\ r \notin Indexed
          /\ got' = "error"
          /\ UNCHANGED <<lru, threads>>
    /\ UNCHANGED <<currentSize, files, left, again>>

\* get reads the file.  A truncated file does not decrypt.
GetRead(t) ==
    LET r == threads[t].rid IN
    /\ threads[t].at = "read"
    /\ got' = IF r \notin DOMAIN files THEN "error"
              ELSE IF files[r] THEN "data"
              ELSE IF EncryptAtRest THEN "error" ELSE "garbage"
    /\ threads' = Goto(t, "idle")
    /\ UNCHANGED <<lru, currentSize, files, left, again>>

\* Mutant: only the file is removed.
RemoveFileOnly(t, r) ==
    /\ threads[t].at = "idle"
    /\ r \in Indexed
    /\ RemoveFiles({r}, threads)
    /\ UNCHANGED <<lru, currentSize, got, again>>

\* remove and clear hold the lock from beginning to end.
Remove(t, r) ==
    /\ threads[t].at = "idle"
    /\ r \in Indexed
    /\ lru' = Without(r)
    /\ currentSize' = currentSize - SizeOf[r]
    /\ RemoveFiles({r}, threads)
    /\ UNCHANGED <<got, again>>

\* Mutant: the files stay.
ClearIndexOnly(t) ==
    /\ threads[t].at = "idle"
    /\ lru' = <<>>
    /\ currentSize' = 0
    /\ UNCHANGED <<files, threads, got, left, again>>

Clear(t) ==
    /\ threads[t].at = "idle"
    /\ lru' = <<>>
    /\ currentSize' = 0
    /\ RemoveFiles(Indexed, threads)
    /\ UNCHANGED <<got, again>>

\* new: the index of a directory that may hold files starts empty.
Restart ==
    /\ lru' = <<>>
    /\ currentSize' = 0
    /\ threads' = [t \in Threads |-> [threads[t] EXCEPT !.at = "idle"]]
    /\ got' = "none"
    /\ left' = DOMAIN files
    /\ again' = {}
    /\ UNCHANGED files

-----------------------------------------------------------------------------
Init ==
    /\ lru = <<>> /\ currentSize = 0 /\ files = <<>>
    /\ threads \in [Threads -> [at: {"idle"}, rid: Rids]]
    /\ got = "none"
    /\ left = {} /\ again = {}

Next ==
    \/ \E t \in Threads :
         \/ \E r \in Rids : PutEvict(t, r) \/ GetIndex(t, r) \/ Remove(t, r)
         \/ PutOpen(t) \/ PutWrite(t) \/ PutIndex(t) \/ GetRead(t) \/ Clear(t)
    \/ Restart

Spec == Init /\ [][Next]_vars

-----------------------------------------------------------------------------
(* Properties.                                                              *)

\* current_size is the sum of the sizes in the index, whatever puts of the
\* same block, removals and clears come between the eviction of a put and its
\* entry: the u64 subtractions never underflow.
SizeIsSum == currentSize = Total(Indexed)

Largest == Max({SizeOf[r] : r \in Rids})

\* Threads that put at the same time overshoot max_size by at most one block
\* for each other thread: eviction never falls further behind.
OvershootBounded == currentSize <= MaxSize + (Cardinality(Threads) - 1) * Largest

\* No order of puts, evictions, removals and failed writes leaves a complete
\* file that the index does not know and never will: the only such files are
\* those an earlier process left behind or remove_file could not remove.
NoStrayFiles == \A r \in DOMAIN files \ left : files[r] => r \in Indexed \/ Putting(r)

\* A block in the index has its complete file, whatever writes fail and
\* whatever is evicted meanwhile, unless it was put twice: then an entry can
\* outlive its file, and every later get of it fails.
EntriesBacked == \A r \in Indexed \ again : r \in DOMAIN files /\ files[r]

\* A get that found its block in the index and reads the file after others have
\* put, evicted and removed blocks returns the data if the block is still
\* indexed, unless it was put twice: only an entry that was taken out in between
\* makes it fail.
HitsServed ==
    [][\A t \in Threads :
         threads[t].at = "read" /\ threads'[t].at = "idle" /\ threads[t].rid \in Indexed' \ again =>
            got' = "data"]_vars
=============================================================================
