------------------------------ MODULE FileData ------------------------------
(***************************************************************************)
(* The contents of regular files: handles and their write buffers          *)
(* (HandleTable), the flush of a buffer to Telegram when a handle is       *)
(* released, the table of uploaded blocks with its deduplication and       *)
(* reference counts (BlockStore), the one-block manifests in the inodes,   *)
(* and reading back through the block cache.                               *)
(*                                                                         *)
(* The kernel calls one handler at a time.  Applications interleave their  *)
(* calls on several handles of several files in any order, uploads,        *)
(* downloads and SQL statements fail, the cache forgets blocks, and the    *)
(* process can end.                                                        *)
(* Directories are the business of Namespace: here a file is its inode     *)
(* number, created and unlinked.                                           *)
(***************************************************************************)
EXTENDS Naturals, Sequences, FiniteSets

CONSTANTS
    Bytes,           \* the non-zero bytes applications write
    MaxLen,          \* bound: on the length of a file
    MaxIno,          \* bound: inode numbers are 2..MaxIno (1 is the root)
    MaxFh,           \* bound: on the number of handles ever opened by one mount
    MaxCreates,      \* bound: on the number of files ever created
    MaxMessages,     \* bound: on the number of messages uploaded
    MaxRefs,         \* bound: on a block's reference count
    HasTransport,    \* the mount was built with_transport
    MayFail,         \* what can fail, of FailurePoints
    UnlinkWhileOpen  \* applications unlink files that are still open

\* Sends to and fetches from Telegram, and the SQL statements of the handlers
\* below: find_by_content_hash, increment_ref, BlockStore::insert and the
\* update of an inode's row.
FailurePoints == {"upload", "download", "find", "increment", "insert", "update"}

ASSUME FileDataAssumption ==
    /\ Bytes # {} /\ 0 \notin Bytes
    /\ MaxLen \in Nat \ {0} /\ MaxIno \in Nat \ {0}
    /\ MaxFh \in Nat /\ MaxCreates \in Nat /\ MaxMessages \in Nat /\ MaxRefs \in Nat \ {0}
    /\ HasTransport \in BOOLEAN /\ UnlinkWhileOpen \in BOOLEAN
    /\ MayFail \subseteq FailurePoints

Inos == 2..MaxIno
Contents == UNION {[1..n -> Bytes \cup {0}] : n \in 0..MaxLen}

\* No block: the manifest of a file that was never flushed.
NoBlock == 0

VARIABLES
    inodes,    \* ino -> [size, rid, len]: inode.size and the manifest's one block
    blocks,    \* rid -> [content, msg, refs]: the blocks table (rids are fresh)
    messages,  \* message id -> content: what Telegram stores
    cache,     \* the rids in the block cache
    handles,   \* fh -> [ino, buf, dirty, born]: the handle table
    nextFh,    \* the next handle number
    created,   \* ino -> how many files had been created when this one was
    creates,   \* how many files have been created
    closed     \* ino -> [known, stored, data]: the last close of a written handle

vars == <<inodes, blocks, messages, cache, handles, nextFh, created, creates, closed>>

(***************************************************************************)
(* created, creates, born and closed are history: they tell apart files    *)
(* that have the same inode number, and remember what an application that  *)
(* closed a file may expect to read.  closed[i].data is the buffer of the  *)
(* last close, closed[i].stored says that its flush succeeded, and         *)
(* closed[i].known that nobody has changed the file since.                 *)
(***************************************************************************)
Changed == [known |-> FALSE, stored |-> FALSE, data |-> <<>>]
Closed(data, stored) == [known |-> TRUE, stored |-> stored, data |-> data]

TypeOK ==
    /\ DOMAIN inodes \subseteq Inos
    /\ inodes \in [DOMAIN inodes ->
                     [size: 0..MaxLen, rid: 0..Len(blocks), len: 0..MaxLen]]
    /\ blocks \in Seq([content: Contents, msg: 1..Len(messages), refs: 1..MaxRefs])
    /\ messages \in Seq(Contents)
    /\ cache \subseteq 1..Len(blocks)
    /\ DOMAIN handles \subseteq 1..MaxFh
    /\ handles \in [DOMAIN handles ->
                      [ino: Inos, buf: Contents, dirty: BOOLEAN, born: 1..MaxCreates]]
    /\ nextFh \in 1..(MaxFh + 1)
    /\ DOMAIN created = DOMAIN inodes /\ DOMAIN closed = DOMAIN inodes
    /\ created \in [DOMAIN inodes -> 1..MaxCreates]
    /\ closed \in [DOMAIN inodes -> [known: BOOLEAN, stored: BOOLEAN, data: Contents]]
    /\ creates \in 0..MaxCreates

-----------------------------------------------------------------------------
(* Buffers and reads.                                                       *)

Larger(a, b) == IF a > b THEN a ELSE b
Smaller(a, b) == IF a < b THEN a ELSE b

\* write: the buffer grows with zeros to the end of the data, which is copied in.
Spliced(buf, off, data) ==
    [i \in 1..Larger(Len(buf), off + Len(data)) |->
        IF i \in (off + 1)..(off + Len(data)) THEN data[i - off]
        ELSE IF i <= Len(buf) THEN buf[i] ELSE 0]

\* Mutant: the last byte of a block is not in its range.
BlockNeededShort(inode, off, len) == inode.rid # NoBlock /\ 0 < off + len /\ inode.len > off + 1

\* FileManifest::blocks_in_range, for a manifest of one block at offset 0.
BlockNeeded(inode, off, len) == inode.rid # NoBlock /\ 0 < off + len /\ inode.len > off

\* read, when the block arrived: a buffer of zeros with the block's part of the
\* range copied in, cut at the inode's size.
ReadFromBlock(inode, data, off, len) ==
    LET stop == Smaller(off + len, inode.len)
        fits == stop <= Len(data)
        size == IF inode.size > off THEN inode.size - off ELSE 0
    IN [i \in 1..Smaller(len, size) |->
          IF off + i <= stop /\ fits THEN data[off + i] ELSE 0]

\* What a read of a file can reply to a handle without data of its own.  A
\* block that is neither cached nor fetched is an empty reply, as a range
\* without blocks is.
ReadReplies(i, off, len) ==
    LET b == inodes[i].rid
        fetched == ReadFromBlock(inodes[i], messages[blocks[b].msg], off, len)
    IN IF ~BlockNeeded(inodes[i], off, len) THEN {<<>>}
       ELSE (IF b \in cache \/ HasTransport THEN {fetched} ELSE {}) \cup
            (IF b \notin cache /\ (~HasTransport \/ "download" \in MayFail) THEN {<<>>} ELSE {})

-----------------------------------------------------------------------------
(* Opening, writing, reading.                                               *)

AddHandle(i, born) ==
    /\ nextFh <= MaxFh
    /\ handles' = [f \in DOMAIN handles \cup {nextFh} |->
                     IF f = nextFh THEN [ino |-> i, buf |-> <<>>, dirty |-> FALSE, born |-> born]
                     ELSE handles[f]]
    /\ nextFh' = nextFh + 1

\* next_ino: one more than the largest inode number in use (1 is the root's).
IsNextIno(i) == i = 1 + CHOOSE j \in DOMAIN inodes \cup {1} : \A k \in DOMAIN inodes : k <= j

Create(i) ==
    /\ IsNextIno(i)
    /\ creates < MaxCreates
    /\ inodes' = [j \in DOMAIN inodes \cup {i} |->
                    IF j = i THEN [size |-> 0, rid |-> NoBlock, len |-> 0] ELSE inodes[j]]
    /\ creates' = creates + 1
    /\ created' = [j \in DOMAIN inodes \cup {i} |-> IF j = i THEN creates' ELSE created[j]]
    /\ closed' = [j \in DOMAIN inodes \cup {i} |-> IF j = i THEN Closed(<<>>, TRUE) ELSE closed[j]]
    /\ AddHandle(i, creates')
    /\ UNCHANGED <<blocks, messages, cache>>

Open(i) ==
    /\ i \in DOMAIN inodes
    /\ AddHandle(i, created[i])
    /\ UNCHANGED <<inodes, blocks, messages, cache, created, creates, closed>>

\* The result of the update of the row is ignored.
Write(f, off, data) ==
    LET i == handles[f].ino
        buf == Spliced(handles[f].buf, off, data)
    IN
    /\ f \in DOMAIN handles
    /\ off + Len(data) <= MaxLen
    /\ handles' = [handles EXCEPT ![f].buf = buf, ![f].dirty = TRUE]
    /\ \/ i \in DOMAIN inodes /\ inodes' = [inodes EXCEPT ![i].size = Len(buf)]
       \/ (i \notin DOMAIN inodes \/ "update" \in MayFail) /\ UNCHANGED inodes
    /\ closed' = [j \in DOMAIN inodes |->
                    IF j = i /\ handles[f].born = created[i] THEN Changed ELSE closed[j]]
    /\ UNCHANGED <<blocks, messages, cache, nextFh, created, creates>>

\* read changes nothing but the cache: a block it downloads is put there.
Read(f, off, len) ==
    LET i == handles[f].ino IN
    /\ f \in DOMAIN handles
    /\ handles[f].buf = <<>>
    /\ i \in DOMAIN inodes
    /\ BlockNeeded(inodes[i], off, len)
    /\ inodes[i].rid \notin cache
    /\ HasTransport
    /\ cache' = cache \cup {inodes[i].rid}
    /\ UNCHANGED <<inodes, blocks, messages, handles, nextFh, created, creates, closed>>

SetSize(i, size) ==
    /\ i \in DOMAIN inodes
    /\ inodes' = [inodes EXCEPT ![i].size = size]
    /\ closed' = [closed EXCEPT ![i] = Changed]
    /\ UNCHANGED <<blocks, messages, cache, handles, nextFh, created, creates>>

-----------------------------------------------------------------------------
(* flush_to_transport and release.                                          *)

\* find_by_content_hash (hashes do not collide).
SameContent(data) == {b \in 1..Len(blocks) : blocks[b].content = data}

\* The close of handle f, in the history of the file it was opened for.
RecordClose(f, stored) ==
    closed' = [i \in DOMAIN inodes |->
                 IF i = handles[f].ino /\ created[i] = handles[f].born
                   THEN Closed(handles[f].buf, stored) ELSE closed[i]]

\* Mutant: the length in the manifest is the inode's size.
SetManifestOfSize(f, b) ==
    LET i == handles[f].ino
    IN \/ /\ i \in DOMAIN inodes
          /\ inodes' = [inodes EXCEPT ![i] = [size |-> @.size, rid |-> b, len |-> @.size]]
          /\ RecordClose(f, TRUE)
       \/ i \notin DOMAIN inodes /\ UNCHANGED inodes /\ RecordClose(f, FALSE)

\* release with the block that flush_to_transport gave: the manifest is this
\* block, in whatever inode now has the handle's number.  The result of the
\* update is ignored.
SetManifest(f, b) ==
    LET i == handles[f].ino
        len == Len(handles[f].buf)
    IN \/ /\ i \in DOMAIN inodes
          /\ inodes' = [inodes EXCEPT ![i] = [size |-> len, rid |-> b, len |-> len]]
          /\ RecordClose(f, TRUE)
       \/ /\ i \notin DOMAIN inodes \/ "update" \in MayFail
          /\ UNCHANGED inodes
          /\ RecordClose(f, FALSE)

\* Mutant: the block is used again without counting it.
DeduplicatedUncounted(f) ==
    \E b \in SameContent(handles[f].buf) : SetManifest(f, b) /\ UNCHANGED <<blocks, messages, cache>>

\* A block of the same content is used again; a failed increment is ignored.
Deduplicated(f) ==
    \E b \in SameContent(handles[f].buf) :
        /\ \/ blocks[b].refs < MaxRefs /\ blocks' = [blocks EXCEPT ![b].refs = @ + 1]
           \/ "increment" \in MayFail /\ UNCHANGED blocks
        /\ SetManifest(f, b)
        /\ UNCHANGED <<messages, cache>>

\* Mutant: every buffer is uploaded.
NeverFound(f) == TRUE

\* No block of the same content is found: there is none, or the query failed.
NotFound(f) == SameContent(handles[f].buf) = {} \/ "find" \in MayFail

Send(data) ==
    /\ Len(messages) < MaxMessages
    /\ messages' = Append(messages, data)

\* The buffer is uploaded, its row inserted and the block cached.
Uploaded(f) ==
    LET data == handles[f].buf IN
    /\ NotFound(f)
    /\ Send(data)
    /\ blocks' = Append(blocks, [content |-> data, msg |-> Len(messages) + 1, refs |-> 1])
    /\ cache' = cache \cup {Len(blocks) + 1}
    /\ SetManifest(f, Len(blocks) + 1)

\* The upload fails, with or without leaving a message behind, or the insert
\* of the block's row does: the data is dropped and release still replies ok.
Lost(f) ==
    /\ NotFound(f)
    /\ \/ "upload" \in MayFail /\ UNCHANGED messages
       \/ MayFail \cap {"upload", "insert"} # {} /\ Send(handles[f].buf)
    /\ RecordClose(f, FALSE)
    /\ UNCHANGED <<inodes, blocks, cache>>

Flush(f) == Deduplicated(f) \/ Uploaded(f) \/ Lost(f)

\* Nothing to flush, or nowhere to.
NotFlushed(f) ==
    /\ IF handles[f].dirty THEN RecordClose(f, FALSE) ELSE UNCHANGED closed
    /\ UNCHANGED <<inodes, blocks, messages, cache>>

Release(f) ==
    /\ f \in DOMAIN handles
    /\ IF handles[f].dirty /\ handles[f].buf # <<>> /\ HasTransport
         THEN Flush(f)
         ELSE NotFlushed(f)
    /\ handles' = [g \in DOMAIN handles \ {f} |-> handles[g]]
    /\ UNCHANGED <<nextFh, created, creates>>

-----------------------------------------------------------------------------
(* Unlinking, the cache and the process.                                    *)

\* unlink deletes the row; open handles and the block's count are left alone.
Unlink(i) ==
    /\ i \in DOMAIN inodes
    /\ UnlinkWhileOpen \/ \A f \in DOMAIN handles : handles[f].ino # i
    /\ inodes' = [j \in DOMAIN inodes \ {i} |-> inodes[j]]
    /\ created' = [j \in DOMAIN inodes \ {i} |-> created[j]]
    /\ closed' = [j \in DOMAIN inodes \ {i} |-> closed[j]]
    /\ UNCHANGED <<blocks, messages, cache, handles, nextFh, creates>>

\* BlockCache evicts, or its file is gone when it is read.
Evict(b) ==
    /\ b \in cache
    /\ cache' = cache \ {b}
    /\ UNCHANGED <<inodes, blocks, messages, handles, nextFh, created, creates, closed>>

\* The process ends and the volume is mounted again: buffers, handles and the
\* index of the cache are gone.
Remount ==
    /\ handles' = <<>>
    /\ nextFh' = 1
    /\ cache' = {}
    /\ UNCHANGED <<inodes, blocks, messages, created, creates, closed>>

-----------------------------------------------------------------------------
Init ==
    /\ inodes = <<>> /\ blocks = <<>> /\ messages = <<>> /\ cache = {}
    /\ handles = <<>> /\ nextFh = 1
    /\ created = <<>> /\ creates = 0 /\ closed = <<>>

Next ==
    \/ \E i \in Inos : Create(i) \/ Open(i) \/ Unlink(i) \/ \E n \in 0..MaxLen : SetSize(i, n)
    \/ \E f \in DOMAIN handles :
         \/ \E off \in 0..(MaxLen - 1), b \in Bytes : Write(f, off, <<b>>)
         \/ \E off \in 0..(MaxLen - 1), len \in 1..MaxLen : Read(f, off, len)
         \/ Release(f)
    \/ \E b \in cache : Evict(b)
    \/ Remount

Spec == Init /\ [][Next]_vars

-----------------------------------------------------------------------------
(* Properties.                                                              *)

\* Every manifest points to a row of the blocks table and through it to a
\* message that still holds the bytes the row's hash was computed from, of the
\* length the manifest says: failed and repeated flushes, deduplication and
\* unlinks never leave a pointer to nothing or to another file's data.
ManifestBacked ==
    \A i \in DOMAIN inodes : inodes[i].rid # NoBlock =>
        LET b == blocks[inodes[i].rid] IN
        messages[b.msg] = b.content /\ Len(b.content) = inodes[i].len

\* A block's reference count is at least the number of manifests that use it:
\* decrement_ref could not report zero while a file still needs the block.
RefCountsCover ==
    \A b \in 1..Len(blocks) :
        blocks[b].refs >= Cardinality({i \in DOMAIN inodes : inodes[i].rid = b})

\* A content is stored under one row only: deduplication finds what an earlier
\* flush of any file has uploaded.
StoredOnce == \A b \in 1..Len(blocks) : SameContent(blocks[b].content) = {b}

\* The bytes off+1..off+len of what an application left in file i.
Expected(i, off, len) == SubSeq(closed[i].data, off + 1, Smaller(off + len, Len(closed[i].data)))

\* The empty reply to a read whose block is not cached and cannot be fetched.
EmptyReplies(i) == IF "download" \in MayFail /\ inodes[i].rid \notin cache THEN {<<>>} ELSE {}

\* What the buffer held when a handle was closed and flushed is what any later
\* read of that file replies, whatever is written to, unlinked from or flushed
\* for other files, until someone writes to this file or sets its size again.
\* Only a block that is not cached and fails to download is read as nothing.
ReadBack ==
    \A i \in DOMAIN inodes : closed[i].known /\ closed[i].stored =>
        \A off \in 0..(MaxLen - 1), len \in 1..MaxLen :
            /\ Expected(i, off, len) \in ReadReplies(i, off, len)
            /\ ReadReplies(i, off, len) \subseteq {Expected(i, off, len)} \cup EmptyReplies(i)
=============================================================================
