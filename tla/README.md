# TGCryptFS: verification project

TLA+ specifications of TGCryptFS (Rust, `src/crates/`): an encrypted filesystem
that stores file contents as messages of a Telegram account and metadata in a
local SQLite database. The modules model what the code does, TLC checks them on
small instances, and TLAPS proves the main theorems for instances of any size.
`PROJECT.json` lists components, runs, mutants, findings, hazards and theorems,
and maps every definition to the source lines it models.

## 1. The system

| Component | State | Operations | Interacts with |
|---|---|---|---|
| FUSE namespace (`tgcryptfs-fuse/src/fs.rs`, `inode_store.rs`, `metadata/inode.rs`) | the `inodes` table: parent, name hash, encrypted inode with list of children and link count; the open transaction of the one connection | mkdir, create, symlink, unlink, rmdir, rename, setattr, init | the kernel calls one handler at a time; SQLite statements fail, transactions commit or not |
| File contents (`fs.rs`, `handle.rs`, `block_store.rs`, `block/pointer.rs`) | handles with write buffers; the `blocks` table with reference counts; manifests in inodes | open, write, read, release (flush: hash, deduplicate, upload, insert, cache) | Telegram through `BlockTransport`; the block cache; the namespace for inode numbers |
| Block cache (`block_cache.rs`) | an index with the total size behind a mutex; one file per block outside of it | put, get, remove, clear, new | shared by `Arc` with every thread that reads or flushes |
| Dead man's switch (`deadman/src/{daemon,trigger,destroy}.rs`, `hooks/mod.rs`, `api/src/service/deadman.rs`) | the daemon the service holds; each daemon's stop flag, place in its loop, grace period | arm, disarm, status; check, grace period, destruction | tokio tasks; triggers that look at the network and run commands |
| Sessions and volumes (`api/src/service/{session,volume}.rs`, `core/src/volume/manager.rs`) | the map of open sessions; volume directories and configuration files | create, open, close, mount, delete | REST handlers and the command line, concurrently |
| Sharing and invites (`sharing/`, `sharing_store.rs`, `api/src/service/sharing.rs`) | shares and invites in the database, with use counts | share, revoke, create and accept invites | several sessions over one database |
| Key rotation (`cli/src/commands/key.rs`) | the epoch of each block and of the configuration file | rotate | the block table, the configuration file |
| Telegram client (`telegram/src/client.rs`) | connection, password token, semaphores, counters | connect, login, upload, download, delete, each with retries | the network |
| Algorithms (`core/src/block`, `core/src/policy`, `core/src/sentence`) | none | chunking, manifest ranges, block format, policy rules, word encoding | `blocks_in_range` is called by `read`; the others so far by tests only |
| Cryptography (`core/src/crypto`, `sharing/src/key_exchange.rs`) | none | AEAD, hashing, key derivation, key exchange | called by the others |
| REST server, command line, remaining stores | routing, arguments, single rows | | the services |

What is hard here, and hard to reach with a test:

* **Statements that fail, transactions that leak, crashes.** Every namespace
  handler changes two or more rows. Whether it does so in a transaction, looks at
  each result and rolls back differs from handler to handler.
* **Two views of one directory.** `rmdir` and `rename` ask the inode's list of
  children whether a directory is empty; `lookup` and `readdir` ask the rows.
* **Handles that outlive what they refer to.** Inode numbers are given out again,
  buffers are flushed at close, where no error is reported, and replace the file.
* **A cache whose lock does not cover its files.**
* **A daemon that is told to stop while it waits to destroy.**
* **Awaits between a check and its use** in the sessions, and files of one volume
  that the server and the command line create, shred and rewrite at the same time.
* **Read-modify-write without a transaction** in the invites.
* **Answers that are lost**, retries of what was already done, permits and a mutex
  held through all of it in the Telegram client.

What makes each component correct is stated with its module below.

## 2. Modules

| Module | Models | About |
|---|---|---|
| `Namespace` | the FUSE namespace | one action per handler |
| `DirTree` | nothing in the code: what a user may rely on | abstract specification that `Namespace` implements |
| `NamespaceProofs` | | the theorems about `Namespace` |
| `FileData` | file contents | handles, flush, blocks, reads |
| `FileDataProofs` | | the theorems about `FileData` |
| `Deadman` | the dead man's switch | service, daemons, triggers, liveness |
| `DeadmanProofs` | | the theorems about `Deadman` |
| `BlockCache` | the block cache | threads between the locked parts |
| `BlockCacheProofs` | | the theorems about `BlockCache` |
| `Volumes` | sessions, volume directories, key rotation | one step per file operation |
| `VolumesProofs` | | the theorems about `Volumes` |
| `Sharing` | invites and shares | one step per statement |
| `SharingProofs` | | the theorems about `Sharing` |
| `Telegram` | the Telegram client and the login | permits, retries, lost answers, liveness |
| `TelegramProofs` | | the theorems about `Telegram` |
| `Chunker` | `cdc::chunk` | one step per round of the loop, for any rolling hash |
| `Rabin` | the rolling hash of `cdc.rs` | an instance of `Chunker`'s hash |
| `Manifest`, `Policy`, `Sentence`, `Srb1` | pure functions | with reference definitions |
| `Algorithms` | nothing of its own: composes the modules above | what the functions promise, for one sample each |
| `AlgorithmsProofs` | | the theorems about `Chunker`, `Rabin` and the functions |
| `MC*` | | constants for TLC |

`TypeOK` of each module gives the types of its variables. It is proved for every module;
no run lists it because it shows nothing beyond the types.

Definitions whose comment begins with "Mutant:" are faulty variants of the
definition that follows them. Each property of each passing run is violated when
one of them takes its definition's place, so no property holds by accident of the
model.

### Namespace

`rows` is the `inodes` table as the mount's connection sees it, `disk` as a new
connection would; they differ while a transaction is open (`txn`). A handler takes
`&mut self`, so it is one action; what can happen inside it is a choice of the
action. The constant `MayFail` says which places fail:

* `"begin"`, `"insert"`, `"update"`, `"delete"`, `"commit"`: statements whose result
  the handler looks at. A failing commit leaves the transaction rolled back or open.
* `"ignored"`: the statements whose result is dropped (`let _ =`, `if let Ok`).
* `"crash"`: the process dies between the two statements of `symlink`, which has no
  transaction. A crash anywhere else is `Remount` (the transaction is undone).

`children` is a set (the `Vec` is pushed to, filtered and tested for emptiness), a
name and its hash are one value, mode, owner, size and times are one attribute.
`KernelAllowsRename` and `NotBelow` are the checks the kernel's VFS makes before it
calls `rename`: a directory is moved neither below itself nor onto a directory it is in.
The code relies on them.

Properties: `ListingAgrees` (the list of children is the set of rows that name the
directory as parent), `Reachable` (no row is cut off from the root), `NlinkCovers`
(link counts never fall below the number of subdirectories, so that
`saturating_sub` hides nothing), each in memory *and* on disk;
`ErrorChangesNothing`; `OnlySymlinksStranded`; and `ImplementsDirTree`, the
refinement: under the mapping that forgets lists, counts and transactions, each
handler is one whole operation of `DirTree` or none, and a crash falls back to a
whole earlier tree.

### FileData

A file is an inode number with a size and a manifest of at most one block, as
`release` writes it. Bytes are model values and 0. `Release` is the handler with its
whole flush: `find_by_content_hash`, `increment_ref` or upload, insert and cache, then
the update of the inode, any of which may fail. `closed` and `created` are history:
what an application that closed a file may expect to read from it, and which file had
an inode number when a handle was opened. `UnlinkWhileOpen` lets applications unlink
open files. The cache is a set of blocks that may forget any of them. The upload of an
attempt whose answer was lost leaves a message behind. The number of unlinked or
superseded messages is not observed.

Properties: `ManifestBacked`, `RefCountsCover` (a count is never below the number of
manifests that use the block), `StoredOnce`, and `ReadBack`: what a handle had when it
was closed and flushed is what any later read at any offset returns, whatever happens
to other files and handles.

### Deadman

A daemon is a record that says where between two awaits its `run` is. `Disarm` stores
the flag and lets go of the daemon, so several may run at once. `Turn` is the world the
triggers look at. A sleep of one second takes 1 to `MaxNap` seconds. `Evaluate` is what
the code of each kind of trigger can return: heartbeats and inactive ones are always
`Ok`, rpc and OS triggers are errors, a custom command may be any of the three.
`evaluate_all` swallows errors, so the arm of `run` for an erroneous check cannot be
reached and is not in the model.

Fairness is `WF_vars(Run(d))` for each daemon and nothing else: the tokio runtime polls
every spawned task, sleeps end and the evaluation of a trigger is under a timeout.
Nobody is assumed to arm, disarm or violate anything.

Properties: `OneUnstopped`, `DisarmedInTimeSurvives`, `DisarmStops` (liveness),
`ViolationDestroys` (liveness: erroneous and intermittent triggers before a violated
one cannot keep the switch from acting).

### BlockCache

`put` is four steps (evict under the lock, create the file, write it, index under the
lock), `get` is two; `remove` and `clear` are one. A removed file that is still open is
written to no avail (`"gone"`). The index is kept in the order of its last use, which
is what `access_order` is compared for. `Total`, the sum that `current_size` is meant to
be, is the number of the bytes of a set of blocks.

`evict_if_needed`, `remove` and `clear` drop the error of `remove_file`: with `RemovesFail`
any of the files they would remove may stay (`RemoveFiles`). `left` is history: the files
that stayed so or that an earlier process left behind, which no index knows; `again`: the
blocks that were put while they were indexed or being put.

Properties, for threads that interleave, writes and removals that fail and restarts:
`SizeIsSum`, `OvershootBounded`, `NoStrayFiles` (no other complete file escapes eviction),
`EntriesBacked` (a block put once and indexed has its complete file) and `HitsServed` (an
action property: a `get` that hit returns the data although the file is read after the lock
was released, unless the entry is gone by then).

### Volumes

One volume: its directory, `volume.json` and `metadata.db` with the epochs of its block
rows, the directory of its cache, the server's session of it. `proc` says at which step
each server request (`Tasks`), each command (`Clis`) and each mount (`Mounts`) is. `Open`, `ReadConfig`, `OpenDatabase` and `Insert` are
`SessionManager::open` between its awaits; `List`, `Shred`, `ShredAgain`, `Unlink`,
`RemoveRest` and `RemoveDir` are `delete_volume`; `Rotate` to `RotateWrite` are
`key rotate`, whose `fs::write` first cuts the file off and then writes it; `Mount`,
`MountConnect` and `MountCache` are `volume mount`, whose `BlockCache::new` makes the cache's
directory with all above it, as `CachePut` does after each block written or read. A database
file has a number, so that a session or a rotation on a file that was unlinked is told
from one on its successor. `Restart` ends the server, `Interrupt` a command or a mount. The
fields `deleted`, `undisturbed`, `late`, `overlapped` and `remade` are history for the
properties.

Properties: `DestroyedForGood` (a volume whose delete has replied success can be opened again
only if a rotation ran into the delete *and* a mount made the directory again; a mount alone
leaves a directory without a configuration); `SessionBacked` (a session that no delete overlapped
works on the database in the directory); `ReplacedOnlyInRace` (an action property);
`RotationKeepsTrack` (interrupted and repeated rotations lose no row).

### Sharing

A request holds the mutex of its connection from its first statement to its last, but
no operation is a transaction. `Accept`, `Use` and `Share` are `accept_invite`; `Revoke`,
`Mark` and `Store` are `revoke_invite`, which drops its errors. The copy that a request
read travels in `task` and is written back whole. Tokens, encryption and access levels
are abstracted: an invite is found or not.

Properties: `UsesWithinMax`, `GrantsPaid`, `RevokedIsFinal`, each for the invites that
were accepted and revoked through one connection (`Serial`). Through two they do not
hold, see section 5.

### Telegram

`line` holds, for both semaphores and the mutex around the grammers client, who is inside
and who waits, in tokio's order of arrival. A call keeps its permit over all attempts and
backoffs and the mutex over one attempt. `Send` may store the message and lose the answer.
`Login` to `CheckPassword` are `connect`, `request_login_code`, `sign_in` and
`check_password` as the command line calls them, with its numbers of attempts. `Login` loads
the session file into `loaded`, and `Connect` asks that copy whether the user is signed in;
`RemoveSession` (the server) and `Logout` (the command line) can remove the file in between.
The history `acked`, `dropped`, `loggedIn` is what callers have been told; `outdated` says that
the file has changed behind the copy.

Fairness is weak fairness of the next step of every call: the runtime polls each task,
network requests end (with an error if need be) and backoffs are finite. That a waiter
gets its permit is not assumed: it follows from the order of the line.

Properties: `AckedStored`, `NotFoundIsTrue`, `StraysBounded`, `LoginLasts` (a session that
login reported is on disk until it is removed, where a removal that the login overlapped
counts for it), and `CallsEnd` (liveness).

### Chunker, Rabin, Manifest, Policy, Sentence, Srb1

`Chunker` is the loop of `chunk` for an arbitrary `Update` of the fingerprint; `Rabin`
gives the one of the code in words of `MODULUS` values, with the exclusive or of two words
as a constant. `ChunksTile` says that chunking yields a manifest that
`FileManifest::validate` accepts, `ChunkSizes` bounds the chunks, `ContentDefined` says
that a cut depends on the bytes of its own chunk only. `Manifest` has `validate` and
`blocks_in_range`, which yields the places of blocks in the list; both are checked against
the bytes that the blocks hold (`ManifestExact`). `Policy` has the recursive glob match,
written as a recursive function of the parts that are left, against a definition by the
existence of an alignment (`GlobExact`), and rules whose first match decides
(`CatchAllDecides`). `Sentence` encodes references as words of four lists that share words,
bit by bit (`ReferenceComesBack`; `CheckByteVerified` is what the specification says and the
code does not do). `Srb1` is the block format with its authenticated header
(`BlockAuthentic`).

`Algorithms` puts them into one specification: a behaviour either chunks some data or
applies one function to the argument it starts with (`sample`). `MCAlgorithms` gives it all
short inputs and all small arguments.

## 3. Runs

| Run | Expected | Instance | Shows |
|---|---|---|---|
| `NamespaceChecked` | pass | 4 inodes, 2 names, checked statements and commits fail | the table stays a tree in memory and on disk, and implements `DirTree` |
| `NamespaceInterrupted` | pass | the same; statements fail, `symlink` is interrupted | errors change nothing, only symlinks are ever stranded |
| `NamespaceLeak` | violation | 4 inodes, 2 names, 2 attributes, no failure at all | finding 1 |
| `FileDataFlush` | pass | 2 files, 2 handles, contents of two bytes; uploads, downloads, inserts and updates fail | flushes, deduplication, remounts, reads at any offset |
| `FileDataReuse` | violation | 2 files one after the other, unlink while open | finding 2 |
| `DeadmanSwitch` | pass | 4 triggers, grace period 3, sleeps of 1 or 2, armed twice | safety and liveness |
| `CacheShared` | pass | 2 threads, 4 blocks of two sizes, writes and removals fail, restarts | interleavings |
| `VolumeSessions` | pass | 2 requests, 1 command, 1 mount, three of them at once; 1 block, 2 database files, 2 sessions, one rotation | deletes, opens, mounts and rotations at once |
| `InviteSharing` | pass | 2 connections, 2 requests, 1 invite of up to 2 uses, a clock that passes its expiry | acceptance and revocation |
| `Transport` | pass | 2 calls, 1 permit each, 2 attempts, 3 messages | safety and liveness of transfers next to logins and logouts |
| `Algorithms` | pass | inputs up to 8 bytes, sizes up to 4, up to 3 blocks, 3 path segments, references of 5 two-bit bytes | the pure functions |
| `SentenceCheck` | violation | the references of `Algorithms` | finding 3 |

Bounds, and why they are enough. Four inodes are the root, a directory, a directory or
file in it, and a rename target: moves between directories, replacing, full and empty
destinations, and directories that could be moved below themselves all occur. Two names
give the root at most two entries, so link counts up to 4 leave room for the one that
`rename` leaves too high. One attribute is enough because nothing depends on its value; in
`NamespaceLeak` a second one lets the acknowledged change that is lost be a `setattr`, after a
directory was renamed onto its sibling with an entry: all four inodes are in use then.
Names are interchangeable (symmetry). Two handles give two writers of one file, or a writer
of one next to a reader of another; two messages and counts up to 2 give a deduplicated
block, a superseded one and a failed upload. With contents of two bytes there are holes,
overlapping writes and ranges that begin or end inside, at and after the block. One value
that is written is enough, since the bytes of a hole are 0 and so tell contents and places
apart. The two statements of the deduplication do not fail in the run: the theorems say for
each property which of them matters. Two armings give an old daemon next to a new one; a third adds another old
one only. In the cache two large blocks exceed the limit, which two threads can both
find room under, and without eviction the four would exceed the bound (threads, and blocks
of one size, are interchangeable). Two requests and
a command give an open that races with an open, a delete by either side, and a rotation
during both; two database files are the one that is deleted and the one that a late open
creates. With the mount any two of them run next to a third; the fourth at once, several
rows and several epochs are left to the theorems, which have no such bound. One rotation can
be interrupted, repeated and run into by a delete. Requests do not run together
with a second command: overlapping commands are excluded by what `RotationKeepsTrack`
says, and `DestroyedForGood` has the server's delete next to them. Two uses and three
shares let an invite be exceeded by one, two requests on one or two connections give
every order of an acceptance with another or with a revocation. Two calls with one permit
each wait for each other at both kinds of lock; two attempts give a lost answer with a
retry that succeeds or fails; three messages give one that is older and one that is newer
than the target of a scan. Inputs of 8 bytes are longer than two maximal chunks and than
the window of 4, whose power of the radix is 0 modulo 16, as 256^48 is modulo 2^64. Four
words of three bits hold the ten bits of a reference and one small byte more, as 22 words
of 12 bits hold 256 bits and one byte more. With
`LEN_VALUES` of 2 a plaintext of two bytes is one whose length no longer fits.

`VolumeSessions` has a state constraint, `AtMostThree`; all other bounds are guards named as
such in the modules. Only `MCAlgorithms` turns deadlock checking off: `chunk` returns, and a function is applied once.

## 4. What is proved

`NamespaceProofs`, for every set of names, every number of inodes, every bound on link
counts:

* `NamespaceTypeCorrect`: `TypeOK` holds whatever fails, ignored failures and
  interrupted symlinks included.
* `ListingAlwaysAgrees` and `AlwaysReachable`: in every environment in which no
  statement with a dropped result fails and `symlink` is not interrupted. Failing
  begins, inserts, updates, deletes and commits, leaked transactions and crashes at any
  other point are all included.

The two assumptions of these two theorems are necessary, as section 5 explains.
The argument: `Reachable` is not inductive, since it says nothing of the lists that
`rmdir` and `rename` decide on. `TreeOK` adds that parent and name identify a row, that
every parent is a directory, that no set of inodes is closed under taking parents
without the root (no cycles), and `ListingOf`. `IndInv` is `TreeOK` of `rows` and of
`disk`, with `rows = disk` outside of a transaction: a leaked transaction commits
nothing, and a remount falls back to a table that is itself a tree. Each statement
sequence (insert and push, drop and delete, the five statements of rename) has a lemma
that it takes a tree to a tree, each action one that it preserves `IndInv`. The move of a
directory is the one delicate case: that no cycle arises uses the kernel's check, stated
as the existence of a set with the new parent and all its ancestors but not the moved
directory. The proofs rest on `NamespaceAssumption` (the name of the root is no file
name, there is an attribute, bounds are natural numbers), which TLC evaluates in every
`Namespace` run.

Further, from `IndInv` or in place of it:

* `LinksAlwaysCover`, under the same assumptions: `NlinkCovers` next to `IndInv`. A
  directory's subdirectories are counted before and after each statement sequence; the
  rename between two directories is the case in which both counts change.
* `NamespaceImplementsDirTree`, under the same assumptions: the initial table maps to the
  initial tree, and under `IndInv` every handler maps to one operation of `DirTree` or
  leaves the tree alone. That list and rows agree is what makes `rmdir` and `rename` find
  empty what the tree has as empty.
* `ErrorsAlwaysChangeNothing`, an action property, if commits do not fail. (A commit that
  fails may leave the transaction open: the handler replies an error, and the mount goes on
  with the change.)
* `OnlySymlinksAreStranded`, with interrupted symlinks, if no statement with a dropped
  result fails. `IndInv` does not hold then. `WeakTree` says of directories and files
  only what `TreeOK` says of all inodes: each is in the list of a parent, and no set of
  them is closed under taking parents. `EmptyHasNoSolid` is its point: what `rmdir` takes
  for empty holds at most symlinks.

`DeadmanProofs`, for every list of triggers and phases, every grace period and every
number of armings, from `DeadmanAssumption` (the constants have their types):

* `DeadmanTypeCorrect`. `TypeOK` alone is not inductive: that the number of errors stays
  in range needs `ErrorsCounted`, no more errors than completed phases.
* `AlwaysOneUnstopped`: `OneUnstopped` is inductive next to these two (`IndInv`).
* `DisarmedAlwaysSurvives`, that is `Spec => DisarmedInTimeSurvives`, a temporal formula:
  `Safe(d)` (daemon d is told to stop and in time, or has stopped for that reason)
  follows from the moment of the disarm, is preserved by every step of every daemon and of
  the service, and excludes the destruction. The one way out of it would be a sleep of
  the grace loop longer than what is left of it, which "in time" rules out (section 5).

`SharingProofs`, for any number of connections, requests, invites and users and any
bounds, from `SharingAssumption`:

* `SharingTypeCorrect`, `UsesStayWithinMax`, `SharesArePaid` and `RevokeIsFinal`, all from
  one inductive invariant, `IInv`. What the properties say of the table is not inductive:
  a request writes back a copy that it read earlier. `CopyInv` says that the copy is up to
  date, that a share about to be made has been counted, and that a request about to count
  holds an invite that is not revoked; this rests on `LockInv` (a connection has one holder) and
  `ThroughInv` (a request at work is recorded with its connection), which together make
  two requests at work on an invite of one connection the same request.

`AlgorithmsProofs`, for every input, configuration and set of fingerprints, and for
arguments of any size:

* `ChunkerTypeCorrect`, `ChunksAlwaysTile` and `ChunkSizesHold`, for every rolling hash, from
  the invariant `IInv`: at the head of the loop the chunks so far tile the data up to
  `chunk_start`, `i` is `min_size` bytes further at least, and the chunk that the next byte
  would end is not too long. That tiling survives an appended chunk is a lemma about
  `validate`.
* `CutsContentDefined`, for the hash of the code, from `RabinAssumption`: the modulus is not
  0 and the radix to the power of the window size is 0 in its words, as 256^48 is modulo
  2^64. `ContentDefined` speaks of finished chunks only. `ContentInv` adds `Looked`: the
  fingerprint is the one of the current chunk's own bytes, and none of the shorter chunks
  could have ended.
* `ManifestsExact`, for any list of blocks that are not empty. That every byte is in exactly
  one block implies that each block begins where the one before it ends: otherwise the
  first byte of a gap, or the first byte of the later block, is in none or in two.
* `GlobsExact`, for any pattern whose parts have a star at one end at most (a star elsewhere
  is literal, section 5). The lengths that `glob_match_parts` collects for the last k parts
  are those of the ends of the path that can be aligned with these parts (`FitsFrom`), by
  induction on k; the patterns of the shortcut align with every path.
* `CatchAllAlwaysDecides`, for any policy: a rule at the end that matches everything makes
  the set of matching rules non-empty, and a rule behind it has a larger number.
* `ReferencesComeBack` and `OnlyLastByteUnchecked`, for any sizes of references, words and bytes
  with one byte behind the reference that fits into a word, and any four lists in each of which no
  word is repeated (`SentenceAssumption`). Numbers are determined by their bits, and every
  choice of bits is a number; after w rounds of the loop of `decode_ref` the bits of the
  first w words are in their places and no other is set (`PaddedBits`), and the places
  behind the reference are the lowest bits of the last word (`PlacesLeftOut`). The first
  theorem is the round trip; the second measures finding 3: a sentence that decodes is the
  one its reference is encoded as in every bit but those of the missing check byte.
* `BlocksAuthentic`, for data of any length. What is authenticated is the caller's data with
  a header of fixed length behind it, so that equal sums have equal parts (`SameEnds`).

`ManifestsExact`, `GlobsExact`, `CatchAllAlwaysDecides`, `ReferencesComeBack` and
`BlocksAuthentic` hold of every sample (`AlgorithmsAssumption` says what samples are made of).
What the recursive functions compute is proved without the library's induction theorems,
which take an operator: `Induction` is about a subset of the natural numbers, from the
existence of a least element of its complement, and `Recursion` shows that the function
that a recursive definition chooses exists and satisfies its equation.

`FileDataProofs`, for files of any length and any number of files, handles, blocks and
messages, from `FileDataAssumption`:

* `FileDataTypeOK` and `ManifestsStayBacked`, whatever fails and whatever is unlinked while
  it is open. `IInv` has the types, relative to the rows and messages that exist, and
  follows a manifest through the row (`LengthsRight`) to the message (`BlocksStored`);
  `NeedsTransport` says why a mount without a transport has no manifest to follow.
* `ContentsStoredOnce`, if the query for a hash does not fail: `flush` takes a failed query
  for "not found" (`fs.rs:171`), so that a second row with the same content is inserted.
* `RefCountsAlwaysCover`, if `increment_ref` does not fail: its result is dropped
  (`fs.rs:172`). What is counted is the set of files with the block, which a flush
  changes by one file.
* `ClosedReadsBack`, if open files are not unlinked (finding 2 is what happens otherwise).
  It needs that a handle belongs to the file that has its number now (`HandlesLive`) and
  that what was closed is what the manifest has (`ClosedIsManifest`); that a read of the
  block at any offset yields the bytes of the file is a lemma about the range that `read`
  cuts out of it.

`BlockCacheProofs`, for any number of threads and blocks of any sizes, from
`BlockCacheAssumption`:

* `SizeIsAlwaysSum`, `FilesAreFound`, `EntriesStayBacked`, from one invariant, `IInv`. The
  properties speak of the index and the files; a thread between two locked parts has
  changed one and not yet the other. `WritesToFile`, `WrittenIsIndexed`, `PutOnce` and
  `PutBacked` say what such a thread can rely on. Eviction is a prefix of the index, so
  that the sums need lemmas about the blocks of a suffix. Removals may fail: what stays is
  never a file that is indexed, and a put that writes over it takes it out of `left`.
* `HitsAlwaysServed`, an action property, from `EntriesBacked` before the step that reads the
  file: whatever happened since the hit, an entry that is still there has its file.
* `OvershootStaysBounded`, if every block fits into the cache: a larger one is kept
  (`block_cache.rs:217`). `OvershootBounded` is not inductive, since an eviction makes room
  for its own block only. `Room` counts the bytes of all puts under way as well, each
  thread's at most once.

`VolumesProofs`, for any number of requests, commands, mounts, blocks, database files and epochs,
from `VolumesAssumption`:

* `VolumesTypeOK`, `DestroyedStaysDestroyed`, `SessionsStayBacked` and `RotationsKeepTrack`,
  from one invariant, `IInv`, because they lean on each other. `DeletedIsGone` strengthens
  `DestroyedForGood` to what a late step finds: after a delete the directory is away unless a
  mount made it again, and no rotation is left that could write the configuration back unless
  one overlapped. `OpensUndisturbed` and
  `SessionUndisturbed` carry what an open has found over its awaits: nothing deletes, and
  the database it has opened is the one in the directory. `RotationAlone` and
  `RotationDone` say where a rotation is: it holds the epoch of the configuration, which
  is cut off only in its last step, and the rows it has passed are at the next epoch.
  `FreshIsEmpty` says that a volume whose creator has not written its configuration has
  nothing to open, rotate or shred, which the create's write would otherwise overwrite.
* `SessionsReplacedOnlyInRace`, an action property: `Insert` is the only step that puts a
  session into the map, and `OpensLookedBefore` says that an open that finds one there has
  looked before it was.

`TelegramProofs`, for any number of calls, permits, attempts and messages, from
`TelegramAssumption`:

* `AckedStaysStored`, `MissingIsGone`, `StraysStayBounded`, from `IInv`: `Staged` says which
  steps belong to which operation, `Counted` that every lost message is one failed attempt
  of the call, `Targeted` that a scan has the message it looks for, if it exists, still
  before it. That a scan which goes from a message to the next older one passes none by
  rests on a lemma about the greatest element of a finite set of numbers.
* `LoginsLast`, next to `CopyCurrent`: the copy that a login has loaded is what the file has,
  unless the file has changed since, in which case the login's success is not counted.
* `PermitsNeverLeak`, next to `IInv`: a transfer is in the line of its semaphore from its call
  to its return, any call is in that of the mutex exactly while its next step needs it, once,
  and nobody else is in a line. It is what the fairness argument for `CallsEnd` leans on: the
  first in a line is always a call that has a next step. Each shape of a step (join, drop the
  guard, return, go on) has a lemma about the lines. `TelegramTypeOK` follows.

Each of these inductive invariants was checked with TLC on the instances of the runs
before it was proved. The modules with sums, greatest elements or recursion take existence of a
least number from the well-foundedness of the natural numbers.

Only model-checked:

* liveness under fairness (`DisarmStops`, `ViolationDestroys`, `CallsEnd`), which is out of
  the prover's reach. Every invariant and every other action property of the passing
  runs is stated by a theorem.

## 5. Findings and observations

Findings, each with a run that shows it:

1. `rename` onto a full directory returns from inside its transaction
   (`fs.rs:990`). Later mutations fail, or are acknowledged into a transaction that is
   lost with the process.
2. `next_ino` gives out the number of an unlinked file while it is open
   (`inode_store.rs:220`); its close overwrites the new file.
3. `docs/SentenceRefs_v1_Specification.md:115` puts a check byte behind the reference and has it
   verified when a sentence is decoded (line 147). `encode_ref` puts a zero there
   (`encode.rs:16`), and `decode_ref` drops it (`decode.rs:35`): a sentence with another
   last word of the list can decode to the same reference, and one with another word elsewhere
   decodes to another reference, both without an error.

Observed while modelling, without a run of their own. The namespace and files:

* `symlink` has no transaction (`fs.rs:1093`): after a crash between its two statements
  the parent's list lacks the entry and `rmdir` removes a directory that has one.
* A handle's buffer replaces the whole file at close (`fs.rs:621`), also when only a part
  of an existing file was written.
* `unlink`, `rmdir` and `rename` commit although an update with a dropped result has
  failed (`fs.rs:809`, `866`, `993`): with `"ignored"` in `MayFail`, `ListingAgrees`
  does not hold.
* A rename that replaces an empty directory leaves the new parent's link count one too
  high, which is why `NlinkCovers` is an inequality.
* No code path decrements a reference count, which is why `RefCountsCover` is one.
* A failed download is an empty reply, the end of the file to an application
  (`fs.rs:727`); `ReadBack` allows for exactly this.
* The `mount` command builds the filesystem without a transport
  (`cli/src/commands/volume.rs:96`): buffers are then dropped at close. `FileData` is
  about a mount that has one (`HasTransport`), as the end-to-end tests build it.
* `setattr` that cuts a file and grows it again makes the old bytes readable
  (`fs.rs:368`).

The dead man's switch and the cache:

* A disarm during the last second of the grace period is not noticed (`daemon.rs:115`).
* The daemon calls the executor without paths (`daemon.rs:122`), so that the phases that
  shred the database and wipe the cache do nothing.
* A daemon that has ended by itself is still held: the switch is reported as armed, and
  cannot be armed again before it is disarmed (`service/deadman.rs:78`).
* A heartbeat trigger never fires (`hooks/mod.rs:57`).
* The refusal of a custom command quotes its first 40 bytes (`destroy.rs:105`). If they end
  inside a character the slice panics, and the later phases are not run, although the
  executor means to "Continue with remaining phases even on error" (`destroy.rs:119`).
  `Deadman` leaves out what commands look like.
* A reopened cache does not know the files in its directory, and a block larger than
  `max_size` evicts everything and is kept (`block_cache.rs:80`, `217`; the instance of
  the run has no such block). `README.md:143` calls this "disk persistence". A block that is
  put twice at once can end up in the index without its file.
* A file that `remove_file` could not remove stays in the directory and is counted nowhere
  (`block_cache.rs:174`, `184`, `229`).

Volumes and rotation:

* `rotate` truncates `volume.json` before it writes it (`key.rs:121`): a crash in between
  leaves a volume that cannot be opened. Two rotations at once can lower the epoch.
* `rotate` encrypts nothing again, and the `mount` command leaves the epoch of new blocks
  at 0, whatever the configuration says (`docs/GETTING_STARTED.md:262` has new writes use
  the current epoch). `RotationKeepsTrack` leaves out rows written after the listing.
* `volume delete` on the command line does not know of the server's sessions, which
  `SessionBacked` takes into account. Two opens that race replace one session by another.
* A mount that overlaps a delete brings the directory of the volume back
  (`block_cache.rs:74`, `209`), empty but for the cache, although the delete has replied that
  all is gone. If a rotation is under way as well, its write of `volume.json` then succeeds and
  the volume can be opened, without its database: the command line announces to "permanently
  destroy" it (`cli/src/commands/volume.rs:185`). `DestroyedForGood` says that nothing less
  does. The blocks that `Volumes` lets a mount write need a transport, which the command does
  not pass: they stand for the filesystem as the end-to-end tests build it.
* The REST handlers for mount and unmount change no state.

Invites: two connections (a session that was replaced, or the command line) can lose a
use, exceed `max_uses` or undo a revocation, which is why the properties say `Serial`.
`revoke_invite` drops its errors and has no caller in the API or the command line. The REST
handler cuts `max_uses` to 32 bits (`handlers/sharing.rs:133`): 2^32 becomes 0, no limit.

The Telegram client:

* `check_password` takes the token, so the second and third attempt of `auth.rs:142` can
  not succeed.
* The mutex around the client is held during network requests: the permits of
  `max_concurrent_uploads` never run in parallel.
* `connected` is set before the client is installed and never reset; a save that fails
  after a sign-in replies an error and leaves the client connected.
* Login saves the session in the working directory, status and logout look in the
  configuration directory first: a logout that finds a file there leaves the client's
  (`auth.rs:181`; the first case of `Logout`).
* A logout between the load of the session and the question whether it is authorized
  (`client.rs:103`, `116`) leaves a login that replies "Already authenticated" and no session
  file. This is why `LoginLasts` counts a removal from the load.

The algorithms:

* With `min_size = max_size` a chunk has one byte more than `max_size`, and no cut is made
  at exactly `min_size`. 256^48 is 0 modulo 2^64, so the byte that leaves the window never
  counts in the hash: it covers the whole chunk, and `ContentDefined` holds.
* A star in the middle of a segment, or two of them, is taken literally by
  `glob_match_segment`.
* The production word lists share most of their words, so that a sentence with two words
  exchanged can decode without an error, to something else.
* SRB1 cuts the length of its data to 32 bits: more than that is encoded and never
  decoded. `parse_duration` multiplies without a check (`policy/parser.rs:164`).
* `cdc::chunk`, `FileManifest::validate`, SRB1, `DedupIndex` and `PolicyEngine` are called
  by nothing but tests so far.

## 6. Not modelled, and the plan

Left out for good: the primitives of the cryptography crates (used by contract: hashes
do not collide, an altered ciphertext or additional data does not decrypt), the
compression library, routing, argument parsing, prompting and printing, stores whose
every operation is one statement on one row, `DedupIndex` (a wrapper of one map), the
parser of policy files (text to rules), and the word lists, which alone are 16,398 of the
repository's lines. Of the effects of the destruction phases none reaches a file that
another component uses, as long as the daemon passes no paths. Unit tests inside the
source files are not modelled either. For these reasons the mapped lines are a small
share of all lines; they are most of those that change shared state.

Left to do, in this order:

1. `FileData` over `Telegram`: the transport that `FileData` takes to succeed or fail as
   an abstract specification that `Telegram` implements, and the proof that it does.
2. Policy rules and epochs in the handlers, once the code calls them.
