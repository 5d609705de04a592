----------------------------- MODULE Namespace -----------------------------
(***************************************************************************)
(* The directory tree of a mounted volume: the FUSE handlers of CryptFs    *)
(* that create, remove and move entries, over the inodes table of the      *)
(* volume's SQLite database.                                               *)
(*                                                                         *)
(* The kernel calls one handler at a time (every handler takes &mut self), *)
(* so a handler is one action.  What a handler is exposed to is the        *)
(* database: a statement can fail, the process can die, and the changes of *)
(* a transaction that is still open are lost with it.  rows is the table   *)
(* as the mount's connection sees it, disk the table a new connection      *)
(* would see.                                                              *)
(***************************************************************************)
EXTENDS Naturals, FiniteSets

CONSTANTS
    Names,     \* file names (rows carry a hash of them; hashes do not collide)
    NoName,    \* the name of the root directory, ""
    Attrs,     \* what setattr can set: mode, owner, size and times as one value
    MaxIno,    \* bound: inode numbers are 1..MaxIno
    MaxNlink,  \* bound: on the link count of a directory
    MayFail    \* the places where this environment makes the code fail

(***************************************************************************)
(* The places of failure.  The first five are statements whose result the  *)
(* handlers look at; "ignored" is every statement whose result they drop   *)
(* (let _ = ..., if let Ok(Some(..)) = ...); "crash" is the death of the   *)
(* process between the two statements of symlink, the one mutation of two  *)
(* statements without a transaction.  A crash anywhere else is a Remount.  *)
(***************************************************************************)
FailurePoints == {"begin", "insert", "update", "delete", "commit", "ignored", "crash"}

ASSUME NamespaceAssumption ==
    /\ NoName \notin Names
    /\ Attrs # {}
    /\ MaxIno \in Nat \ {0}
    /\ MaxNlink \in Nat /\ MaxNlink >= 2
    /\ MayFail \subseteq FailurePoints

Inos == 1..MaxIno
Root == 1
Kinds == {"dir", "file", "symlink"}
Replies == {"none", "ok", "ENOENT", "ENOTDIR", "EISDIR", "EEXIST", "ENOTEMPTY", "EIO"}

(***************************************************************************)
(* A row of the inodes table.  children is a Vec in the code: it is only   *)
(* ever pushed to, filtered and tested for emptiness, so a set tells apart *)
(* all the code does.  The file's manifest is the business of FileData.    *)
(***************************************************************************)
Inode == [parent: 0..MaxIno, name: Names \cup {NoName}, kind: Kinds,
          nlink: 0..MaxNlink, children: SUBSET Inos, attr: Attrs]

VARIABLES
    rows,   \* the inodes table, by inode number, as the mount's connection sees it
    disk,   \* the inodes table as committed
    txn,    \* the connection is inside a transaction between two handlers
    reply   \* what the last handler replied to the kernel

vars == <<rows, disk, txn, reply>>

IsTable(t) == DOMAIN t \subseteq Inos /\ t \in [DOMAIN t -> Inode]

TypeOK ==
    /\ IsTable(rows)
    /\ IsTable(disk)
    /\ txn \in BOOLEAN
    /\ reply \in Replies

-----------------------------------------------------------------------------
(* Inode constructors.                                                      *)

RootInode ==
    [parent |-> 0, name |-> NoName, kind |-> "dir", nlink |-> 2,
     children |-> {}, attr |-> CHOOSE a \in Attrs : TRUE]

NewInode(p, n, k, a) ==
    [parent |-> p, name |-> n, kind |-> k, nlink |-> IF k = "dir" THEN 2 ELSE 1,
     children |-> {}, attr |-> a]

-----------------------------------------------------------------------------
(* The statements of InodeStore.                                            *)

IsDir(r, i) == i \in DOMAIN r /\ r[i].kind = "dir"

\* lookup: the rows with this parent and name, at most one.
Entry(r, p, n) == {i \in DOMAIN r : r[i].parent = p /\ r[i].name = n}

\* next_ino: one more than the largest inode number in the table.
IsNextIno(r, i) ==
    /\ \A j \in DOMAIN r : j < i
    /\ i = 1 \/ i - 1 \in DOMAIN r

\* insert succeeds: PRIMARY KEY (ino) and UNIQUE (parent, name_hash).
CanInsert(r, i, p, n) == i \notin DOMAIN r /\ Entry(r, p, n) = {}

Insert(r, i, inode) ==
    [j \in DOMAIN r \cup {i} |-> IF j = i THEN inode ELSE r[j]]

\* update: nothing when there is no such row; refused by the UNIQUE index when
\* another row has the parent and name.
Update(r, i, inode) ==
    IF i \in DOMAIN r /\ Entry(r, inode.parent, inode.name) \subseteq {i}
      THEN [r EXCEPT ![i] = inode] ELSE r

Delete(r, i) == [j \in DOMAIN r \ {i} |-> r[j]]

\* A directory's inode with another list of children and another link count.
WithChildren(inode, C, links) == [inode EXCEPT !.children = C, !.nlink = links]

SaturatingSub(a, b) == IF a < b THEN 0 ELSE a - b

\* Mutant: the link count is not raised for a subdirectory.
PushChildUncounted(r, p, c, links) ==
    IF p \notin DOMAIN r THEN r
    ELSE Update(r, p, WithChildren(r[p], r[p].children \cup {c}, r[p].nlink))

\* Reading a directory, putting c on its list of children and writing it back.
PushChild(r, p, c, links) ==
    IF p \notin DOMAIN r THEN r
    ELSE Update(r, p, WithChildren(r[p], r[p].children \cup {c}, r[p].nlink + links))

\* Mutant: the list is written back unfiltered.
DropChildUnfiltered(r, p, c, links) ==
    IF p \notin DOMAIN r THEN r
    ELSE Update(r, p, WithChildren(r[p], r[p].children, SaturatingSub(r[p].nlink, links)))

\* Reading a directory, filtering c out of its children and writing it back.
DropChild(r, p, c, links) ==
    IF p \notin DOMAIN r THEN r
    ELSE Update(r, p, WithChildren(r[p], r[p].children \ {c}, SaturatingSub(r[p].nlink, links)))

\* Mutant: directories are removed and replaced with their entries.
NeverFull(r, i) == FALSE

\* A directory with entries, by its list of children.
Full(r, i) == IsDir(r, i) /\ r[i].children # {}

-----------------------------------------------------------------------------
(* Transactions, replies and mounting.                                      *)

\* The handler replies an error before it has changed anything, or after a
\* rollback to the table it found (it runs in a transaction of its own only
\* when none was open).
Fail(code) == reply' = code /\ UNCHANGED <<rows, disk, txn>>

\* BEGIN IMMEDIATE is refused inside a transaction.
BeginFails == (txn \/ "begin" \in MayFail) /\ Fail("EIO")

\* Mutant: the handler returns from inside its transaction.
NotRolledBack(new) == rows' = new /\ txn' = TRUE /\ reply' = "EIO" /\ UNCHANGED disk

\* rollback_txn, when a statement after those that gave new has failed.
RollBack(new) == Fail("EIO")

\* COMMIT of a transaction whose table is new.  When it fails, SQLite has
\* either rolled the transaction back or left it open; the handlers do neither.
Commit(new, codeIfFailed) ==
    \/ rows' = new /\ disk' = new /\ txn' = FALSE /\ reply' = "ok"
    \/ /\ "commit" \in MayFail
       /\ reply' = codeIfFailed
       /\ UNCHANGED disk
       /\ \/ rows' = new /\ txn' = TRUE
          \/ UNCHANGED <<rows, txn>>

\* A statement outside of begin/commit: on disk at once, unless a
\* transaction was left open.
AutoCommit(new) ==
    /\ rows' = new
    /\ disk' = IF txn THEN disk ELSE new
    /\ UNCHANGED txn

\* Whether a statement whose result is ignored took effect.
Effect == IF "ignored" \in MayFail THEN BOOLEAN ELSE {TRUE}

\* init: the root inode is inserted when it is missing.
Mounted(d) == IF Root \in DOMAIN d THEN d ELSE Insert(d, Root, RootInode)

\* The process ends (crash, kill or unmount) and the volume is mounted again:
\* an open transaction is gone.
Remount ==
    /\ rows' = Mounted(disk)
    /\ disk' = Mounted(disk)
    /\ txn' = FALSE
    /\ reply' = "none"

-----------------------------------------------------------------------------
(* The handlers.                                                            *)

\* mkdir and create: a checked transaction of an insert and an update.
NewEntry(p, n, k, a) ==
    LET links == IF k = "dir" THEN 1 ELSE 0
        inserted(i) == Insert(rows, i, NewInode(p, n, k, a))
    IN
    \/ p \notin DOMAIN rows /\ Fail("ENOENT")
    \/ p \in DOMAIN rows /\ ~IsDir(rows, p) /\ Fail("ENOTDIR")
    \/ IsDir(rows, p) /\ Entry(rows, p, n) # {} /\ Fail("EEXIST")
    \/ /\ IsDir(rows, p) /\ Entry(rows, p, n) = {}
       /\ rows[p].nlink + links <= MaxNlink
       /\ \E i \in Inos :
            /\ IsNextIno(rows, i)
            /\ \/ BeginFails
               \/ ~txn /\ "insert" \in MayFail /\ RollBack(rows)
               \/ ~txn /\ "update" \in MayFail /\ RollBack(inserted(i))
               \/ ~txn /\ CanInsert(rows, i, p, n)
                  /\ Commit(PushChild(inserted(i), p, i, links), "EIO")

Mkdir(p, n, a) == NewEntry(p, n, "dir", a)
Create(p, n, a) == NewEntry(p, n, "file", a)

\* symlink: the same insert and update, but no look for an existing entry, no
\* transaction, and the result of the update is ignored.
Symlink(p, n, a) ==
    \/ ~IsDir(rows, p) /\ Fail("ENOENT")
    \/ /\ IsDir(rows, p)
       /\ \E i \in Inos :
            /\ IsNextIno(rows, i)
            /\ LET inserted == Insert(rows, i, NewInode(p, n, "symlink", a)) IN
               \/ (~CanInsert(rows, i, p, n) \/ "insert" \in MayFail) /\ Fail("EIO")
               \/ /\ CanInsert(rows, i, p, n)
                  /\ \E pushed \in Effect :
                       AutoCommit(IF pushed THEN PushChild(inserted, p, i, 0) ELSE inserted)
                  /\ reply' = "ok"
               \/ /\ CanInsert(rows, i, p, n)
                  /\ "crash" \in MayFail
                  /\ rows' = IF txn THEN disk ELSE inserted
                  /\ disk' = rows'
                  /\ txn' = FALSE
                  /\ reply' = "none"

\* The tail of unlink and rmdir.
Remove(i, p, links) ==
    \/ BeginFails
    \/ ~txn /\ "delete" \in MayFail /\ RollBack(DropChild(rows, p, i, links))
    \/ /\ ~txn
       /\ \E dropped \in Effect :
            Commit(Delete(IF dropped THEN DropChild(rows, p, i, links) ELSE rows, i), "ok")

Unlink(p, n) ==
    \/ Entry(rows, p, n) = {} /\ Fail("ENOENT")
    \/ \E i \in Entry(rows, p, n) :
         \/ IsDir(rows, i) /\ Fail("EISDIR")
         \/ ~IsDir(rows, i) /\ Remove(i, p, 0)

Rmdir(p, n) ==
    \/ Entry(rows, p, n) = {} /\ Fail("ENOENT")
    \/ \E i \in Entry(rows, p, n) :
         \/ ~IsDir(rows, i) /\ Fail("ENOTDIR")
         \/ Full(rows, i) /\ Fail("ENOTEMPTY")
         \/ IsDir(rows, i) /\ ~Full(rows, i) /\ Remove(i, p, 1)

\* Some set of rows holds i and the parents of its members but not a: i is not
\* below a.
NotBelow(r, i, a) ==
    \E S \in SUBSET DOMAIN r :
        /\ i \in S /\ a \notin S
        /\ \A j \in S \ {Root} : r[j].parent \in DOMAIN r => r[j].parent \in S

\* What the kernel has made sure of when it calls rename with a source m and an
\* existing destination in E: the new parent is a directory that is not m and
\* not below m, and the destination is another entry of the same kind
\* (directory or not) that m is not below.
KernelAllowsRename(r, m, np, E) ==
    /\ IsDir(r, np)
    /\ NotBelow(r, np, m)
    /\ \A e \in E : e # m /\ NotBelow(r, m, e) /\ (IsDir(r, e) <=> IsDir(r, m))

\* rename once the destination e (none, or one row) is known not to be a
\* directory with children.  Every statement's result is ignored.  inode was
\* read before, and is written back with its new parent and name.
Renamed(r, m, p, np, nn, E, deleted, droppedNew, droppedOld, moved, pushed) ==
    LET links == IF IsDir(r, m) THEN 1 ELSE 0
        inode == [r[m] EXCEPT !.parent = np, !.name = nn]
        r1 == IF E # {} /\ deleted THEN [j \in DOMAIN r \ E |-> r[j]] ELSE r
        r2 == IF E # {} /\ droppedNew /\ np \in DOMAIN r1
                THEN [r1 EXCEPT ![np].children = @ \ E] ELSE r1
        r3 == IF droppedOld THEN DropChild(r2, p, m, links) ELSE r2
        r4 == IF moved THEN Update(r3, m, inode) ELSE r3
    IN IF pushed THEN PushChild(r4, np, m, links) ELSE r4

Rename(p, n, np, nn) ==
    \/ Entry(rows, p, n) = {} /\ Fail("ENOENT")
    \/ \E m \in Entry(rows, p, n) :
         LET E == Entry(rows, np, nn)
             full == \E e \in E : Full(rows, e)
         IN
         /\ KernelAllowsRename(rows, m, np, E)
         /\ rows[np].nlink < MaxNlink
         /\ \/ BeginFails
            \* ENOTEMPTY is found inside the transaction and returned from it.
            \/ ~txn /\ full /\ reply' = "ENOTEMPTY" /\ txn' = TRUE /\ UNCHANGED <<rows, disk>>
            \/ /\ ~txn /\ ~full
               /\ \E deleted, droppedNew, droppedOld, moved, pushed \in Effect :
                    Commit(Renamed(rows, m, p, np, nn, E,
                                   deleted, droppedNew, droppedOld, moved, pushed), "ok")

Setattr(i, a) ==
    \/ i \notin DOMAIN rows /\ Fail("ENOENT")
    \/ i \in DOMAIN rows /\ "update" \in MayFail /\ Fail("EIO")
    \/ /\ i \in DOMAIN rows
       /\ AutoCommit(Update(rows, i, [rows[i] EXCEPT !.attr = a]))
       /\ reply' = "ok"

-----------------------------------------------------------------------------
Init ==
    /\ rows = Mounted(<<>>)
    /\ disk = rows
    /\ txn = FALSE
    /\ reply = "none"

Next ==
    \/ Remount
    \/ \E p \in Inos, n \in Names :
         \/ \E a \in Attrs : Mkdir(p, n, a) \/ Create(p, n, a) \/ Symlink(p, n, a)
         \/ Unlink(p, n)
         \/ Rmdir(p, n)
         \/ \E np \in Inos, nn \in Names : Rename(p, n, np, nn)
    \/ \E i \in Inos, a \in Attrs : Setattr(i, a)

Spec == Init /\ [][Next]_vars

-----------------------------------------------------------------------------
(* Properties.                                                              *)

\* Every directory's list of children is the set of rows that name it as their
\* parent.  rmdir and rename decide "is it empty" on the list, readdir and
\* lookup on the rows.
ListingOf(r) ==
    \A i \in DOMAIN r : r[i].children = {j \in DOMAIN r : r[j].parent = i}
ListingAgrees == ListingOf(rows) /\ ListingOf(disk)

\* Every inode but the root has a parent row, and it is a directory.
NoOrphanIn(r) == \A i \in DOMAIN r \ {Root} : IsDir(r, r[i].parent)

\* Every set of non-root inodes has a member whose parent is outside the set.
NoCycleIn(r) ==
    \A S \in SUBSET (DOMAIN r \ {Root}) : S # {} => \E i \in S : r[i].parent \notin S

\* At most one row has a given parent and name.
NamesUniqueIn(r) ==
    \A i, j \in DOMAIN r : r[i].parent = r[j].parent /\ r[i].name = r[j].name => i = j

\* The root is there, and is nobody's entry.
RootIn(r) == IsDir(r, Root) /\ r[Root].parent = 0

\* A well-formed table; together with the relation of rows and disk, the
\* inductive invariant behind ListingAgrees and Reachable.
TreeOK(r) ==
    /\ IsTable(r)
    /\ RootIn(r)
    /\ NamesUniqueIn(r)
    /\ ListingOf(r)
    /\ NoOrphanIn(r)
    /\ NoCycleIn(r)

IndInv ==
    /\ TreeOK(rows)
    /\ TreeOK(disk)
    /\ txn \in BOOLEAN /\ reply \in Replies
    /\ ~txn => rows = disk

\* Every inode can be reached from the root by readdir: a set of inodes that
\* holds the root and the entries of its members holds them all.
ReachableIn(r) ==
    \A S \in SUBSET DOMAIN r :
        (Root \in S /\ \A i \in DOMAIN r : r[i].parent \in S => i \in S) => S = DOMAIN r
Reachable == ReachableIn(rows) /\ ReachableIn(disk)

\* A crash between the two statements of symlink can strand symlinks (rmdir
\* and rename see an empty list of children), but never a directory or a file.
OnlySymlinksStrandedIn(r) ==
    \A S \in SUBSET DOMAIN r :
        (Root \in S /\ \A i \in DOMAIN r : r[i].parent \in S => i \in S)
            => \A i \in DOMAIN r \ S : r[i].kind = "symlink"
OnlySymlinksStranded == OnlySymlinksStrandedIn(rows) /\ OnlySymlinksStrandedIn(disk)

Subdirs(r, i) == {j \in DOMAIN r : r[j].parent = i /\ r[j].kind = "dir"}

\* The link count of a directory is never below two plus its subdirectories,
\* so the saturating subtractions of rmdir and rename never saturate.
NlinkCoversIn(r) ==
    \A i \in DOMAIN r : IsDir(r, i) => r[i].nlink >= 2 + Cardinality(Subdirs(r, i))
NlinkCovers == NlinkCoversIn(rows) /\ NlinkCoversIn(disk)

\* A handler that replies an error leaves the tree as it was.
ErrorChangesNothing ==
    [][reply' \in Replies \ {"none", "ok"} => rows' = rows]_vars

\* A handler that replies success has its effect on disk: a crash right after
\* the reply loses nothing that was acknowledged.
AcknowledgedIsDurable == reply = "ok" => disk = rows

\* The tree of the table, without the bookkeeping.
TreeOf(r) == [i \in DOMAIN r |-> [parent |-> r[i].parent, name |-> r[i].name, kind |-> r[i].kind]]

Tree == INSTANCE DirTree WITH Nodes <- Inos, tree <- TreeOf(rows), saved <- TreeOf(disk)

\* Every handler is one whole operation on the tree or none, and the end of the
\* process falls back to a whole earlier tree.
ImplementsDirTree == Tree!Spec
=============================================================================
