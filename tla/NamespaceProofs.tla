-------------------------- MODULE NamespaceProofs --------------------------
(***************************************************************************)
(* Theorems about Namespace, for any number of names and inodes.           *)
(***************************************************************************)
EXTENDS Namespace, FiniteSetTheorems, TLAPS

-----------------------------------------------------------------------------
(* What the statements of InodeStore do to a table.                         *)

\* An update keeps the set of rows, and every row but its own.
LEMMA UpdateTable ==
    ASSUME NEW r, IsTable(r), NEW i, NEW x \in Inode
    PROVE  /\ IsTable(Update(r, i, x))
           /\ DOMAIN Update(r, i, x) = DOMAIN r
           /\ \A j \in DOMAIN r \ {i} : Update(r, i, x)[j] = r[j]
           /\ i \in DOMAIN r => Update(r, i, x)[i] \in {r[i], x}
  <1>1. CASE i \in DOMAIN r /\ Entry(r, x.parent, x.name) \subseteq {i}
    BY <1>1 DEF IsTable, Update
  <1>2. CASE ~(i \in DOMAIN r /\ Entry(r, x.parent, x.name) \subseteq {i})
    BY <1>2 DEF Update
  <1> QED BY <1>1, <1>2

\* The inodes the constructors build are well typed.
LEMMA NewInodeType ==
    ASSUME NEW p \in Inos, NEW n \in Names, NEW k \in Kinds, NEW a \in Attrs
    PROVE  NewInode(p, n, k, a) \in Inode
  BY NamespaceAssumption DEF NewInode, Inode, Inos

\* The row that init inserts for the root is a row.
LEMMA RootInodeType == RootInode \in Inode
  BY NamespaceAssumption DEF RootInode, Inode, Inos, Kinds

\* An inode with another list of children and another link count.
LEMMA WithChildrenType ==
    ASSUME NEW y \in Inode, NEW C \in SUBSET Inos, NEW l \in 0..MaxNlink
    PROVE  /\ WithChildren(y, C, l) \in Inode
           /\ WithChildren(y, C, l).nlink = l
           /\ WithChildren(y, C, l).children = C
           /\ WithChildren(y, C, l).parent = y.parent
           /\ WithChildren(y, C, l).name = y.name
           /\ WithChildren(y, C, l).kind = y.kind
  BY DEF Inode, WithChildren

\* The link count that rmdir or rename takes one off stays in range.
LEMMA SaturatingSubType ==
    ASSUME NEW a \in 0..MaxNlink, NEW b \in {0, 1}
    PROVE  /\ SaturatingSub(a, b) \in 0..MaxNlink
           /\ SaturatingSub(a, b) <= a /\ SaturatingSub(a, b) + b >= a
  BY NamespaceAssumption DEF SaturatingSub

\* Pushing onto a list of children, below the bound on links.
LEMMA PushChildTable ==
    ASSUME NEW r, IsTable(r), NEW p, NEW c \in Inos, NEW links \in {0, 1},
           p \in DOMAIN r => r[p].nlink + links <= MaxNlink
    PROVE  /\ IsTable(PushChild(r, p, c, links))
           /\ DOMAIN PushChild(r, p, c, links) = DOMAIN r
           /\ \A j \in DOMAIN r \ {p} : PushChild(r, p, c, links)[j] = r[j]
  <1>1. CASE p \notin DOMAIN r
    BY <1>1 DEF PushChild
  <1>2. CASE p \in DOMAIN r
    <2>1. r[p] \in Inode
      BY <1>2 DEF IsTable
    <2>2. r[p].children \cup {c} \in SUBSET Inos /\ r[p].nlink + links \in 0..MaxNlink
      BY <1>2, <2>1, NamespaceAssumption DEF Inode
    <2> DEFINE x == WithChildren(r[p], r[p].children \cup {c}, r[p].nlink + links)
    <2>3. x \in Inode
      BY <2>1, <2>2, WithChildrenType
    <2>4. PushChild(r, p, c, links) = Update(r, p, x)
      BY <1>2 DEF PushChild
    <2> HIDE DEF x
    <2> QED BY <2>3, <2>4, UpdateTable
  <1> QED BY <1>1, <1>2

\* Filtering a list of children.
LEMMA DropChildTable ==
    ASSUME NEW r, IsTable(r), NEW p, NEW c, NEW links \in {0, 1}
    PROVE  /\ IsTable(DropChild(r, p, c, links))
           /\ DOMAIN DropChild(r, p, c, links) = DOMAIN r
           /\ \A j \in DOMAIN r \ {p} : DropChild(r, p, c, links)[j] = r[j]
           /\ p \in DOMAIN r => DropChild(r, p, c, links)[p].nlink <= r[p].nlink
  <1>1. CASE p \notin DOMAIN r
    BY <1>1 DEF DropChild
  <1>2. CASE p \in DOMAIN r
    <2> DEFINE x == WithChildren(r[p], r[p].children \ {c}, SaturatingSub(r[p].nlink, links))
    <2>1. r[p] \in Inode
      BY <1>2 DEF IsTable
    <2>2. r[p].children \ {c} \in SUBSET Inos /\ r[p].nlink \in 0..MaxNlink
          /\ r[p].nlink <= r[p].nlink
      BY <2>1, NamespaceAssumption DEF Inode
    <2>3. x \in Inode /\ x.nlink <= r[p].nlink
      BY <2>1, <2>2, WithChildrenType, SaturatingSubType
    <2>4. DropChild(r, p, c, links) = Update(r, p, x)
      BY <1>2 DEF DropChild
    <2> HIDE DEF x
    <2> QED BY <1>2, <2>2, <2>3, <2>4, UpdateTable
  <1> QED BY <1>1, <1>2

-----------------------------------------------------------------------------
(* What the mutations do to a well-formed table.                            *)

\* An update that keeps the names unique takes effect.
LEMMA UpdateHit ==
    ASSUME NEW r, IsTable(r), NEW i \in DOMAIN r, NEW x \in Inode,
           Entry(r, x.parent, x.name) \subseteq {i}
    PROVE  Update(r, i, x)[i] = x
  BY DEF IsTable, Update

\* Writing a row back with its own parent and name is never refused.
LEMMA OwnEntry ==
    ASSUME NEW r, NamesUniqueIn(r), NEW i \in DOMAIN r
    PROVE  Entry(r, r[i].parent, r[i].name) \subseteq {i}
  BY DEF NamesUniqueIn, Entry

\* No row of a well-formed table is its own parent.
LEMMA NotOwnParent ==
    ASSUME NEW r, TreeOK(r), NEW i \in DOMAIN r
    PROVE  r[i].parent # i
  <1>1. CASE i = Root
    BY <1>1 DEF TreeOK, RootIn, Root
  <1>2. CASE i # Root
    <2>1. {i} \in SUBSET (DOMAIN r \ {Root}) /\ {i} # {}
      BY <1>2
    <2>2. PICK j \in {i} : r[j].parent \notin {i}
      BY <2>1 DEF TreeOK, NoCycleIn
    <2> QED BY <2>2
  <1> QED BY <1>1, <1>2

\* A table whose names are unique, and whose rows are not their own parents.
SoundRows(r) == IsTable(r) /\ NamesUniqueIn(r) /\ \A i \in DOMAIN r : r[i].parent # i

\* A well-formed table is one.
LEMMA TreeSound ==
    ASSUME NEW r, TreeOK(r)
    PROVE  SoundRows(r)
  BY NotOwnParent DEF TreeOK, SoundRows

\* s is r with one more row x at i, one more child of its parent p, and links
\* more links of p.
Added(r, s, p, i, x, links) ==
    /\ p \in DOMAIN r /\ p # i
    /\ IsTable(s) /\ DOMAIN s = DOMAIN r \cup {i}
    /\ s[i] = x
    /\ s[p].children = r[p].children \cup {i} /\ s[p].nlink = r[p].nlink + links
    /\ \A j \in DOMAIN r : s[j].parent = r[j].parent /\ s[j].name = r[j].name /\ s[j].kind = r[j].kind
    /\ \A j \in DOMAIN r \ {p} : s[j] = r[j]

\* What mkdir, create and symlink make of a table.
LEMMA AddShape ==
    ASSUME NEW r, SoundRows(r), NEW p, IsDir(r, p), NEW i \in Inos \ DOMAIN r,
           NEW n \in Names, NEW k \in Kinds, NEW a \in Attrs,
           NEW links \in {0, 1}, r[p].nlink + links <= MaxNlink
    PROVE  Added(r, PushChild(Insert(r, i, NewInode(p, n, k, a)), p, i, links),
                 p, i, NewInode(p, n, k, a), links)
  <1> DEFINE x == NewInode(p, n, k, a)
             q == Insert(r, i, x)
             y == WithChildren(r[p], r[p].children \cup {i}, r[p].nlink + links)
  <1>1. p \in DOMAIN r /\ IsTable(r) /\ p \in Inos
    BY DEF IsDir, SoundRows, IsTable
  <1>2. x \in Inode /\ x.parent = p
    BY <1>1, NewInodeType DEF NewInode
  <1>3. /\ r[p] \in Inode
        /\ r[p].children \cup {i} \in SUBSET Inos /\ r[p].nlink + links \in 0..MaxNlink
    BY <1>1, NamespaceAssumption DEF IsTable, Inode
  <1> HIDE DEF x
  <1>4. NamesUniqueIn(r) /\ r[p].parent # p /\ p # i
    BY <1>1 DEF SoundRows
  <1>5. /\ IsTable(q) /\ DOMAIN q = DOMAIN r \cup {i} /\ q[i] = x
        /\ \A j \in DOMAIN r : q[j] = r[j]
    BY <1>1, <1>2 DEF Insert, IsTable
  <1>6. /\ y \in Inode /\ y.parent = r[p].parent /\ y.name = r[p].name /\ y.kind = r[p].kind
        /\ y.children = r[p].children \cup {i} /\ y.nlink = r[p].nlink + links
    BY <1>3, WithChildrenType
  <1> DEFINE s == PushChild(q, p, i, links)
  <1>7. s = Update(q, p, y)
    BY <1>1, <1>5 DEF PushChild
  <1> HIDE DEF q, y, s
  <1>8. Entry(q, y.parent, y.name) \subseteq {p}
    BY <1>1, <1>2, <1>4, <1>5, <1>6, OwnEntry DEF Entry
  <1>9. /\ IsTable(s) /\ DOMAIN s = DOMAIN q /\ s[p] = y
        /\ \A j \in DOMAIN q \ {p} : s[j] = q[j]
    BY <1>1, <1>5, <1>6, <1>7, <1>8, UpdateTable, UpdateHit
  <1>10. Added(r, s, p, i, x, links)
    BY <1>1, <1>4, <1>5, <1>6, <1>9 DEF Added
  <1> QED BY <1>10 DEF x, q, s

\* A well-formed table stays well formed when an entry is added to a directory.
LEMMA AddTree ==
    ASSUME NEW r, TreeOK(r), NEW p, IsDir(r, p), NEW i \in Inos \ DOMAIN r,
           NEW n \in Names, NEW k \in Kinds, NEW a \in Attrs,
           Entry(r, p, n) = {}, NEW links \in {0, 1}, r[p].nlink + links <= MaxNlink
    PROVE  TreeOK(PushChild(Insert(r, i, NewInode(p, n, k, a)), p, i, links))
  <1> DEFINE x == NewInode(p, n, k, a)
             s == PushChild(Insert(r, i, x), p, i, links)
  <1>1. p \in DOMAIN r /\ IsTable(r) /\ p \in Inos
    BY DEF IsDir, TreeOK, IsTable
  <1>2. /\ x \in Inode /\ x.parent = p /\ x.name = n /\ x.kind = k /\ x.children = {}
    BY <1>1, NewInodeType DEF NewInode
  <1>4. /\ IsTable(s)
        /\ DOMAIN s = DOMAIN r \cup {i}
        /\ s[i] = x
        /\ s[p].children = r[p].children \cup {i}
        /\ \A j \in DOMAIN r : /\ s[j].parent = r[j].parent /\ s[j].name = r[j].name
                               /\ s[j].kind = r[j].kind
        /\ \A j \in DOMAIN r \ {p} : s[j] = r[j]
    <2>1. Added(r, s, p, i, x, links)
      BY AddShape, TreeSound
    <2> HIDE DEF s, x
    <2> QED BY <2>1 DEF Added
  <1>5. s[p].children = r[p].children \cup {i}
    BY <1>4
  <1> HIDE DEF x, s
  <1>6. \A j \in DOMAIN r : s[j].parent = r[j].parent /\ s[j].name = r[j].name /\ s[j].kind = r[j].kind
    BY <1>4
  <1>7. RootIn(s)
    BY <1>4, <1>6 DEF TreeOK, RootIn, IsDir
  <1>8. NamesUniqueIn(s)
    BY <1>2, <1>4, <1>6 DEF TreeOK, NamesUniqueIn, Entry
  <1>9. \A j \in DOMAIN r : r[j].parent # i
    BY DEF TreeOK, RootIn, NoOrphanIn, IsDir, Inos, Root
  <1>10. ListingOf(s)
    <2> SUFFICES ASSUME NEW d \in DOMAIN s
                 PROVE  s[d].children = {j \in DOMAIN s : s[j].parent = d}
      BY DEF ListingOf
    <2>1. CASE d = i
      <3>1. {j \in DOMAIN s : s[j].parent = i} = {}
        BY <1>1, <1>2, <1>4, <1>6, <1>9
      <3> QED BY <2>1, <3>1, <1>2, <1>4
    <2>2. CASE d = p
      <3>1. {j \in DOMAIN s : s[j].parent = p} = {j \in DOMAIN r : r[j].parent = p} \cup {i}
        BY <1>2, <1>4, <1>6
      <3>2. r[p].children = {j \in DOMAIN r : r[j].parent = p}
        BY <1>1 DEF TreeOK, ListingOf
      <3> QED BY <2>2, <3>1, <3>2, <1>5
    <2>3. CASE d \in DOMAIN r \ {p}
      BY <2>3, <1>2, <1>4, <1>6 DEF TreeOK, ListingOf
    <2> QED BY <2>1, <2>2, <2>3, <1>4
  <1>11. NoOrphanIn(s)
    BY <1>1, <1>2, <1>4, <1>6 DEF TreeOK, NoOrphanIn, IsDir
  <1>12. NoCycleIn(s)
    <2> SUFFICES ASSUME NEW S \in SUBSET (DOMAIN s \ {Root}), S # {}
                 PROVE  \E j \in S : s[j].parent \notin S
      BY DEF NoCycleIn
    <2>1. CASE S \ {i} = {}
      BY <2>1, <1>1, <1>2, <1>4
    <2>2. CASE S \ {i} # {}
      <3>1. S \ {i} \in SUBSET (DOMAIN r \ {Root})
        BY <1>4
      <3>2. PICK j \in S \ {i} : r[j].parent \notin S \ {i}
        BY <2>2, <3>1 DEF TreeOK, NoCycleIn
      <3> QED BY <1>4, <1>6, <1>9, <3>1, <3>2
    <2> QED BY <2>1, <2>2
  <1> QED BY <1>4, <1>7, <1>8, <1>10, <1>11, <1>12 DEF TreeOK, s, x

\* Two tables with the same rows in the same places.
SameEntries(r, s) ==
    /\ DOMAIN s = DOMAIN r
    /\ \A j \in DOMAIN r : s[j].parent = r[j].parent /\ s[j].name = r[j].name /\ s[j].kind = r[j].kind

\* Tables that agree on parents and names agree on their uniqueness.
LEMMA SameEntriesUnique ==
    ASSUME NEW r, NEW s, SameEntries(r, s), NamesUniqueIn(r)
    PROVE  NamesUniqueIn(s)
  BY DEF SameEntries, NamesUniqueIn

\* Filtering a list of children changes that list, and no place.
LEMMA DropChildShape ==
    ASSUME NEW r, IsTable(r), NamesUniqueIn(r), NEW p \in DOMAIN r, NEW c, NEW links \in {0, 1},
           NEW s, s = DropChild(r, p, c, links)
    PROVE  /\ IsTable(s) /\ SameEntries(r, s)
           /\ s[p].children = r[p].children \ {c}
           /\ s[p].nlink <= r[p].nlink /\ s[p].nlink + links >= r[p].nlink
           /\ \A j \in DOMAIN r \ {p} : s[j] = r[j]
  <1> DEFINE x == WithChildren(r[p], r[p].children \ {c}, SaturatingSub(r[p].nlink, links))
  <1>1. r[p] \in Inode
    BY DEF IsTable
  <1>2. r[p].children \ {c} \in SUBSET Inos /\ r[p].nlink \in 0..MaxNlink
    BY <1>1, NamespaceAssumption DEF Inode
  <1>3. /\ x \in Inode /\ x.nlink <= r[p].nlink /\ x.nlink + links >= r[p].nlink
        /\ x.children = r[p].children \ {c}
        /\ x.parent = r[p].parent /\ x.name = r[p].name /\ x.kind = r[p].kind
    BY <1>1, <1>2, WithChildrenType, SaturatingSubType
  <1>4. s = Update(r, p, x)
    BY DEF DropChild
  <1> HIDE DEF x
  <1>5. Entry(r, x.parent, x.name) \subseteq {p}
    BY <1>3, OwnEntry
  <1>6. /\ IsTable(s) /\ DOMAIN s = DOMAIN r /\ s[p] = x
        /\ \A j \in DOMAIN r \ {p} : s[j] = r[j]
    BY <1>3, <1>4, <1>5, UpdateTable, UpdateHit
  <1>7. SameEntries(r, s)
    BY <1>3, <1>6 DEF SameEntries
  <1> QED BY <1>3, <1>6, <1>7

\* Pushing onto a list of children changes that list, and no place.
LEMMA PushChildShape ==
    ASSUME NEW r, IsTable(r), NamesUniqueIn(r), NEW p \in DOMAIN r, NEW c \in Inos,
           NEW links \in {0, 1}, r[p].nlink + links \in 0..MaxNlink,
           NEW s, s = PushChild(r, p, c, links)
    PROVE  /\ IsTable(s) /\ SameEntries(r, s)
           /\ s[p].children = r[p].children \cup {c}
           /\ s[p].nlink = r[p].nlink + links
           /\ \A j \in DOMAIN r \ {p} : s[j] = r[j]
  <1> DEFINE x == WithChildren(r[p], r[p].children \cup {c}, r[p].nlink + links)
  <1>1. r[p] \in Inode
    BY DEF IsTable
  <1>2. r[p].children \cup {c} \in SUBSET Inos
    BY <1>1 DEF Inode
  <1>3. /\ x \in Inode /\ x.children = r[p].children \cup {c} /\ x.nlink = r[p].nlink + links
        /\ x.parent = r[p].parent /\ x.name = r[p].name /\ x.kind = r[p].kind
    BY <1>1, <1>2, WithChildrenType
  <1>4. s = Update(r, p, x)
    BY DEF PushChild
  <1> HIDE DEF x
  <1>5. Entry(r, x.parent, x.name) \subseteq {p}
    BY <1>3, OwnEntry
  <1>6. /\ IsTable(s) /\ DOMAIN s = DOMAIN r /\ s[p] = x
        /\ \A j \in DOMAIN r \ {p} : s[j] = r[j]
    BY <1>3, <1>4, <1>5, UpdateTable, UpdateHit
  <1>7. SameEntries(r, s)
    BY <1>3, <1>6 DEF SameEntries
  <1> QED BY <1>3, <1>6, <1>7

\* s is r without the row i and without i among the children of its parent p, if
\* there is one, whose links went down by at most links.
Removed(r, s, p, i, links) ==
    /\ IsTable(s) /\ DOMAIN s = DOMAIN r \ {i}
    /\ p \in DOMAIN s => /\ s[p].children = r[p].children \ {i}
                         /\ s[p].nlink + links >= r[p].nlink
    /\ \A j \in DOMAIN s : s[j].parent = r[j].parent /\ s[j].name = r[j].name /\ s[j].kind = r[j].kind
    /\ \A j \in DOMAIN s \ {p} : s[j] = r[j]

\* What unlink and rmdir make of a table.
LEMMA RemoveShape ==
    ASSUME NEW r, SoundRows(r), NEW i \in DOMAIN r, NEW p, NEW links \in {0, 1}
    PROVE  Removed(r, Delete(DropChild(r, p, i, links), i), p, i, links)
  <1> DEFINE q == DropChild(r, p, i, links)
             s == Delete(q, i)
  <1>1. IsTable(r) /\ NamesUniqueIn(r)
    BY DEF SoundRows
  <1>2. /\ IsTable(q) /\ SameEntries(r, q)
        /\ p \in DOMAIN r => /\ q[p].children = r[p].children \ {i}
                             /\ q[p].nlink + links >= r[p].nlink
        /\ \A j \in DOMAIN r \ {p} : q[j] = r[j]
    <2>1. CASE p \in DOMAIN r
      <3>1. q = DropChild(r, p, i, links)
        OBVIOUS
      <3> HIDE DEF q
      <3> QED BY <1>1, <2>1, <3>1, DropChildShape
    <2>2. CASE p \notin DOMAIN r
      BY <1>1, <2>2 DEF DropChild, SameEntries
    <2> QED BY <2>1, <2>2
  <1> HIDE DEF q
  <1>3. DOMAIN q = DOMAIN r
    BY <1>2 DEF SameEntries
  <1>4. /\ IsTable(s) /\ DOMAIN s = DOMAIN r \ {i}
        /\ \A j \in DOMAIN r \ {i} : s[j] = q[j]
    BY <1>2, <1>3 DEF Delete, IsTable
  <1> HIDE DEF s
  <1>5. Removed(r, s, p, i, links)
    BY <1>1, <1>2, <1>3, <1>4 DEF Removed, SameEntries
  <1> QED BY <1>5 DEF s, q

\* A well-formed table stays well formed when an entry without entries of its
\* own is removed.
LEMMA RemoveTree ==
    ASSUME NEW r, TreeOK(r), NEW i \in DOMAIN r \ {Root}, NEW p, r[i].parent = p,
           r[i].children = {}, NEW links \in {0, 1}
    PROVE  TreeOK(Delete(DropChild(r, p, i, links), i))
  <1> DEFINE s == Delete(DropChild(r, p, i, links), i)
  <1>1. Removed(r, s, p, i, links)
    BY RemoveShape, TreeSound
  <1> HIDE DEF s
  <1>a. p \in DOMAIN r /\ p # i
    BY NotOwnParent DEF TreeOK, NoOrphanIn, IsDir
  <1>2. p \in DOMAIN r /\ p # i /\ s[p].children = r[p].children \ {i}
        /\ \A j \in DOMAIN s \ {p} : s[j] = r[j]
    BY <1>1, <1>a DEF Removed
  <1>3. IsTable(s) /\ DOMAIN s = DOMAIN r \ {i}
    BY <1>1 DEF Removed
  <1>4. \A j \in DOMAIN s : s[j].parent = r[j].parent /\ s[j].name = r[j].name /\ s[j].kind = r[j].kind
    BY <1>1 DEF Removed
  <1>5. \A j \in DOMAIN r : r[j].parent # i
    BY DEF TreeOK, ListingOf
  <1>6. RootIn(s)
    BY <1>3, <1>4 DEF TreeOK, RootIn, IsDir
  <1>7. NamesUniqueIn(s)
    BY <1>3, <1>4 DEF TreeOK, NamesUniqueIn
  <1>8. ListingOf(s)
    <2> SUFFICES ASSUME NEW d \in DOMAIN s
                 PROVE  s[d].children = {j \in DOMAIN s : s[j].parent = d}
      BY DEF ListingOf
    <2>1. r[d].children = {j \in DOMAIN r : r[j].parent = d}
      BY <1>3 DEF TreeOK, ListingOf
    <2>2. {j \in DOMAIN s : s[j].parent = d} = {j \in DOMAIN r : r[j].parent = d} \ {i}
      BY <1>3, <1>4
    <2>3. CASE d = p
      BY <2>1, <2>2, <2>3, <1>2, <1>3
    <2>4. CASE d # p
      BY <2>1, <2>2, <2>4, <1>2, <1>3
    <2> QED BY <2>3, <2>4
  <1>9. NoOrphanIn(s)
    BY <1>3, <1>4, <1>5 DEF TreeOK, NoOrphanIn, IsDir
  <1>10. NoCycleIn(s)
    BY <1>3, <1>4 DEF TreeOK, NoCycleIn
  <1> QED BY <1>3, <1>6, <1>7, <1>8, <1>9, <1>10 DEF TreeOK, s

\* s is r with other attributes.
Reattributed(r, s) ==
    /\ IsTable(s) /\ SameEntries(r, s)
    /\ \A j \in DOMAIN r : s[j].children = r[j].children /\ s[j].nlink = r[j].nlink

\* What setattr makes of a table.
LEMMA AttrShape ==
    ASSUME NEW r, SoundRows(r), NEW i \in DOMAIN r, NEW a \in Attrs
    PROVE  Reattributed(r, Update(r, i, [r[i] EXCEPT !.attr = a]))
  <1> DEFINE x == [r[i] EXCEPT !.attr = a]
             s == Update(r, i, x)
  <1>1. IsTable(r) /\ NamesUniqueIn(r) /\ r[i] \in Inode
    BY DEF SoundRows, IsTable
  <1>2. /\ x \in Inode /\ x.parent = r[i].parent /\ x.name = r[i].name
        /\ x.kind = r[i].kind /\ x.children = r[i].children /\ x.nlink = r[i].nlink
    BY <1>1 DEF Inode
  <1> HIDE DEF x
  <1>3. Entry(r, x.parent, x.name) \subseteq {i}
    BY <1>1, <1>2, OwnEntry
  <1>4. /\ IsTable(s) /\ DOMAIN s = DOMAIN r /\ s[i] = x
        /\ \A j \in DOMAIN r \ {i} : s[j] = r[j]
    BY <1>1, <1>2, <1>3, UpdateTable, UpdateHit
  <1> HIDE DEF s
  <1>5. Reattributed(r, s)
    BY <1>2, <1>4 DEF Reattributed, SameEntries
  <1> QED BY <1>5 DEF s, x

\* A well-formed table stays well formed when attributes change.
LEMMA AttrTree ==
    ASSUME NEW r, TreeOK(r), NEW s, Reattributed(r, s)
    PROVE  TreeOK(s)
  <1>1. /\ IsTable(s) /\ DOMAIN s = DOMAIN r
        /\ \A j \in DOMAIN r : /\ s[j].parent = r[j].parent /\ s[j].name = r[j].name
                               /\ s[j].kind = r[j].kind /\ s[j].children = r[j].children
    BY DEF Reattributed, SameEntries
  <1>2. RootIn(s) /\ NamesUniqueIn(s) /\ NoOrphanIn(s)
    BY <1>1 DEF TreeOK, RootIn, NamesUniqueIn, NoOrphanIn, IsDir
  <1>3. ListingOf(s)
    BY <1>1 DEF TreeOK, ListingOf
  <1>4. NoCycleIn(s)
    BY <1>1 DEF TreeOK, NoCycleIn
  <1> QED BY <1>1, <1>2, <1>3, <1>4 DEF TreeOK

\* s is r with the row m at its new place, without the rows E that had the
\* place, with the two lists of children adjusted, and with links that went down
\* by at most 1 in the old parent and up in the new one, for a directory.
Moved(r, s, m, p, np, nn, E) ==
    /\ IsTable(s) /\ DOMAIN s = DOMAIN r \ E
    /\ s[m].parent = np /\ s[m].name = nn
    /\ \A j \in DOMAIN s \ {m} : s[j].parent = r[j].parent /\ s[j].name = r[j].name
    /\ \A j \in DOMAIN s : s[j].kind = r[j].kind
    /\ \A j \in DOMAIN s : s[j].children = IF j = np THEN (r[j].children \ E) \cup {m}
                                           ELSE IF j = p THEN r[j].children \ {m}
                                           ELSE r[j].children
    /\ \A j \in DOMAIN s :
         LET links == IF IsDir(r, m) THEN 1 ELSE 0
         IN s[j].nlink + (IF j = p THEN links ELSE 0) >= r[j].nlink + (IF j = np THEN links ELSE 0)

\* Who is who in a rename: the row that moves, its old and its new parent, and
\* the rows without entries that it replaces.
LEMMA RenameParties ==
    ASSUME NEW r, TreeOK(r), NEW p \in Inos, NEW n \in Names, NEW np \in Inos, NEW nn \in Names,
           NEW m \in Entry(r, p, n), NEW E, E = Entry(r, np, nn),
           KernelAllowsRename(r, m, np, E),
           \A e \in E : ~Full(r, e),
           r[np].nlink < MaxNlink
    PROVE  /\ m \in DOMAIN r \ E /\ r[m].parent = p /\ r[m].name = n /\ m # Root /\ m \in Inos
           /\ p \in DOMAIN r \ E /\ IsDir(r, p) /\ p # m
           /\ np \in DOMAIN r \ E /\ IsDir(r, np) /\ np # m
           /\ E \subseteq DOMAIN r \ {Root}
           /\ \A j \in DOMAIN r : r[j].parent \notin E
  <1>a. /\ IsTable(r) /\ RootIn(r) /\ NamesUniqueIn(r) /\ ListingOf(r)
        /\ NoOrphanIn(r) /\ NoCycleIn(r)
    BY DEF TreeOK
  <1>b. m \in DOMAIN r /\ r[m].parent = p /\ r[m].name = n /\ m # Root /\ m \in Inos
    BY <1>a DEF Entry, RootIn, Inos, IsTable
  <1>c. p \in DOMAIN r /\ IsDir(r, p) /\ p # m
    BY <1>a, <1>b, NotOwnParent DEF NoOrphanIn, IsDir
  <1>d. IsDir(r, np) /\ np \in DOMAIN r /\ np # m /\ m \notin E
    BY DEF KernelAllowsRename, NotBelow, IsDir
  <1>e. np \notin E /\ E \subseteq DOMAIN r \ {Root}
    BY <1>a, <1>d, NotOwnParent DEF Entry, RootIn, Inos
  <1>f. \A j \in DOMAIN r : r[j].parent \notin E
    <2> SUFFICES ASSUME NEW j \in DOMAIN r, NEW e \in E, r[j].parent = e
                 PROVE  FALSE
      OBVIOUS
    <2>1. j # Root
      BY <1>a, <1>e DEF RootIn, IsTable, Inos
    <2>2. IsDir(r, e)
      BY <1>a, <2>1 DEF NoOrphanIn
    <2>3. j \in r[e].children
      BY <1>a, <1>e DEF ListingOf
    <2> QED BY <2>2, <2>3 DEF Full
  <1>g. p \notin E
    BY <1>b, <1>f
  <1> QED BY <1>b, <1>c, <1>d, <1>e, <1>f, <1>g

\* What rename makes of a table when all its statements take effect.
LEMMA RenameShape ==
    ASSUME NEW r, SoundRows(r), NEW p, NEW np \in DOMAIN r, NEW nn \in Names,
           NEW m \in DOMAIN r, r[m].parent = p, NEW E, E = Entry(r, np, nn),
           m \notin E, np \notin E, np # m, r[np].nlink < MaxNlink
    PROVE  Moved(r, Renamed(r, m, p, np, nn, E, TRUE, TRUE, TRUE, TRUE, TRUE), m, p, np, nn, E)
  <1> DEFINE links == IF IsDir(r, m) THEN 1 ELSE 0
             inode == [r[m] EXCEPT !.parent = np, !.name = nn]
             r1 == IF E # {} /\ TRUE THEN [j \in DOMAIN r \ E |-> r[j]] ELSE r
             r2 == IF E # {} /\ TRUE /\ np \in DOMAIN r1
                     THEN [r1 EXCEPT ![np].children = @ \ E] ELSE r1
             r3 == DropChild(r2, p, m, links)
             r4 == Update(r3, m, inode)
             s == PushChild(r4, np, m, links)
  <1>a. IsTable(r) /\ NamesUniqueIn(r) /\ m # p /\ m \in Inos /\ np \in Inos
    BY DEF SoundRows, IsTable
  <1>d. E \subseteq DOMAIN r
    BY DEF Entry
  <1>h. links \in {0, 1}
    OBVIOUS
  <1> HIDE DEF links
  <1>1. /\ IsTable(r1) /\ DOMAIN r1 = DOMAIN r \ E
        /\ \A j \in DOMAIN r \ E : r1[j] = r[j]
    BY <1>a, <1>d DEF IsTable
  <1> HIDE DEF r1
  <1>2. /\ IsTable(r2) /\ DOMAIN r2 = DOMAIN r \ E
        /\ r2[np].children = r[np].children \ E
        /\ \A j \in DOMAIN r2 : /\ r2[j].parent = r[j].parent /\ r2[j].name = r[j].name
                                /\ r2[j].kind = r[j].kind /\ r2[j].nlink = r[j].nlink
        /\ \A j \in DOMAIN r2 \ {np} : r2[j] = r[j]
    <2>1. np \in DOMAIN r1 /\ r1[np] = r[np] /\ r[np] \in Inode
      BY <1>a, <1>d, <1>1 DEF IsTable
    <2>2. CASE E = {}
      <3>1. r2 = r1
        BY <2>2
      <3> QED BY <2>1, <2>2, <3>1, <1>1
    <2>3. CASE E # {}
      <3> DEFINE y == [r[np] EXCEPT !.children = @ \ E]
      <3>1. y \in Inode /\ y.children = r[np].children \ E /\ y.parent = r[np].parent
            /\ y.name = r[np].name /\ y.kind = r[np].kind /\ y.nlink = r[np].nlink
        BY <2>1 DEF Inode
      <3>2. r2 = [r1 EXCEPT ![np] = y]
        BY <2>1, <2>3
      <3> HIDE DEF y, r2
      <3> QED BY <2>1, <3>1, <3>2, <1>1 DEF IsTable
    <2> QED BY <2>2, <2>3
  <1> HIDE DEF r2
  <1>3. NamesUniqueIn(r2) /\ np \in DOMAIN r2 /\ m \in DOMAIN r2
    BY <1>a, <1>d, <1>2 DEF NamesUniqueIn
  <1>4. /\ IsTable(r3) /\ SameEntries(r2, r3)
        /\ p \in DOMAIN r2 => /\ r3[p].children = r2[p].children \ {m}
                              /\ r3[p].nlink <= r2[p].nlink
                              /\ r3[p].nlink + links >= r2[p].nlink
        /\ \A j \in DOMAIN r2 \ {p} : r3[j] = r2[j]
    <2>1. CASE p \in DOMAIN r2
      <3>1. r3 = DropChild(r2, p, m, links)
        OBVIOUS
      <3> HIDE DEF r3
      <3> QED BY <1>2, <1>3, <1>h, <2>1, <3>1, DropChildShape
    <2>2. CASE p \notin DOMAIN r2
      BY <1>2, <2>2 DEF DropChild, SameEntries
    <2> QED BY <2>1, <2>2
  <1> HIDE DEF r3
  <1>5. /\ inode \in Inode /\ inode.parent = np /\ inode.name = nn /\ inode.nlink = r[m].nlink
        /\ inode.kind = r[m].kind /\ inode.children = r[m].children
    <2>1. r[m] \in Inode /\ np \in 0..MaxIno
      BY <1>a, NamespaceAssumption DEF IsTable, Inos
    <2> QED BY <2>1 DEF Inode
  <1> HIDE DEF inode
  <1>6. /\ DOMAIN r3 = DOMAIN r \ E
        /\ \A j \in DOMAIN r3 : /\ r3[j].parent = r[j].parent /\ r3[j].name = r[j].name
                                /\ r3[j].kind = r[j].kind
    BY <1>2, <1>4 DEF SameEntries
  <1>7. Entry(r3, inode.parent, inode.name) \subseteq {m}
    BY <1>5, <1>6 DEF Entry
  <1>8. /\ IsTable(r4) /\ DOMAIN r4 = DOMAIN r \ E /\ r4[m] = inode
        /\ \A j \in DOMAIN r4 \ {m} : r4[j] = r3[j]
    BY <1>3, <1>2, <1>4, <1>5, <1>6, <1>7, UpdateTable, UpdateHit
  <1> HIDE DEF r4
  <1>9. NamesUniqueIn(r4)
    BY <1>a, <1>5, <1>6, <1>8 DEF NamesUniqueIn, Entry
  <1>10. r4[np].nlink + links \in 0..MaxNlink
    <2>1. r4[np] = r3[np] /\ r3[np] \in Inode /\ r[np] \in Inode /\ r2[np].nlink = r[np].nlink
      BY <1>a, <1>d, <1>2, <1>3, <1>4, <1>6, <1>8 DEF IsTable
    <2>2. r3[np].nlink \in 0..MaxNlink /\ r[np].nlink \in 0..MaxNlink
      BY <2>1 DEF Inode
    <2>3. r3[np].nlink <= r[np].nlink
      BY <2>1, <2>2, <1>3, <1>4, NamespaceAssumption
    <2> QED BY <2>1, <2>2, <2>3, <1>h, NamespaceAssumption
  <1>11. /\ IsTable(s) /\ SameEntries(r4, s)
         /\ s[np].children = r4[np].children \cup {m} /\ s[np].nlink = r4[np].nlink + links
         /\ \A j \in DOMAIN r4 \ {np} : s[j] = r4[j]
    <2>1. s = PushChild(r4, np, m, links) /\ np \in DOMAIN r4
      BY <1>3, <1>2, <1>8
    <2> HIDE DEF s
    <2> QED BY <1>a, <1>8, <1>9, <1>10, <1>h, <2>1, PushChildShape
  <1> HIDE DEF s
  <1>12. /\ DOMAIN s = DOMAIN r \ E
         /\ s[m].parent = np /\ s[m].name = nn
         /\ \A j \in DOMAIN s : s[j].kind = r[j].kind
         /\ \A j \in DOMAIN s \ {m} : s[j].parent = r[j].parent /\ s[j].name = r[j].name
    BY <1>3, <1>2, <1>5, <1>6, <1>8, <1>11 DEF SameEntries
  <1>13. \A j \in DOMAIN s : s[j].children = IF j = np THEN (r[j].children \ E) \cup {m}
                                             ELSE IF j = p THEN r[j].children \ {m}
                                             ELSE r[j].children
    <2> SUFFICES ASSUME NEW j \in DOMAIN s
                 PROVE  s[j].children = IF j = np THEN (r[j].children \ E) \cup {m}
                                        ELSE IF j = p THEN r[j].children \ {m}
                                        ELSE r[j].children
      OBVIOUS
    <2>1. j \in DOMAIN r /\ j \in DOMAIN r2 /\ j \in DOMAIN r3 /\ j \in DOMAIN r4
      BY <1>2, <1>6, <1>8, <1>12
    <2>2. CASE j = np
      <3>1. s[j].children = r3[j].children \cup {m}
        BY <2>1, <2>2, <1>8, <1>11
      <3>2. r3[j].children \in {r2[j].children, r2[j].children \ {m}}
        BY <2>1, <1>4
      <3> QED BY <2>2, <3>1, <3>2, <1>2
    <2>3. CASE j # np /\ j = m
      BY <2>1, <2>3, <1>a, <1>5, <1>8, <1>11
    <2>4. CASE j # np /\ j # m
      <3>1. s[j] = r3[j] /\ r2[j] = r[j]
        BY <2>1, <2>4, <1>2, <1>8, <1>11
      <3>2. r3[j].children = IF j = p THEN r2[j].children \ {m} ELSE r2[j].children
        BY <2>1, <1>4
      <3> QED BY <2>4, <3>1, <3>2
    <2> QED BY <2>2, <2>3, <2>4
  <1>14. \A j \in DOMAIN s :
           s[j].nlink + (IF j = p THEN links ELSE 0) >= r[j].nlink + (IF j = np THEN links ELSE 0)
    <2> SUFFICES ASSUME NEW j \in DOMAIN s
                 PROVE  s[j].nlink + (IF j = p THEN links ELSE 0)
                           >= r[j].nlink + (IF j = np THEN links ELSE 0)
      OBVIOUS
    <2>1. j \in DOMAIN r /\ j \in DOMAIN r2 /\ j \in DOMAIN r3 /\ j \in DOMAIN r4
      BY <1>2, <1>6, <1>8, <1>12
    <2>2. r2[j].nlink = r[j].nlink /\ r[j].nlink \in Nat /\ r3[j].nlink \in Nat /\ s[j].nlink \in Nat
      BY <2>1, <1>a, <1>2, <1>4, <1>11, NamespaceAssumption DEF IsTable, Inode
    <2>3. r3[j].nlink + (IF j = p THEN links ELSE 0) >= r2[j].nlink
      BY <2>1, <2>2, <1>4, <1>h
    <2>4. j # m => s[j].nlink = r3[j].nlink + (IF j = np THEN links ELSE 0)
      BY <2>1, <2>2, <1>8, <1>11, <1>h
    <2>5. j = m => s[j].nlink = r[j].nlink
      BY <2>1, <1>a, <1>5, <1>8, <1>11
    <2> QED BY <2>2, <2>3, <2>4, <2>5, <1>a, <1>h
  <1>15. s = Renamed(r, m, p, np, nn, E, TRUE, TRUE, TRUE, TRUE, TRUE)
    BY DEF Renamed, s, r4, r3, r2, r1, inode, links
  <1>16. Moved(r, s, m, p, np, nn, E)
    BY <1>11, <1>12, <1>13, <1>14 DEF Moved, links
  <1> QED BY <1>15, <1>16

\* A well-formed table stays well formed when rename moves an entry, replacing
\* what has the new name if that has no entries of its own.
LEMMA RenameTree ==
    ASSUME NEW r, TreeOK(r), NEW p \in Inos, NEW n \in Names, NEW np \in Inos, NEW nn \in Names,
           NEW m \in Entry(r, p, n), NEW E, E = Entry(r, np, nn),
           KernelAllowsRename(r, m, np, E),
           \A e \in E : ~Full(r, e),
           r[np].nlink < MaxNlink
    PROVE  TreeOK(Renamed(r, m, p, np, nn, E, TRUE, TRUE, TRUE, TRUE, TRUE))
  <1> DEFINE s == Renamed(r, m, p, np, nn, E, TRUE, TRUE, TRUE, TRUE, TRUE)
  <1>2. /\ m \in DOMAIN r \ E /\ r[m].parent = p /\ m # Root
        /\ np \in DOMAIN r \ E /\ IsDir(r, np) /\ np # m
        /\ E \subseteq DOMAIN r \ {Root}
        /\ \A j \in DOMAIN r : r[j].parent \notin E
    BY RenameParties
  <1>1. Moved(r, s, m, p, np, nn, E)
    BY <1>2, TreeSound, RenameShape
  <1> HIDE DEF s
  <1>3. /\ DOMAIN s = DOMAIN r \ E /\ IsTable(s)
        /\ s[m].parent = np /\ s[m].name = nn
        /\ \A j \in DOMAIN s : s[j].kind = r[j].kind
        /\ \A j \in DOMAIN s \ {m} : s[j].parent = r[j].parent /\ s[j].name = r[j].name
        /\ \A j \in DOMAIN s : s[j].children = IF j = np THEN (r[j].children \ E) \cup {m}
                                               ELSE IF j = p THEN r[j].children \ {m}
                                               ELSE r[j].children
    BY <1>1 DEF Moved
  <1>a. /\ IsTable(r) /\ RootIn(r) /\ NamesUniqueIn(r) /\ ListingOf(r)
        /\ NoOrphanIn(r) /\ NoCycleIn(r)
    BY DEF TreeOK
  <1>4. RootIn(s)
    BY <1>a, <1>2, <1>3 DEF RootIn, IsDir
  <1>5. NamesUniqueIn(s)
    BY <1>a, <1>2, <1>3 DEF NamesUniqueIn, Entry
  <1>6. NoOrphanIn(s)
    BY <1>a, <1>2, <1>3 DEF NoOrphanIn, IsDir
  <1>7. ListingOf(s)
    <2> SUFFICES ASSUME NEW d \in DOMAIN s
                 PROVE  s[d].children = {j \in DOMAIN s : s[j].parent = d}
      BY DEF ListingOf
    <2>1. r[d].children = {j \in DOMAIN r : r[j].parent = d}
      BY <1>a, <1>3 DEF ListingOf
    <2>2. CASE d = np
      <3>1. {j \in DOMAIN s : s[j].parent = d} = ({j \in DOMAIN r : r[j].parent = d} \ E) \cup {m}
        BY <2>2, <1>2, <1>3
      <3> QED BY <2>1, <2>2, <3>1, <1>3
    <2>3. CASE d # np
      <3>1. {j \in DOMAIN s : s[j].parent = d} = {j \in DOMAIN r : r[j].parent = d} \ {m}
        BY <2>3, <1>2, <1>3 DEF Entry
      <3>2. d # p => m \notin {j \in DOMAIN r : r[j].parent = d}
        BY <1>2
      <3> QED BY <2>1, <2>3, <3>1, <3>2, <1>3
    <2> QED BY <2>2, <2>3
  <1>8. NoCycleIn(s)
    <2> SUFFICES ASSUME NEW S \in SUBSET (DOMAIN s \ {Root}), S # {},
                        \A j \in S : s[j].parent \in S
                 PROVE  FALSE
      BY DEF NoCycleIn
    <2>1. PICK A \in SUBSET DOMAIN r :
            /\ np \in A /\ m \notin A
            /\ \A j \in A \ {Root} : r[j].parent \in DOMAIN r => r[j].parent \in A
      BY DEF KernelAllowsRename, NotBelow
    <2>2. CASE m \notin S
      BY <2>2, <1>a, <1>3 DEF NoCycleIn
    <2>3. CASE m \in S
      <3>1. np \in S \cap A
        BY <2>1, <2>3, <1>3
      <3>2. S \cap A \in SUBSET (DOMAIN r \ {Root})
        BY <1>3
      <3>3. \A j \in S \cap A : r[j].parent \in S \cap A
        BY <2>1, <1>3, <3>2
      <3> QED BY <3>1, <3>2, <3>3, <1>a DEF NoCycleIn
    <2> QED BY <2>2, <2>3
  <1> QED BY <1>3, <1>4, <1>5, <1>6, <1>7, <1>8 DEF TreeOK, s

-----------------------------------------------------------------------------
(* The invariant, for environments in which a failed statement is noticed.  *)

\* A freshly mounted volume has a well-formed table.
LEMMA InitTree ==
    ASSUME Init
    PROVE  IndInv
  <1>1. DOMAIN <<>> = {}
    OBVIOUS
  <1>2. rows = [j \in {Root} |-> RootInode]
    BY <1>1, Zenon DEF Init, Mounted, Insert
  <1>3. rows[Root] = RootInode /\ DOMAIN rows = {Root} /\ Root \in Inos
    BY <1>2, NamespaceAssumption DEF Inos, Root
  <1>4. /\ RootInode.parent = 0 /\ RootInode.kind = "dir" /\ RootInode.children = {}
        /\ RootInode \in Inode
    BY RootInodeType DEF RootInode
  <1>5. IsTable(rows) /\ RootIn(rows) /\ NamesUniqueIn(rows) /\ NoOrphanIn(rows)
    BY <1>2, <1>3, <1>4 DEF IsTable, RootIn, IsDir, NamesUniqueIn, NoOrphanIn
  <1>6. ListingOf(rows)
    BY <1>3, <1>4 DEF ListingOf, Root
  <1>7. NoCycleIn(rows)
    BY <1>3 DEF NoCycleIn
  <1>8. TreeOK(rows)
    BY <1>5, <1>6, <1>7 DEF TreeOK
  <1> QED BY <1>8 DEF Init, IndInv, Replies

\* A committed or failed transaction between two well-formed tables.
LEMMA CommitInv ==
    ASSUME IndInv, NEW new, TreeOK(new), NEW code \in Replies, Commit(new, code), ~txn
    PROVE  IndInv'
  BY DEF IndInv, Commit, Replies

\* A statement outside of begin/commit between two well-formed tables.
LEMMA AutoCommitInv ==
    ASSUME IndInv, NEW new, TreeOK(new), AutoCommit(new), reply' \in Replies
    PROVE  IndInv'
  BY DEF IndInv, AutoCommit

\* An error reply keeps the invariant: nothing changes.
LEMMA FailInv ==
    ASSUME IndInv, NEW code \in Replies, Fail(code)
    PROVE  IndInv'
  BY DEF IndInv, Fail

\* mkdir and create keep the invariant.
LEMMA NewEntryInv ==
    ASSUME IndInv, NEW p \in Inos, NEW n \in Names, NEW k \in Kinds, NEW a \in Attrs,
           NewEntry(p, n, k, a)
    PROVE  IndInv'
  <1> DEFINE links == IF k = "dir" THEN 1 ELSE 0
  <1>1. CASE \E code \in Replies : Fail(code)
    BY <1>1, FailInv
  <1>2. ASSUME NEW i \in Inos, IsDir(rows, p), Entry(rows, p, n) = {},
               rows[p].nlink + links <= MaxNlink, ~txn, CanInsert(rows, i, p, n),
               Commit(PushChild(Insert(rows, i, NewInode(p, n, k, a)), p, i, links), "EIO")
        PROVE  IndInv'
    <2>1. i \in Inos \ DOMAIN rows /\ TreeOK(rows) /\ "EIO" \in Replies
      BY <1>2 DEF CanInsert, IndInv, Replies
    <2>2. links \in {0, 1}
      OBVIOUS
    <2> HIDE DEF links
    <2>3. TreeOK(PushChild(Insert(rows, i, NewInode(p, n, k, a)), p, i, links))
      BY <1>2, <2>1, <2>2, AddTree
    <2> QED BY <1>2, <2>1, <2>3, CommitInv
  <1> QED
    BY <1>1, <1>2 DEF NewEntry, RollBack, BeginFails, Replies

\* symlink keeps the invariant when nothing comes between its two statements.
LEMMA SymlinkInv ==
    ASSUME IndInv, NEW p \in Inos, NEW n \in Names, NEW a \in Attrs, Symlink(p, n, a),
           "ignored" \notin MayFail, "crash" \notin MayFail
    PROVE  IndInv'
  <1>1. CASE \E code \in Replies : Fail(code)
    BY <1>1, FailInv
  <1>2. ASSUME NEW i \in Inos, IsDir(rows, p), CanInsert(rows, i, p, n), reply' = "ok",
               AutoCommit(PushChild(Insert(rows, i, NewInode(p, n, "symlink", a)), p, i, 0))
        PROVE  IndInv'
    <2>1. /\ i \in Inos \ DOMAIN rows /\ TreeOK(rows) /\ Entry(rows, p, n) = {}
          /\ "symlink" \in Kinds /\ reply' \in Replies /\ 0 \in {0, 1}
      BY <1>2 DEF CanInsert, IndInv, Replies, Kinds
    <2>2. rows[p].nlink + 0 <= MaxNlink
      <3>1. rows[p] \in Inode
        BY <1>2, <2>1 DEF TreeOK, IsTable, IsDir
      <3> QED BY <3>1, NamespaceAssumption DEF Inode
    <2>3. TreeOK(PushChild(Insert(rows, i, NewInode(p, n, "symlink", a)), p, i, 0))
      BY <1>2, <2>1, <2>2, AddTree
    <2> QED BY <1>2, <2>1, <2>3, AutoCommitInv
  <1> QED
    BY <1>1, <1>2 DEF Symlink, Effect, Replies

\* The tail of unlink and rmdir keeps the invariant.
LEMMA RemoveInv ==
    ASSUME IndInv, NEW p \in Inos, NEW n \in Names, NEW i \in Entry(rows, p, n),
           rows[i].children = {}, NEW links \in {0, 1}, Remove(i, p, links),
           "ignored" \notin MayFail
    PROVE  IndInv'
  <1>1. CASE \E code \in Replies : Fail(code)
    BY <1>1, FailInv
  <1>2. CASE ~txn /\ Commit(Delete(DropChild(rows, p, i, links), i), "ok")
    <2>1. /\ TreeOK(rows) /\ i \in DOMAIN rows \ {Root} /\ rows[i].parent = p
          /\ "ok" \in Replies
      BY DEF IndInv, TreeOK, RootIn, Entry, Inos, Replies
    <2>2. TreeOK(Delete(DropChild(rows, p, i, links), i))
      BY <2>1, RemoveTree
    <2> QED BY <1>2, <2>1, <2>2, CommitInv
  <1> QED
    BY <1>1, <1>2 DEF Remove, RollBack, BeginFails, Effect, Replies

\* A file or symlink never has entries: its list of children is empty.
LEMMA LeafHasNoChildren ==
    ASSUME NEW r, TreeOK(r), NEW i \in DOMAIN r, ~IsDir(r, i)
    PROVE  r[i].children = {}
  <1> SUFFICES ASSUME NEW j \in r[i].children
               PROVE  FALSE
    OBVIOUS
  <1>1. j \in DOMAIN r /\ r[j].parent = i
    BY DEF TreeOK, ListingOf
  <1>2. i \in Inos
    BY DEF TreeOK, IsTable
  <1>3. j # Root
    BY <1>1, <1>2 DEF TreeOK, RootIn, Inos
  <1> QED BY <1>1, <1>3 DEF TreeOK, NoOrphanIn

\* unlink keeps the invariant: what it removes has no entries.
LEMMA UnlinkInv ==
    ASSUME IndInv, NEW p \in Inos, NEW n \in Names, Unlink(p, n), "ignored" \notin MayFail
    PROVE  IndInv'
  <1>1. CASE \E code \in Replies : Fail(code)
    BY <1>1, FailInv
  <1>2. ASSUME NEW i \in Entry(rows, p, n), ~IsDir(rows, i), Remove(i, p, 0)
        PROVE  IndInv'
    <2>1. rows[i].children = {} /\ 0 \in {0, 1}
      BY <1>2, LeafHasNoChildren DEF IndInv, Entry
    <2> QED BY <1>2, <2>1, RemoveInv
  <1> QED
    BY <1>1, <1>2 DEF Unlink, Replies

\* rmdir keeps the invariant: the list it looks at is the truth.
LEMMA RmdirInv ==
    ASSUME IndInv, NEW p \in Inos, NEW n \in Names, Rmdir(p, n), "ignored" \notin MayFail
    PROVE  IndInv'
  <1>1. CASE \E code \in Replies : Fail(code)
    BY <1>1, FailInv
  <1>2. ASSUME NEW i \in Entry(rows, p, n), rows[i].children = {}, Remove(i, p, 1)
        PROVE  IndInv'
    <2>1. 1 \in {0, 1}
      OBVIOUS
    <2> QED BY <1>2, <2>1, RemoveInv
  <1> QED
    BY <1>1, <1>2 DEF Rmdir, Full, Replies

\* rename keeps the invariant, also when it returns ENOTEMPTY from inside its
\* transaction.
LEMMA RenameInv ==
    ASSUME IndInv, NEW p \in Inos, NEW n \in Names, NEW np \in Inos, NEW nn \in Names,
           Rename(p, n, np, nn), "ignored" \notin MayFail
    PROVE  IndInv'
  <1> DEFINE E == Entry(rows, np, nn)
             full == \E e \in E : Full(rows, e)
  <1>1. CASE \E code \in Replies : Fail(code)
    BY <1>1, FailInv
  <1>2. CASE reply' = "ENOTEMPTY" /\ txn' = TRUE /\ UNCHANGED <<rows, disk>>
    BY <1>2 DEF IndInv, Replies
  <1>3. ASSUME NEW m \in Entry(rows, p, n), KernelAllowsRename(rows, m, np, E),
               rows[np].nlink < MaxNlink, ~txn, ~full,
               Commit(Renamed(rows, m, p, np, nn, E, TRUE, TRUE, TRUE, TRUE, TRUE), "ok")
        PROVE  IndInv'
    <2>1. \A e \in E : ~Full(rows, e)
      BY <1>3
    <2>2. TreeOK(rows) /\ "ok" \in Replies /\ E = Entry(rows, np, nn)
      BY DEF IndInv, Replies
    <2> HIDE DEF E, full
    <2>3. TreeOK(Renamed(rows, m, p, np, nn, E, TRUE, TRUE, TRUE, TRUE, TRUE))
      BY <1>3, <2>1, <2>2, RenameTree
    <2> QED BY <1>3, <2>2, <2>3, CommitInv
  <1> QED
    BY <1>1, <1>2, <1>3 DEF Rename, BeginFails, Effect, Replies

\* setattr keeps the invariant.
LEMMA SetattrInv ==
    ASSUME IndInv, NEW i \in Inos, NEW a \in Attrs, Setattr(i, a)
    PROVE  IndInv'
  <1>1. CASE \E code \in Replies : Fail(code)
    BY <1>1, FailInv
  <1>2. CASE i \in DOMAIN rows /\ reply' = "ok"
             /\ AutoCommit(Update(rows, i, [rows[i] EXCEPT !.attr = a]))
    <2>1. TreeOK(rows) /\ reply' \in Replies
      BY <1>2 DEF IndInv, Replies
    <2>2. TreeOK(Update(rows, i, [rows[i] EXCEPT !.attr = a]))
      BY <1>2, <2>1, TreeSound, AttrShape, AttrTree
    <2> QED BY <1>2, <2>1, <2>2, AutoCommitInv
  <1> QED
    BY <1>1, <1>2 DEF Setattr, Replies

\* The invariant is inductive: it holds on a fresh volume, and every handler,
\* and the end of the process at any point of it, preserves it.
LEMMA IndInvInductive ==
    ASSUME IndInv, [Next]_vars, "ignored" \notin MayFail, "crash" \notin MayFail
    PROVE  IndInv'
  <1>1. CASE Remount
    <2>1. Mounted(disk) = disk
      BY DEF IndInv, TreeOK, RootIn, IsDir, Mounted
    <2> QED BY <1>1, <2>1 DEF Remount, IndInv, Replies
  <1>2. ASSUME NEW p \in Inos, NEW n \in Names, NEW a \in Attrs, Mkdir(p, n, a)
        PROVE  IndInv'
    <2>1. "dir" \in Kinds
      BY DEF Kinds
    <2> QED BY <1>2, <2>1, NewEntryInv DEF Mkdir
  <1>3. ASSUME NEW p \in Inos, NEW n \in Names, NEW a \in Attrs, Create(p, n, a)
        PROVE  IndInv'
    <2>1. "file" \in Kinds
      BY DEF Kinds
    <2> QED BY <1>3, <2>1, NewEntryInv DEF Create
  <1>4. ASSUME NEW p \in Inos, NEW n \in Names, NEW a \in Attrs, Symlink(p, n, a)
        PROVE  IndInv'
    BY <1>4, SymlinkInv
  <1>5. ASSUME NEW p \in Inos, NEW n \in Names, Unlink(p, n)
        PROVE  IndInv'
    BY <1>5, UnlinkInv
  <1>6. ASSUME NEW p \in Inos, NEW n \in Names, Rmdir(p, n)
        PROVE  IndInv'
    BY <1>6, RmdirInv
  <1>7. ASSUME NEW p \in Inos, NEW n \in Names, NEW np \in Inos, NEW nn \in Names,
               Rename(p, n, np, nn)
        PROVE  IndInv'
    BY <1>7, RenameInv
  <1>8. ASSUME NEW i \in Inos, NEW a \in Attrs, Setattr(i, a)
        PROVE  IndInv'
    BY <1>8, SetattrInv
  <1>9. CASE UNCHANGED vars
    BY <1>9 DEF vars, IndInv
  <1> QED
    BY <1>1, <1>2, <1>3, <1>4, <1>5, <1>6, <1>7, <1>8, <1>9 DEF Next

\* In a well-formed table every inode is reachable from the root: the inodes
\* outside a set closed under "entry of" would have one whose parent is inside.
LEMMA TreeReachable ==
    ASSUME NEW r, TreeOK(r)
    PROVE  ReachableIn(r)
  <1> SUFFICES ASSUME NEW S \in SUBSET DOMAIN r, Root \in S,
                      \A i \in DOMAIN r : r[i].parent \in S => i \in S,
                      DOMAIN r \ S # {}
               PROVE  FALSE
    BY DEF ReachableIn
  <1>1. DOMAIN r \ S \in SUBSET (DOMAIN r \ {Root})
    OBVIOUS
  <1>2. PICK i \in DOMAIN r \ S : r[i].parent \notin DOMAIN r \ S
    BY <1>1 DEF TreeOK, NoCycleIn
  <1>3. r[i].parent \in DOMAIN r
    BY <1>2 DEF TreeOK, NoOrphanIn, IsDir
  <1> QED BY <1>2, <1>3

-----------------------------------------------------------------------------
(* Types, in every environment.                                             *)

\* rename gives a table whichever of its statements take effect.
LEMMA RenamedTable ==
    ASSUME NEW r, IsTable(r), NEW m \in DOMAIN r, NEW p, NEW np \in DOMAIN r, np # m,
           NEW nn \in Names, NEW E, r[np].nlink < MaxNlink,
           NEW f1, NEW f2, NEW f3, NEW f4, NEW f5
    PROVE  IsTable(Renamed(r, m, p, np, nn, E, f1, f2, f3, f4, f5))
  <1> DEFINE links == IF IsDir(r, m) THEN 1 ELSE 0
             inode == [r[m] EXCEPT !.parent = np, !.name = nn]
             r1 == IF E # {} /\ f1 THEN [j \in DOMAIN r \ E |-> r[j]] ELSE r
             r2 == IF E # {} /\ f2 /\ np \in DOMAIN r1
                     THEN [r1 EXCEPT ![np].children = @ \ E] ELSE r1
             r3 == IF f3 THEN DropChild(r2, p, m, links) ELSE r2
             r4 == IF f4 THEN Update(r3, m, inode) ELSE r3
             s == IF f5 THEN PushChild(r4, np, m, links) ELSE r4
  <1>1. links \in {0, 1} /\ m \in Inos /\ r[np] \in Inode
    BY DEF IsTable
  <1>2. inode \in Inode
    <2>1. r[m] \in Inode /\ np \in 0..MaxIno
      BY NamespaceAssumption DEF IsTable, Inos
    <2> QED BY <2>1 DEF Inode
  <1> HIDE DEF links, inode
  <1>3. IsTable(r1) /\ (np \in DOMAIN r1 => r1[np] = r[np])
    BY DEF IsTable
  <1> HIDE DEF r1
  <1>4. IsTable(r2) /\ (np \in DOMAIN r2 => r2[np].nlink = r[np].nlink /\ r2[np] \in Inode)
    <2> DEFINE y == [r[np] EXCEPT !.children = @ \ E]
    <2>1. y \in Inode /\ y.nlink = r[np].nlink
      BY <1>1 DEF Inode
    <2>2. r2 = r1 \/ (np \in DOMAIN r1 /\ r2 = [r1 EXCEPT ![np] = y])
      BY <1>3
    <2> HIDE DEF y, r2
    <2> QED BY <1>1, <1>3, <2>1, <2>2 DEF IsTable
  <1> HIDE DEF r2
  <1>5. /\ IsTable(r3) /\ DOMAIN r3 = DOMAIN r2
        /\ np \in DOMAIN r2 => r3[np] \in Inode /\ r3[np].nlink <= r2[np].nlink
    <2>1. np \in DOMAIN r2 => r2[np].nlink <= r2[np].nlink
      BY <1>4, NamespaceAssumption DEF Inode
    <2>2. CASE f3
      <3> DEFINE t == DropChild(r2, p, m, links)
      <3>1. /\ IsTable(t) /\ DOMAIN t = DOMAIN r2
            /\ \A j \in DOMAIN r2 \ {p} : t[j] = r2[j]
            /\ p \in DOMAIN r2 => t[p].nlink <= r2[p].nlink
        BY <1>1, <1>4, DropChildTable
      <3>2. r3 = t
        BY <2>2
      <3> HIDE DEF t, r3
      <3>3. CASE np = p
        BY <1>4, <3>1, <3>2, <3>3 DEF IsTable
      <3>4. CASE np # p
        BY <1>4, <2>1, <3>1, <3>2, <3>4 DEF IsTable
      <3> QED BY <3>3, <3>4
    <2>3. CASE ~f3
      BY <2>1, <2>3, <1>4
    <2> QED BY <2>2, <2>3
  <1> HIDE DEF r3
  <1>6. IsTable(r4) /\ DOMAIN r4 = DOMAIN r3 /\ (np \in DOMAIN r3 => r4[np] = r3[np])
    BY <1>2, <1>5, UpdateTable
  <1> HIDE DEF r4
  <1>7. np \in DOMAIN r4 => r4[np].nlink + links <= MaxNlink
    BY <1>1, <1>4, <1>5, <1>6, NamespaceAssumption DEF Inode
  <1>8. IsTable(s)
    BY <1>1, <1>6, <1>7, PushChildTable
  <1>9. s = Renamed(r, m, p, np, nn, E, f1, f2, f3, f4, f5)
    BY DEF Renamed, s, r4, r3, r2, r1, inode, links
  <1> QED BY <1>8, <1>9

\* A commit, failed or not, keeps the types.
LEMMA CommitType ==
    ASSUME TypeOK, NEW new, IsTable(new), NEW code \in Replies, Commit(new, code)
    PROVE  TypeOK'
  BY DEF TypeOK, Commit, Replies

\* A statement outside of a transaction keeps the types.
LEMMA AutoCommitType ==
    ASSUME TypeOK, NEW new, IsTable(new), AutoCommit(new), reply' \in Replies
    PROVE  TypeOK'
  BY DEF TypeOK, AutoCommit

\* An error reply keeps the types.
LEMMA FailType ==
    ASSUME TypeOK, NEW code \in Replies, Fail(code)
    PROVE  TypeOK'
  BY DEF TypeOK, Fail

\* mkdir and create keep the types.
LEMMA NewEntryType ==
    ASSUME TypeOK, NEW p \in Inos, NEW n \in Names, NEW k \in Kinds, NEW a \in Attrs,
           NewEntry(p, n, k, a)
    PROVE  TypeOK'
  <1> DEFINE links == IF k = "dir" THEN 1 ELSE 0
  <1>1. CASE \E code \in Replies : Fail(code)
    BY <1>1, FailType
  <1>2. ASSUME NEW i \in Inos, IsDir(rows, p), i \notin DOMAIN rows,
               rows[p].nlink + links <= MaxNlink,
               Commit(PushChild(Insert(rows, i, NewInode(p, n, k, a)), p, i, links), "EIO")
        PROVE  TypeOK'
    <2> DEFINE q == Insert(rows, i, NewInode(p, n, k, a))
    <2>1. IsTable(q) /\ p # i /\ q[p] = rows[p]
      BY <1>2, NewInodeType DEF Insert, IsTable, TypeOK, IsDir
    <2>2. links \in {0, 1} /\ "EIO" \in Replies
      BY DEF Replies
    <2> HIDE DEF links, q
    <2>3. IsTable(PushChild(q, p, i, links))
      BY <1>2, <2>1, <2>2, PushChildTable
    <2> QED BY <1>2, <2>2, <2>3, CommitType DEF q
  <1> QED
    BY <1>1, <1>2 DEF NewEntry, RollBack, BeginFails, CanInsert, Replies

\* symlink keeps the types, a crash in its middle included.
LEMMA SymlinkType ==
    ASSUME TypeOK, NEW p \in Inos, NEW n \in Names, NEW a \in Attrs, Symlink(p, n, a)
    PROVE  TypeOK'
  <1>1. CASE \E code \in Replies : Fail(code)
    BY <1>1, FailType
  <1>2. ASSUME NEW i \in Inos, IsDir(rows, p), i \notin DOMAIN rows, NEW q,
               q = Insert(rows, i, NewInode(p, n, "symlink", a)),
               \/ /\ AutoCommit(q) \/ AutoCommit(PushChild(q, p, i, 0))
                  /\ reply' = "ok"
               \/ /\ rows' = IF txn THEN disk ELSE q
                  /\ disk' = rows'
                  /\ txn' = FALSE
                  /\ reply' = "none"
        PROVE  TypeOK'
    <2>1. IsTable(q) /\ p # i /\ q[p] = rows[p] /\ rows[p] \in Inode
      <3>1. NewInode(p, n, "symlink", a) \in Inode
        BY NewInodeType DEF Kinds
      <3> QED BY <1>2, <3>1 DEF Insert, IsTable, TypeOK, IsDir
    <2>2. IsTable(PushChild(q, p, i, 0))
      <3>1. q[p].nlink + 0 <= MaxNlink /\ 0 \in {0, 1}
        BY <2>1, NamespaceAssumption DEF Inode
      <3> QED BY <2>1, <3>1, PushChildTable
    <2>3. "ok" \in Replies /\ "none" \in Replies
      BY DEF Replies
    <2> QED BY <1>2, <2>1, <2>2, <2>3, AutoCommitType DEF TypeOK
  <1>3. \/ \E code \in Replies : Fail(code)
        \/ \E i \in Inos :
             /\ IsDir(rows, p) /\ i \notin DOMAIN rows
             /\ LET q == Insert(rows, i, NewInode(p, n, "symlink", a)) IN
                \/ /\ AutoCommit(q) \/ AutoCommit(PushChild(q, p, i, 0))
                   /\ reply' = "ok"
                \/ /\ rows' = IF txn THEN disk ELSE q
                   /\ disk' = rows'
                   /\ txn' = FALSE
                   /\ reply' = "none"
    BY DEF Symlink, CanInsert, Replies
  <1> QED BY <1>1, <1>2, <1>3

\* The tail of unlink and rmdir keeps the types.
LEMMA RemoveType ==
    ASSUME TypeOK, NEW p \in Inos, NEW i, NEW links \in {0, 1}, Remove(i, p, links)
    PROVE  TypeOK'
  <1>1. CASE \E code \in Replies : Fail(code)
    BY <1>1, FailType
  <1>2. ASSUME NEW t, t \in {rows, DropChild(rows, p, i, links)}, Commit(Delete(t, i), "ok")
        PROVE  TypeOK'
    <2>1. IsTable(t)
      BY <1>2, DropChildTable DEF TypeOK
    <2>2. IsTable(Delete(t, i)) /\ "ok" \in Replies
      BY <2>1 DEF Delete, IsTable, Replies
    <2> QED BY <1>2, <2>2, CommitType
  <1> QED
    BY <1>1, <1>2 DEF Remove, RollBack, BeginFails, Replies

\* rename keeps the types, whichever of its statements took effect.
LEMMA RenameType ==
    ASSUME TypeOK, NEW p \in Inos, NEW n \in Names, NEW np \in Inos, NEW nn \in Names,
           Rename(p, n, np, nn)
    PROVE  TypeOK'
  <1> DEFINE E == Entry(rows, np, nn)
  <1>1. CASE \E code \in Replies : Fail(code)
    BY <1>1, FailType
  <1>2. CASE reply' = "ENOTEMPTY" /\ txn' = TRUE /\ UNCHANGED <<rows, disk>>
    BY <1>2 DEF TypeOK, Replies
  <1>3. ASSUME NEW m \in Entry(rows, p, n), KernelAllowsRename(rows, m, np, E),
               rows[np].nlink < MaxNlink,
               ~\E e \in E : Full(rows, e),
               NEW f1, NEW f2, NEW f3, NEW f4, NEW f5,
               Commit(Renamed(rows, m, p, np, nn, E, f1, f2, f3, f4, f5), "ok")
        PROVE  TypeOK'
    <2>1. IsTable(rows) /\ m \in DOMAIN rows /\ np \in DOMAIN rows /\ np # m
          /\ "ok" \in Replies
      BY <1>3 DEF TypeOK, Entry, KernelAllowsRename, NotBelow, IsDir, Replies
    <2> HIDE DEF E
    <2>2. IsTable(Renamed(rows, m, p, np, nn, E, f1, f2, f3, f4, f5))
      BY <1>3, <2>1, RenamedTable
    <2> QED BY <1>3, <2>1, <2>2, CommitType
  <1> QED
    BY <1>1, <1>2, <1>3 DEF Rename, BeginFails, Replies

\* Whatever fails and whenever the process ends, for any names and any number
\* of inodes: the table the mount works on and the table on disk hold inodes
\* whose parents, children and link counts are in range.
THEOREM NamespaceTypeCorrect == Spec => []TypeOK
  <1>1. Init => TypeOK
    BY InitTree DEF IndInv, TypeOK, TreeOK
  <1>2. TypeOK /\ [Next]_vars => TypeOK'
    <2> SUFFICES ASSUME TypeOK, [Next]_vars
                 PROVE  TypeOK'
      OBVIOUS
    <2>1. CASE Remount
      <3>1. IsTable(Mounted(disk))
        BY RootInodeType, NamespaceAssumption DEF TypeOK, Mounted, Insert, IsTable, Root, Inos
      <3> QED BY <2>1, <3>1 DEF Remount, TypeOK, Replies
    <2>2. ASSUME NEW p \in Inos, NEW n \in Names, NEW a \in Attrs,
                 Mkdir(p, n, a) \/ Create(p, n, a)
          PROVE  TypeOK'
      <3>1. "dir" \in Kinds /\ "file" \in Kinds
        BY DEF Kinds
      <3> QED BY <2>2, <3>1, NewEntryType DEF Mkdir, Create
    <2>3. ASSUME NEW p \in Inos, NEW n \in Names, NEW a \in Attrs, Symlink(p, n, a)
          PROVE  TypeOK'
      BY <2>3, SymlinkType
    <2>4. ASSUME NEW p \in Inos, NEW n \in Names, Unlink(p, n) \/ Rmdir(p, n)
          PROVE  TypeOK'
      <3>1. 0 \in {0, 1} /\ 1 \in {0, 1}
        OBVIOUS
      <3>2. (\E code \in Replies : Fail(code)) \/ (\E i : Remove(i, p, 0) \/ Remove(i, p, 1))
        BY <2>4 DEF Unlink, Rmdir, Replies
      <3> QED BY <3>1, <3>2, FailType, RemoveType
    <2>5. ASSUME NEW p \in Inos, NEW n \in Names, NEW np \in Inos, NEW nn \in Names,
                 Rename(p, n, np, nn)
          PROVE  TypeOK'
      BY <2>5, RenameType
    <2>6. ASSUME NEW i \in Inos, NEW a \in Attrs, Setattr(i, a)
          PROVE  TypeOK'
      <3> DEFINE x == [rows[i] EXCEPT !.attr = a]
      <3>1. CASE \E code \in Replies : Fail(code)
        BY <3>1, FailType
      <3>2. CASE i \in DOMAIN rows /\ reply' = "ok" /\ AutoCommit(Update(rows, i, x))
        <4>1. x \in Inode /\ IsTable(rows) /\ reply' \in Replies
          BY <3>2 DEF TypeOK, IsTable, Inode, Replies
        <4> HIDE DEF x
        <4>2. IsTable(Update(rows, i, x))
          BY <4>1, UpdateTable
        <4> QED BY <3>2, <4>1, <4>2, AutoCommitType
      <3> QED BY <2>6, <3>1, <3>2 DEF Setattr, Replies
    <2>7. CASE UNCHANGED vars
      BY <2>7 DEF vars, TypeOK
    <2> QED
      BY <2>1, <2>2, <2>3, <2>4, <2>5, <2>6, <2>7 DEF Next
  <1> QED BY <1>1, <1>2, PTL DEF Spec

\* For any names, any number of inodes and any failures that the handlers see
\* (of begin, insert, checked updates and deletes, and commit), with the
\* process ending at any point outside of symlink: the lists of children that
\* rmdir and rename test for emptiness agree with the parents that lookup and
\* readdir read, in the mount's table and on disk.
THEOREM ListingAlwaysAgrees ==
    ASSUME "ignored" \notin MayFail, "crash" \notin MayFail
    PROVE  Spec => []ListingAgrees
  <1>1. Init => IndInv
    BY InitTree
  <1>2. IndInv /\ [Next]_vars => IndInv'
    BY IndInvInductive
  <1>3. IndInv => ListingAgrees
    BY DEF IndInv, TreeOK, ListingAgrees
  <1> QED BY <1>1, <1>2, <1>3, PTL DEF Spec

\* In the same environments, every inode is reachable from the root, before and
\* after a crash: no handler strands an entry or ties directories into a loop.
THEOREM AlwaysReachable ==
    ASSUME "ignored" \notin MayFail, "crash" \notin MayFail
    PROVE  Spec => []Reachable
  <1>1. Init => IndInv
    BY InitTree
  <1>2. IndInv /\ [Next]_vars => IndInv'
    BY IndInvInductive
  <1>3. IndInv => Reachable
    BY TreeReachable DEF IndInv, Reachable
  <1> QED BY <1>1, <1>2, <1>3, PTL DEF Spec

-----------------------------------------------------------------------------
(* Link counts.                                                             *)

\* The subdirectories of an inode are a finite set: they are rows.
LEMMA SubdirsFinite ==
    ASSUME NEW r, IsTable(r), NEW i
    PROVE  IsFiniteSet(Subdirs(r, i)) /\ Cardinality(Subdirs(r, i)) \in Nat
  <1>1. IsFiniteSet(1..MaxIno)
    BY FS_Interval, NamespaceAssumption
  <1>2. Subdirs(r, i) \subseteq 1..MaxIno
    BY DEF Subdirs, IsTable, Inos
  <1> QED BY <1>1, <1>2, FS_Subset, FS_CardinalityType

\* The link count of one directory, by the row of the table.
Covered(r, d) == r[d].nlink >= 2 + Cardinality(Subdirs(r, d))

\* A directory stays covered when it loses subdirectories, when it gains one
\* with a link, and when it loses one with a link.
LEMMA CoveredStep ==
    ASSUME NEW r, IsTable(r), NEW s, IsTable(s), NEW d \in DOMAIN r, d \in DOMAIN s, NEW i,
           Covered(r, d),
           \/ Subdirs(s, d) \subseteq Subdirs(r, d) /\ s[d].nlink >= r[d].nlink
           \/ Subdirs(s, d) \subseteq Subdirs(r, d) \cup {i} /\ s[d].nlink >= r[d].nlink + 1
           \/ /\ i \in Subdirs(r, d) /\ Subdirs(s, d) \subseteq Subdirs(r, d) \ {i}
              /\ s[d].nlink + 1 >= r[d].nlink
    PROVE  Covered(s, d)
  <1> DEFINE A == Subdirs(r, d)
             B == Subdirs(s, d)
  <1>1. /\ IsFiniteSet(A) /\ IsFiniteSet(B) /\ Cardinality(A) \in Nat /\ Cardinality(B) \in Nat
        /\ r[d].nlink \in Nat /\ s[d].nlink \in Nat
    BY SubdirsFinite, NamespaceAssumption DEF IsTable, Inode
  <1>2. r[d].nlink >= 2 + Cardinality(A)
    BY DEF Covered
  <1> HIDE DEF A, B
  <1>3. CASE B \subseteq A /\ s[d].nlink >= r[d].nlink
    <2>1. Cardinality(B) <= Cardinality(A)
      BY <1>1, <1>3, FS_Subset
    <2> QED BY <1>1, <1>2, <1>3, <2>1 DEF Covered, B
  <1>4. CASE B \subseteq A \cup {i} /\ s[d].nlink >= r[d].nlink + 1
    <2>1. /\ IsFiniteSet(A \cup {i})
          /\ Cardinality(A \cup {i}) \in {Cardinality(A), Cardinality(A) + 1}
      BY <1>1, FS_AddElement
    <2>2. Cardinality(B) <= Cardinality(A \cup {i})
      BY <1>4, <2>1, FS_Subset
    <2> QED BY <1>1, <1>2, <1>4, <2>1, <2>2 DEF Covered, B
  <1>5. CASE i \in A /\ B \subseteq A \ {i} /\ s[d].nlink + 1 >= r[d].nlink
    <2>1. IsFiniteSet(A \ {i}) /\ Cardinality(A \ {i}) = Cardinality(A) - 1
      BY <1>1, <1>5, FS_RemoveElement
    <2>2. Cardinality(B) <= Cardinality(A \ {i})
      BY <1>5, <2>1, FS_Subset
    <2> QED BY <1>1, <1>2, <1>5, <2>1, <2>2 DEF Covered, B
  <1> QED BY <1>3, <1>4, <1>5 DEF A, B

\* mkdir, create and symlink keep the link counts above the subdirectories.
LEMMA AddNlink ==
    ASSUME NEW r, TreeOK(r), NlinkCoversIn(r), NEW s, NEW p, NEW i, i \notin DOMAIN r, NEW n,
           NEW k \in Kinds, NEW a,
           Added(r, s, p, i, NewInode(p, n, k, a), IF k = "dir" THEN 1 ELSE 0)
    PROVE  NlinkCoversIn(s)
  <1> DEFINE links == IF k = "dir" THEN 1 ELSE 0
             x == NewInode(p, n, k, a)
  <1>1. /\ p \in DOMAIN r /\ p # i /\ IsTable(s) /\ DOMAIN s = DOMAIN r \cup {i}
        /\ s[i] = x /\ s[p].nlink = r[p].nlink + links
        /\ \A j \in DOMAIN r : s[j].parent = r[j].parent /\ s[j].kind = r[j].kind
        /\ \A j \in DOMAIN r \ {p} : s[j] = r[j]
    BY DEF Added
  <1>2. x.parent = p /\ x.kind = k /\ x.nlink = 1 + links
    BY DEF NewInode
  <1>3. IsTable(r) /\ \A j \in DOMAIN r : r[j].parent # i /\ r[j].nlink \in Nat
    <2>1. IsTable(r)
      BY DEF TreeOK
    <2>2. \A j \in DOMAIN r : r[j].nlink \in Nat
      BY <2>1, NamespaceAssumption DEF IsTable, Inode
    <2>3. i \in Inos
      BY <1>1 DEF IsTable
    <2>4. \A j \in DOMAIN r : r[j].parent # i
      BY <2>3 DEF TreeOK, RootIn, NoOrphanIn, IsDir, Inos, Root
    <2> QED BY <2>1, <2>2, <2>4
  <1> HIDE DEF x
  <1> SUFFICES ASSUME NEW d \in DOMAIN s, s[d].kind = "dir"
               PROVE  Covered(s, d)
    BY DEF NlinkCoversIn, IsDir, Covered
  <1>4. CASE d = i
    <2>1. Subdirs(s, i) = {}
      BY <1>1, <1>2, <1>3 DEF Subdirs
    <2>2. Cardinality(Subdirs(s, i)) = 0 /\ links = 1
      BY <2>1, <1>1, <1>2, <1>4, FS_EmptySet
    <2> QED BY <2>2, <1>1, <1>2, <1>4 DEF Covered
  <1>5. CASE d # i
    <2>1. d \in DOMAIN r /\ Covered(r, d)
      BY <1>1, <1>5 DEF NlinkCoversIn, IsDir, Covered
    <2>2. CASE d = p /\ k = "dir"
      <3>1. Subdirs(s, d) \subseteq Subdirs(r, d) \cup {i} /\ s[d].nlink >= r[d].nlink + 1
        BY <1>1, <1>3, <2>1, <2>2 DEF Subdirs
      <3> QED BY <1>1, <1>3, <2>1, <3>1, CoveredStep
    <2>3. CASE d # p \/ k # "dir"
      <3>1. Subdirs(s, d) \subseteq Subdirs(r, d) /\ s[d].nlink >= r[d].nlink
        BY <1>1, <1>2, <1>3, <2>1, <2>3 DEF Subdirs
      <3> QED BY <1>1, <1>3, <2>1, <3>1, CoveredStep
    <2> QED BY <2>2, <2>3
  <1> QED BY <1>4, <1>5

\* unlink and rmdir keep the link counts above the subdirectories.
LEMMA RemoveNlink ==
    ASSUME NEW r, TreeOK(r), NlinkCoversIn(r), NEW s, NEW p, NEW i \in DOMAIN r, r[i].parent = p,
           Removed(r, s, p, i, IF IsDir(r, i) THEN 1 ELSE 0)
    PROVE  NlinkCoversIn(s)
  <1> DEFINE links == IF IsDir(r, i) THEN 1 ELSE 0
  <1>1. /\ IsTable(s) /\ DOMAIN s = DOMAIN r \ {i}
        /\ p \in DOMAIN s => s[p].nlink + links >= r[p].nlink
        /\ \A j \in DOMAIN s : s[j].parent = r[j].parent /\ s[j].kind = r[j].kind
        /\ \A j \in DOMAIN s \ {p} : s[j] = r[j]
    BY DEF Removed
  <1>2. IsTable(r)
    BY DEF TreeOK
  <1>3. \A j \in DOMAIN s : s[j].nlink \in Nat /\ r[j].nlink \in Nat
    BY <1>1, <1>2, NamespaceAssumption DEF IsTable, Inode
  <1> SUFFICES ASSUME NEW d \in DOMAIN s, s[d].kind = "dir"
               PROVE  Covered(s, d)
    BY DEF NlinkCoversIn, IsDir, Covered
  <1>4. d \in DOMAIN r /\ Covered(r, d)
    BY <1>1 DEF NlinkCoversIn, IsDir, Covered
  <1>5. CASE d = p /\ IsDir(r, i)
    <2>1. i \in Subdirs(r, d) /\ Subdirs(s, d) \subseteq Subdirs(r, d) \ {i}
      BY <1>1, <1>5 DEF Subdirs, IsDir
    <2> QED BY <1>1, <1>2, <1>4, <1>5, <2>1, CoveredStep
  <1>6. CASE d # p \/ ~IsDir(r, i)
    <2>1. Subdirs(s, d) \subseteq Subdirs(r, d) /\ s[d].nlink >= r[d].nlink
      BY <1>1, <1>3, <1>6 DEF Subdirs
    <2> QED BY <1>1, <1>2, <1>4, <2>1, CoveredStep
  <1> QED BY <1>5, <1>6

\* setattr leaves the link counts alone.
LEMMA AttrNlink ==
    ASSUME NEW r, TreeOK(r), NlinkCoversIn(r), NEW s, Reattributed(r, s)
    PROVE  NlinkCoversIn(s)
  <1>1. \A d \in DOMAIN s : Subdirs(s, d) = Subdirs(r, d)
    BY DEF Reattributed, SameEntries, Subdirs
  <1> QED BY <1>1 DEF Reattributed, SameEntries, NlinkCoversIn, IsDir

\* rename keeps the link counts above the subdirectories: a directory that moves
\* takes its link along, and one that is replaced leaves its link behind.
LEMMA RenameNlink ==
    ASSUME NEW r, TreeOK(r), NlinkCoversIn(r), NEW s, NEW m \in DOMAIN r, NEW p, NEW np,
           r[m].parent = p, NEW nn, NEW E, m \notin E, Moved(r, s, m, p, np, nn, E)
    PROVE  NlinkCoversIn(s)
  <1> DEFINE links == IF IsDir(r, m) THEN 1 ELSE 0
  <1>1. /\ IsTable(s) /\ DOMAIN s = DOMAIN r \ E
        /\ s[m].parent = np
        /\ \A j \in DOMAIN s \ {m} : s[j].parent = r[j].parent
        /\ \A j \in DOMAIN s : s[j].kind = r[j].kind
        /\ \A j \in DOMAIN s :
             s[j].nlink + (IF j = p THEN links ELSE 0) >= r[j].nlink + (IF j = np THEN links ELSE 0)
    BY DEF Moved
  <1>2. IsTable(r)
    BY DEF TreeOK
  <1>3. \A j \in DOMAIN s : s[j].nlink \in Nat /\ r[j].nlink \in Nat
    BY <1>1, <1>2, NamespaceAssumption DEF IsTable, Inode
  <1> SUFFICES ASSUME NEW d \in DOMAIN s, s[d].kind = "dir"
               PROVE  Covered(s, d)
    BY DEF NlinkCoversIn, IsDir, Covered
  <1>4. d \in DOMAIN r /\ Covered(r, d)
    BY <1>1 DEF NlinkCoversIn, IsDir, Covered
  <1>5. CASE links = 0 \/ (d = p /\ d = np) \/ (d # p /\ d # np)
    <2>1. Subdirs(s, d) \subseteq Subdirs(r, d)
      BY <1>1, <1>5 DEF Subdirs, IsDir
    <2>2. s[d].nlink >= r[d].nlink
      BY <1>1, <1>3, <1>5
    <2> QED BY <1>1, <1>2, <1>4, <2>1, <2>2, CoveredStep
  <1>6. CASE links = 1 /\ d = p /\ d # np
    <2>1. m \in Subdirs(r, d) /\ Subdirs(s, d) \subseteq Subdirs(r, d) \ {m}
      BY <1>1, <1>6 DEF Subdirs, IsDir
    <2>2. s[d].nlink + 1 >= r[d].nlink
      BY <1>1, <1>3, <1>6
    <2> QED BY <1>1, <1>2, <1>4, <2>1, <2>2, CoveredStep
  <1>7. CASE links = 1 /\ d # p /\ d = np
    <2>1. Subdirs(s, d) \subseteq Subdirs(r, d) \cup {m}
      BY <1>1 DEF Subdirs
    <2>2. s[d].nlink >= r[d].nlink + 1
      BY <1>1, <1>3, <1>7
    <2> QED BY <1>1, <1>2, <1>4, <2>1, <2>2, CoveredStep
  <1> QED BY <1>5, <1>6, <1>7

-----------------------------------------------------------------------------
(* The steps of Namespace by what they make of the table.                   *)

AddStep(r, s) ==
    \E p \in Inos, i \in Inos, n \in Names, k \in Kinds, a \in Attrs :
        /\ i \notin DOMAIN r /\ IsDir(r, p) /\ Entry(r, p, n) = {}
        /\ Added(r, s, p, i, NewInode(p, n, k, a), IF k = "dir" THEN 1 ELSE 0)

RemoveStep(r, s) ==
    \E p \in Inos, i \in Inos :
        /\ i \in DOMAIN r \ {Root} /\ r[i].parent = p /\ r[i].children = {}
        /\ Removed(r, s, p, i, IF IsDir(r, i) THEN 1 ELSE 0)

MoveStep(r, s) ==
    \E p \in Inos, n \in Names, np \in Inos, nn \in Names :
        LET E == Entry(r, np, nn) IN
        \E m \in Entry(r, p, n) :
            /\ KernelAllowsRename(r, m, np, E)
            /\ \A e \in E : ~Full(r, e)
            /\ m \in DOMAIN r \ E /\ m \in Inos /\ m # Root /\ r[m].parent = p
            /\ Moved(r, s, m, p, np, nn, E)

\* One whole change of the table.
TableStep(r, s) == AddStep(r, s) \/ RemoveStep(r, s) \/ MoveStep(r, s) \/ Reattributed(r, s)

\* What a handler, or the end of the process, does to the two tables: nothing, a
\* change that is on disk or is not yet, or a return to what is on disk.
StepOfTables ==
    \/ UNCHANGED <<rows, disk>>
    \/ TableStep(rows, rows') /\ (disk' = disk \/ (disk = rows /\ disk' = rows'))
    \/ rows' = disk /\ UNCHANGED disk

\* A transaction that made one change, committed or not.
LEMMA CommitStep ==
    ASSUME IndInv, ~txn, NEW new, TableStep(rows, new), NEW code, Commit(new, code)
    PROVE  StepOfTables
  BY DEF StepOfTables, Commit, IndInv

\* mkdir and create make one change of the table or none.
LEMMA NewEntryStep ==
    ASSUME IndInv, NEW p \in Inos, NEW n \in Names, NEW k \in Kinds, NEW a \in Attrs,
           NewEntry(p, n, k, a)
    PROVE  StepOfTables
  <1> DEFINE links == IF k = "dir" THEN 1 ELSE 0
  <1>1. CASE \E code \in Replies : Fail(code)
    BY <1>1 DEF Fail, StepOfTables
  <1>2. ASSUME NEW i \in Inos, IsDir(rows, p), Entry(rows, p, n) = {},
               rows[p].nlink + links <= MaxNlink, ~txn, CanInsert(rows, i, p, n),
               Commit(PushChild(Insert(rows, i, NewInode(p, n, k, a)), p, i, links), "EIO")
        PROVE  StepOfTables
    <2> DEFINE new == PushChild(Insert(rows, i, NewInode(p, n, k, a)), p, i, links)
    <2>1. i \in Inos \ DOMAIN rows /\ TreeOK(rows) /\ links \in {0, 1}
      BY <1>2 DEF CanInsert, IndInv
    <2> HIDE DEF links
    <2>2. Added(rows, new, p, i, NewInode(p, n, k, a), links)
      BY <1>2, <2>1, TreeSound, AddShape
    <2> HIDE DEF new
    <2>3. AddStep(rows, new)
      BY <1>2, <2>1, <2>2 DEF AddStep, links
    <2> QED BY <1>2, <2>3, CommitStep DEF TableStep, new
  <1> QED
    BY <1>1, <1>2 DEF NewEntry, RollBack, BeginFails, Replies

\* symlink makes one change of the table or none, when nothing comes between
\* its two statements.
LEMMA SymlinkStep ==
    ASSUME IndInv, NEW p \in Inos, NEW n \in Names, NEW a \in Attrs, Symlink(p, n, a),
           "ignored" \notin MayFail, "crash" \notin MayFail
    PROVE  StepOfTables
  <1>1. CASE \E code \in Replies : Fail(code)
    BY <1>1 DEF Fail, StepOfTables
  <1>2. ASSUME NEW i \in Inos, IsDir(rows, p), CanInsert(rows, i, p, n),
               AutoCommit(PushChild(Insert(rows, i, NewInode(p, n, "symlink", a)), p, i, 0))
        PROVE  StepOfTables
    <2> DEFINE new == PushChild(Insert(rows, i, NewInode(p, n, "symlink", a)), p, i, 0)
    <2>1. /\ i \in Inos \ DOMAIN rows /\ TreeOK(rows) /\ Entry(rows, p, n) = {}
          /\ "symlink" \in Kinds /\ 0 \in {0, 1}
      BY <1>2 DEF CanInsert, IndInv, Kinds
    <2>2. rows[p].nlink + 0 <= MaxNlink
      <3>1. rows[p] \in Inode
        BY <1>2, <2>1 DEF TreeOK, IsTable, IsDir
      <3> QED BY <3>1, NamespaceAssumption DEF Inode
    <2>3. Added(rows, new, p, i, NewInode(p, n, "symlink", a), 0)
      BY <1>2, <2>1, <2>2, TreeSound, AddShape
    <2>4. rows' = new /\ (disk' = disk \/ (disk = rows /\ disk' = rows'))
      BY <1>2 DEF AutoCommit, IndInv
    <2> HIDE DEF new
    <2>5. AddStep(rows, new)
      BY <1>2, <2>1, <2>3 DEF AddStep
    <2> QED BY <2>4, <2>5 DEF StepOfTables, TableStep
  <1> QED
    BY <1>1, <1>2 DEF Symlink, Effect, Replies

\* The tail of unlink and rmdir makes one change of the table or none.
LEMMA RemoveTailStep ==
    ASSUME IndInv, NEW p \in Inos, NEW n \in Names, NEW i \in Entry(rows, p, n),
           rows[i].children = {}, Remove(i, p, IF IsDir(rows, i) THEN 1 ELSE 0),
           "ignored" \notin MayFail
    PROVE  StepOfTables
  <1> DEFINE links == IF IsDir(rows, i) THEN 1 ELSE 0
             new == Delete(DropChild(rows, p, i, links), i)
  <1>1. CASE \E code \in Replies : Fail(code)
    BY <1>1 DEF Fail, StepOfTables
  <1>2. CASE ~txn /\ Commit(new, "ok")
    <2>1. /\ TreeOK(rows) /\ i \in DOMAIN rows \ {Root} /\ rows[i].parent = p /\ i \in Inos
          /\ links \in {0, 1}
      BY DEF IndInv, TreeOK, RootIn, IsTable, Entry, Inos
    <2> HIDE DEF links
    <2>2. Removed(rows, new, p, i, links)
      BY <2>1, TreeSound, RemoveShape
    <2> HIDE DEF new
    <2>3. RemoveStep(rows, new)
      BY <2>1, <2>2 DEF RemoveStep, links
    <2> QED BY <1>2, <2>3, CommitStep DEF TableStep
  <1> QED
    BY <1>1, <1>2 DEF Remove, RollBack, BeginFails, Effect, Replies

\* unlink and rmdir make one change of the table or none.
LEMMA UnlinkRmdirStep ==
    ASSUME IndInv, NEW p \in Inos, NEW n \in Names, Unlink(p, n) \/ Rmdir(p, n),
           "ignored" \notin MayFail
    PROVE  StepOfTables
  <1>1. CASE \E code \in Replies : Fail(code)
    BY <1>1 DEF Fail, StepOfTables
  <1>2. ASSUME NEW i \in Entry(rows, p, n), ~IsDir(rows, i), Remove(i, p, 0)
        PROVE  StepOfTables
    <2>1. rows[i].children = {}
      BY <1>2, LeafHasNoChildren DEF IndInv, Entry
    <2>2. Remove(i, p, IF IsDir(rows, i) THEN 1 ELSE 0)
      BY <1>2
    <2> QED BY <1>2, <2>1, <2>2, RemoveTailStep
  <1>3. ASSUME NEW i \in Entry(rows, p, n), IsDir(rows, i), rows[i].children = {}, Remove(i, p, 1)
        PROVE  StepOfTables
    <2>1. Remove(i, p, IF IsDir(rows, i) THEN 1 ELSE 0)
      BY <1>3
    <2> QED BY <1>3, <2>1, RemoveTailStep
  <1> QED
    BY <1>1, <1>2, <1>3 DEF Unlink, Rmdir, Full, Replies

\* rename makes one change of the table or none, also when it returns ENOTEMPTY
\* from inside its transaction.
LEMMA RenameStep ==
    ASSUME IndInv, NEW p \in Inos, NEW n \in Names, NEW np \in Inos, NEW nn \in Names,
           Rename(p, n, np, nn), "ignored" \notin MayFail
    PROVE  StepOfTables
  <1> DEFINE E == Entry(rows, np, nn)
  <1>1. CASE (\E code \in Replies : Fail(code)) \/ UNCHANGED <<rows, disk>>
    BY <1>1 DEF Fail, StepOfTables
  <1>2. ASSUME NEW m \in Entry(rows, p, n), KernelAllowsRename(rows, m, np, E),
               rows[np].nlink < MaxNlink, \A e \in E : ~Full(rows, e), ~txn,
               Commit(Renamed(rows, m, p, np, nn, E, TRUE, TRUE, TRUE, TRUE, TRUE), "ok")
        PROVE  StepOfTables
    <2> DEFINE new == Renamed(rows, m, p, np, nn, E, TRUE, TRUE, TRUE, TRUE, TRUE)
    <2>1. TreeOK(rows) /\ E = Entry(rows, np, nn)
      BY DEF IndInv
    <2> HIDE DEF E
    <2>3. /\ m \in DOMAIN rows \ E /\ m \in Inos /\ m # Root /\ rows[m].parent = p
          /\ np \in DOMAIN rows \ E /\ np # m
      BY <1>2, <2>1, RenameParties
    <2>2. Moved(rows, new, m, p, np, nn, E)
      BY <1>2, <2>1, <2>3, TreeSound, RenameShape
    <2> HIDE DEF new
    <2>4. MoveStep(rows, new)
      BY <1>2, <2>1, <2>2, <2>3 DEF MoveStep
    <2> QED BY <1>2, <2>4, CommitStep DEF TableStep, new
  <1> QED
    BY <1>1, <1>2 DEF Rename, BeginFails, Effect, Replies

\* Every step is one whole change of the table, none, or a return to the disk.
LEMMA StepsByTable ==
    ASSUME IndInv, [Next]_vars, "ignored" \notin MayFail, "crash" \notin MayFail
    PROVE  StepOfTables
  <1>1. CASE Remount
    <2>1. Mounted(disk) = disk
      BY DEF IndInv, TreeOK, RootIn, IsDir, Mounted
    <2> QED BY <1>1, <2>1 DEF Remount, StepOfTables
  <1>2. ASSUME NEW p \in Inos, NEW n \in Names, NEW a \in Attrs,
               Mkdir(p, n, a) \/ Create(p, n, a)
        PROVE  StepOfTables
    <2>1. "dir" \in Kinds /\ "file" \in Kinds
      BY DEF Kinds
    <2> QED BY <1>2, <2>1, NewEntryStep DEF Mkdir, Create
  <1>3. ASSUME NEW p \in Inos, NEW n \in Names, NEW a \in Attrs, Symlink(p, n, a)
        PROVE  StepOfTables
    BY <1>3, SymlinkStep
  <1>4. ASSUME NEW p \in Inos, NEW n \in Names, Unlink(p, n) \/ Rmdir(p, n)
        PROVE  StepOfTables
    BY <1>4, UnlinkRmdirStep
  <1>5. ASSUME NEW p \in Inos, NEW n \in Names, NEW np \in Inos, NEW nn \in Names,
               Rename(p, n, np, nn)
        PROVE  StepOfTables
    BY <1>5, RenameStep
  <1>6. ASSUME NEW i \in Inos, NEW a \in Attrs, Setattr(i, a)
        PROVE  StepOfTables
    <2>1. CASE \E code \in Replies : Fail(code)
      BY <2>1 DEF Fail, StepOfTables
    <2>2. CASE i \in DOMAIN rows /\ AutoCommit(Update(rows, i, [rows[i] EXCEPT !.attr = a]))
      <3>1. Reattributed(rows, Update(rows, i, [rows[i] EXCEPT !.attr = a]))
        BY <2>2, TreeSound, AttrShape DEF IndInv
      <3> QED BY <2>2, <3>1 DEF AutoCommit, StepOfTables, TableStep, IndInv
    <2> QED BY <1>6, <2>1, <2>2 DEF Setattr, Replies
  <1>7. CASE UNCHANGED vars
    BY <1>7 DEF vars, StepOfTables
  <1> QED
    BY <1>1, <1>2, <1>3, <1>4, <1>5, <1>6, <1>7 DEF Next

\* One change of a well-formed table keeps the link counts covered.
LEMMA TableStepNlink ==
    ASSUME NEW r, TreeOK(r), NlinkCoversIn(r), NEW s, TableStep(r, s)
    PROVE  NlinkCoversIn(s)
  <1>1. CASE AddStep(r, s)
    BY <1>1, AddNlink DEF AddStep
  <1>2. CASE RemoveStep(r, s)
    BY <1>2, RemoveNlink DEF RemoveStep
  <1>3. CASE MoveStep(r, s)
    BY <1>3, RenameNlink DEF MoveStep
  <1>4. CASE Reattributed(r, s)
    BY <1>4, AttrNlink
  <1> QED BY <1>1, <1>2, <1>3, <1>4 DEF TableStep

\* In the environments of ListingAlwaysAgrees, for any depth and width of the
\* tree: the link count of a directory is at least two plus its subdirectories,
\* so no saturating subtraction of rmdir and rename ever hides a lost link.
THEOREM LinksAlwaysCover ==
    ASSUME "ignored" \notin MayFail, "crash" \notin MayFail
    PROVE  Spec => []NlinkCovers
  <1>1. Init => IndInv /\ NlinkCovers
    <2> SUFFICES ASSUME Init
                 PROVE  NlinkCoversIn(rows) /\ rows = disk
      BY InitTree DEF NlinkCovers
    <2>1. DOMAIN <<>> = {}
      OBVIOUS
    <2>2. rows = [j \in {Root} |-> RootInode]
      BY <2>1, Zenon DEF Init, Mounted, Insert
    <2>3. DOMAIN rows = {Root} /\ rows[Root].nlink = 2 /\ rows[Root].parent = 0
      BY <2>2 DEF RootInode
    <2>4. Subdirs(rows, Root) = {}
      BY <2>3 DEF Subdirs, Root
    <2> QED BY <2>3, <2>4, FS_EmptySet DEF NlinkCoversIn, Init
  <1>2. IndInv /\ NlinkCovers /\ [Next]_vars => (IndInv /\ NlinkCovers)'
    <2> SUFFICES ASSUME IndInv, NlinkCovers, [Next]_vars
                 PROVE  NlinkCovers'
      BY IndInvInductive
    <2>1. StepOfTables
      BY StepsByTable
    <2>2. TreeOK(rows) /\ NlinkCoversIn(rows) /\ NlinkCoversIn(disk)
      BY DEF IndInv, NlinkCovers
    <2>3. CASE TableStep(rows, rows') /\ (disk' = disk \/ (disk = rows /\ disk' = rows'))
      <3>1. NlinkCoversIn(rows')
        BY <2>2, <2>3, TableStepNlink
      <3> QED BY <2>2, <2>3, <3>1 DEF NlinkCovers
    <2>4. CASE UNCHANGED <<rows, disk>> \/ (rows' = disk /\ UNCHANGED disk)
      BY <2>2, <2>4 DEF NlinkCovers
    <2> QED BY <2>1, <2>3, <2>4 DEF StepOfTables
  <1> QED BY <1>1, <1>2, PTL DEF Spec

\* When no commit fails, and whatever else does, dropped results and a crash in
\* the middle of symlink included: a handler that replies an error has left the
\* table as it found it.
THEOREM ErrorsAlwaysChangeNothing ==
    ASSUME "commit" \notin MayFail
    PROVE  Spec => ErrorChangesNothing
  <1> DEFINE A == reply' \in Replies \ {"none", "ok"} => rows' = rows
  <1>1. ASSUME NEW new, NEW code, Commit(new, code)
        PROVE  A
    BY <1>1 DEF Commit
  <1>2. ASSUME NEW code, Fail(code)
        PROVE  A
    BY <1>2 DEF Fail
  <1>3. [Next]_vars => [A]_vars
    <2> SUFFICES ASSUME Next
                 PROVE  A
      BY DEF vars
    <2> HIDE DEF A
    <2>1. CASE Remount
      BY <2>1 DEF Remount, A
    <2>2. ASSUME NEW p, NEW n, NEW k, NEW a, NewEntry(p, n, k, a)
          PROVE  A
      BY <2>2, <1>1, <1>2 DEF NewEntry, BeginFails, RollBack
    <2>3. ASSUME NEW p, NEW n, NEW a, Symlink(p, n, a)
          PROVE  A
      <3>1. (\E code : Fail(code)) \/ reply' \in {"ok", "none"}
        BY <2>3 DEF Symlink
      <3> QED BY <3>1, <1>2 DEF A
    <2>4. ASSUME NEW i, NEW p, NEW links, Remove(i, p, links)
          PROVE  A
      BY <2>4, <1>1, <1>2 DEF Remove, BeginFails, RollBack
    <2>5. ASSUME NEW p, NEW n, Unlink(p, n) \/ Rmdir(p, n)
          PROVE  A
      BY <2>5, <2>4, <1>2 DEF Unlink, Rmdir
    <2>6. ASSUME NEW p, NEW n, NEW np, NEW nn, Rename(p, n, np, nn)
          PROVE  A
      <3>1. CASE UNCHANGED <<rows, disk>>
        BY <3>1 DEF A
      <3> QED BY <2>6, <3>1, <1>1, <1>2 DEF Rename, BeginFails
    <2>7. ASSUME NEW i, NEW a, Setattr(i, a)
          PROVE  A
      <3>1. (\E code : Fail(code)) \/ reply' = "ok"
        BY <2>7 DEF Setattr
      <3> QED BY <3>1, <1>2 DEF A
    <2> QED
      BY <2>1, <2>2, <2>3, <2>5, <2>6, <2>7 DEF Next, Mkdir, Create
  <1> QED BY <1>3, PTL DEF Spec, ErrorChangesNothing

-----------------------------------------------------------------------------
(* The refinement of DirTree.                                               *)

\* A row of the table as a node of the tree.
LEMMA TreeOfRow ==
    ASSUME NEW r
    PROVE  /\ DOMAIN TreeOf(r) = DOMAIN r
           /\ \A j \in DOMAIN r : TreeOf(r)[j] = [parent |-> r[j].parent, name |-> r[j].name,
                                                 kind |-> r[j].kind]
           /\ \A j \in DOMAIN r : /\ TreeOf(r)[j].parent = r[j].parent
                                  /\ TreeOf(r)[j].name = r[j].name
                                  /\ TreeOf(r)[j].kind = r[j].kind
           /\ \A i : Tree!IsDir(TreeOf(r), i) <=> IsDir(r, i)
           /\ \A i, n : Tree!Named(TreeOf(r), i, n) = Entry(r, i, n)
           /\ \A i : Tree!Children(TreeOf(r), i) = {j \in DOMAIN r : r[j].parent = i}
  <1>1. /\ DOMAIN TreeOf(r) = DOMAIN r
        /\ \A j \in DOMAIN r : TreeOf(r)[j] = [parent |-> r[j].parent, name |-> r[j].name,
                                              kind |-> r[j].kind]
    BY DEF TreeOf
  <1>2. \A j \in DOMAIN r : /\ TreeOf(r)[j].parent = r[j].parent
                            /\ TreeOf(r)[j].name = r[j].name
                            /\ TreeOf(r)[j].kind = r[j].kind
    BY <1>1
  <1> QED BY <1>1, <1>2 DEF Tree!IsDir, Tree!Named, Tree!Children, IsDir, Entry

\* A new row is a new node under a free name.
LEMMA AddRefines ==
    ASSUME AddStep(rows, rows'), disk' \in {disk, rows'}
    PROVE  Tree!Next
  <1>1. PICK p \in Inos, i \in Inos, n \in Names, k \in Kinds, a \in Attrs :
          /\ i \notin DOMAIN rows /\ IsDir(rows, p) /\ Entry(rows, p, n) = {}
          /\ Added(rows, rows', p, i, NewInode(p, n, k, a), IF k = "dir" THEN 1 ELSE 0)
    BY DEF AddStep
  <1> DEFINE t == TreeOf(rows)
             u == TreeOf(rows')
             new == [j \in DOMAIN t \cup {i} |->
                       IF j = i THEN [parent |-> p, name |-> n, kind |-> k] ELSE t[j]]
  <1>2. /\ DOMAIN rows' = DOMAIN rows \cup {i}
        /\ rows'[i].parent = p /\ rows'[i].name = n /\ rows'[i].kind = k
        /\ \A j \in DOMAIN rows : /\ rows'[j].parent = rows[j].parent
                                  /\ rows'[j].name = rows[j].name
                                  /\ rows'[j].kind = rows[j].kind
    BY <1>1 DEF Added, NewInode
  <1>3. u = new
    BY <1>1, <1>2 DEF TreeOf
  <1>4. Tree!IsDir(t, p) /\ Tree!Named(t, p, n) = {} /\ i \notin DOMAIN t
    BY <1>1, TreeOfRow
  <1>5. TreeOf(disk') \in {TreeOf(disk), u}
    OBVIOUS
  <1>6. Tree!Add(i, p, n, k)
    BY <1>3, <1>4, <1>5 DEF Tree!Add, Tree!Save
  <1> QED BY <1>6 DEF Tree!Next, Kinds

\* A deleted row is a node without entries that goes away.
LEMMA RemoveRefines ==
    ASSUME TreeOK(rows), RemoveStep(rows, rows'), disk' \in {disk, rows'}
    PROVE  Tree!Next
  <1>1. PICK p \in Inos, i \in Inos :
          /\ i \in DOMAIN rows \ {Root} /\ rows[i].children = {}
          /\ Removed(rows, rows', p, i, IF IsDir(rows, i) THEN 1 ELSE 0)
    BY DEF RemoveStep
  <1> DEFINE t == TreeOf(rows)
             u == TreeOf(rows')
  <1>2. /\ DOMAIN rows' = DOMAIN rows \ {i}
        /\ \A j \in DOMAIN rows' : /\ rows'[j].parent = rows[j].parent
                                   /\ rows'[j].name = rows[j].name
                                   /\ rows'[j].kind = rows[j].kind
    BY <1>1 DEF Removed
  <1>3. u = [j \in DOMAIN t \ {i} |-> t[j]]
    BY <1>2 DEF TreeOf
  <1>4. Tree!Children(t, i) = {} /\ i \in DOMAIN t \ {Root}
    BY <1>1, TreeOfRow DEF TreeOK, ListingOf
  <1>5. TreeOf(disk') \in {TreeOf(disk), u}
    OBVIOUS
  <1>6. Tree!Drop(i)
    BY <1>3, <1>4, <1>5 DEF Tree!Drop, Tree!Save
  <1> QED BY <1>6 DEF Tree!Next

\* A renamed row is a node that moves, not below itself, and replaces a node
\* without entries if there was one in its place.
LEMMA MoveRefines ==
    ASSUME TreeOK(rows), MoveStep(rows, rows'), disk' \in {disk, rows'}
    PROVE  Tree!Next
  <1>1. PICK p \in Inos, n \in Names, np \in Inos, nn \in Names, m \in Inos :
          LET E == Entry(rows, np, nn) IN
          /\ KernelAllowsRename(rows, m, np, E)
          /\ \A e \in E : ~Full(rows, e)
          /\ m \in DOMAIN rows \ E /\ m # Root
          /\ Moved(rows, rows', m, p, np, nn, E)
    BY DEF MoveStep
  <1> DEFINE E == Entry(rows, np, nn)
             t == TreeOf(rows)
             u == TreeOf(rows')
             old == Tree!Named(t, np, nn) \ {m}
             new == [j \in DOMAIN t \ old |->
                       IF j = m THEN [parent |-> np, name |-> nn, kind |-> t[m].kind] ELSE t[j]]
  <1>2. /\ DOMAIN rows' = DOMAIN rows \ E
        /\ rows'[m].parent = np /\ rows'[m].name = nn
        /\ \A j \in DOMAIN rows' : rows'[j].kind = rows[j].kind
        /\ \A j \in DOMAIN rows' \ {m} : rows'[j].parent = rows[j].parent /\ rows'[j].name = rows[j].name
    BY <1>1 DEF Moved
  <1>3. m \in DOMAIN rows \ E /\ m # Root /\ IsDir(rows, np) /\ \A e \in E : ~Full(rows, e)
    BY <1>1 DEF KernelAllowsRename
  <1>4. old = E
    BY <1>3, TreeOfRow
  <1>5. u = new
    <2>1. DOMAIN u = DOMAIN new
      BY <1>2, <1>4, TreeOfRow
    <2>2. ASSUME NEW j \in DOMAIN u
          PROVE  u[j] = new[j]
      <3>1. j \in DOMAIN rows' /\ j \in DOMAIN rows /\ j \in DOMAIN t \ old
        BY <2>1, <2>2, <1>2, TreeOfRow
      <3>2. CASE j = m
        <4>1. t[m].kind = rows[m].kind
          BY <1>3, TreeOfRow
        <4>2. u[m] = [parent |-> np, name |-> nn, kind |-> rows[m].kind]
          BY <3>1, <3>2, <1>2 DEF TreeOf
        <4> QED BY <3>1, <3>2, <4>1, <4>2
      <3>3. CASE j # m
        <4>1. u[j] = t[j]
          BY <3>1, <3>3, <1>2 DEF TreeOf
        <4> QED BY <3>1, <3>3, <4>1
      <3> QED BY <3>2, <3>3
    <2>3. u = [j \in DOMAIN u |-> u[j]] /\ new = [j \in DOMAIN new |-> new[j]]
      BY DEF TreeOf
    <2> HIDE DEF u, new
    <2> QED BY <2>1, <2>2, <2>3
  <1>6. Tree!IsDir(t, np) /\ m \in DOMAIN t \ {Root}
    BY <1>3, TreeOfRow
  <1>7. ~Tree!AtOrBelow(t, np, m)
    <2>1. PICK S \in SUBSET DOMAIN rows :
            /\ np \in S /\ m \notin S
            /\ \A j \in S \ {Root} : rows[j].parent \in DOMAIN rows => rows[j].parent \in S
      BY <1>1 DEF KernelAllowsRename, NotBelow
    <2>2. \A j \in S \ {Root} : rows[j].parent \in S
      BY <2>1 DEF TreeOK, NoOrphanIn, IsDir
    <2>3. S \in SUBSET DOMAIN t /\ \A j \in S \ {Root} : t[j].parent \in S
      BY <2>1, <2>2, TreeOfRow
    <2> QED BY <2>1, <2>3 DEF Tree!AtOrBelow
  <1>8. \A e \in old : Tree!Children(t, e) = {}
    <2> SUFFICES ASSUME NEW e \in E
                 PROVE  {j \in DOMAIN rows : rows[j].parent = e} = {}
      BY <1>4, TreeOfRow
    <2>1. e \in DOMAIN rows /\ ~Full(rows, e)
      BY <1>3 DEF Entry
    <2>2. rows[e].children = {}
      BY <2>1, LeafHasNoChildren DEF Full
    <2> QED BY <2>1, <2>2 DEF TreeOK, ListingOf
  <1>9. TreeOf(disk') \in {TreeOf(disk), u}
    OBVIOUS
  <1>10. Tree!Move(m, np, nn)
    <2> HIDE DEF t, u
    <2> QED BY <1>5, <1>6, <1>7, <1>8, <1>9 DEF Tree!Move, Tree!Save, t, u
  <1> QED BY <1>10 DEF Tree!Next

\* A change of attributes is no step of the tree.
LEMMA AttrRefines ==
    ASSUME Reattributed(rows, rows'), disk' \in {disk, rows'}, disk = rows \/ disk' = disk
    PROVE  UNCHANGED Tree!vars
  <1>1. TreeOf(rows') = TreeOf(rows)
    BY DEF Reattributed, SameEntries, TreeOf
  <1>2. TreeOf(disk') = TreeOf(disk)
    BY <1>1
  <1> QED BY <1>1, <1>2 DEF Tree!vars

\* In the environments of ListingAlwaysAgrees, failed commits and transactions
\* left open included: every handler is one whole operation on the tree or none,
\* and the end of the process falls back to a whole earlier tree.
THEOREM NamespaceImplementsDirTree ==
    ASSUME "ignored" \notin MayFail, "crash" \notin MayFail
    PROVE  Spec => ImplementsDirTree
  <1>1. Init => IndInv /\ Tree!Init
    <2> SUFFICES ASSUME Init
                 PROVE  Tree!Init
      BY InitTree
    <2>1. DOMAIN <<>> = {}
      OBVIOUS
    <2>2. rows = [j \in {Root} |-> RootInode] /\ disk = rows
      BY <2>1, Zenon DEF Init, Mounted, Insert
    <2>3. TreeOf(rows) = [i \in {Root} |-> [parent |-> 0, name |-> NoName, kind |-> "dir"]]
      BY <2>2 DEF TreeOf, RootInode
    <2> QED BY <2>2, <2>3 DEF Tree!Init
  <1>2. IndInv /\ [Next]_vars => IndInv' /\ [Tree!Next]_(Tree!vars)
    <2> SUFFICES ASSUME IndInv, [Next]_vars
                 PROVE  [Tree!Next]_(Tree!vars)
      BY IndInvInductive
    <2>1. StepOfTables /\ TreeOK(rows)
      BY StepsByTable DEF IndInv
    <2>2. CASE UNCHANGED <<rows, disk>>
      BY <2>2 DEF Tree!vars
    <2>3. CASE rows' = disk /\ UNCHANGED disk
      BY <2>3 DEF Tree!Next, Tree!Crash
    <2>4. CASE TableStep(rows, rows') /\ (disk' = disk \/ (disk = rows /\ disk' = rows'))
      <3>1. CASE Reattributed(rows, rows')
        BY <2>4, <3>1, AttrRefines
      <3> QED BY <2>1, <2>4, <3>1, AddRefines, RemoveRefines, MoveRefines DEF TableStep
    <2> QED BY <2>1, <2>2, <2>3, <2>4 DEF StepOfTables
  <1> QED BY <1>1, <1>2, PTL DEF Spec, ImplementsDirTree, Tree!Spec

-----------------------------------------------------------------------------
(* What a crash between the two statements of symlink can strand.           *)

\* Directories and files.
Solid(r) == {i \in DOMAIN r : r[i].kind # "symlink"}

\* A table in which symlinks may be missing from the lists of children, but
\* directories and files are a tree and are all listed by their parents.
WeakTree(r) ==
    /\ SoundRows(r)
    /\ RootIn(r)
    /\ \A i \in Solid(r) \ {Root} : IsDir(r, r[i].parent) /\ i \in r[r[i].parent].children
    /\ \A S \in SUBSET (Solid(r) \ {Root}) : S # {} => \E i \in S : r[i].parent \notin S

StrandInv ==
    /\ WeakTree(rows) /\ WeakTree(disk)
    /\ txn \in BOOLEAN /\ reply \in Replies

\* A well-formed table is one.
LEMMA TreeIsWeak ==
    ASSUME NEW r, TreeOK(r)
    PROVE  WeakTree(r)
  <1>1. SoundRows(r) /\ RootIn(r)
    BY TreeSound DEF TreeOK
  <1>2. \A i \in DOMAIN r \ {Root} : IsDir(r, r[i].parent) /\ i \in r[r[i].parent].children
    BY DEF TreeOK, NoOrphanIn, ListingOf, IsDir
  <1>3. \A S \in SUBSET (DOMAIN r \ {Root}) : S # {} => \E i \in S : r[i].parent \notin S
    BY DEF TreeOK, NoCycleIn
  <1> QED BY <1>1, <1>2, <1>3 DEF WeakTree, Solid

\* What rmdir and rename take for empty holds no directory and no file.
LEMMA EmptyHasNoSolid ==
    ASSUME NEW r, WeakTree(r), NEW i \in DOMAIN r, ~Full(r, i)
    PROVE  \A j \in Solid(r) : r[j].parent # i
  <1> SUFFICES ASSUME NEW j \in Solid(r), r[j].parent = i
               PROVE  FALSE
    OBVIOUS
  <1>1. i \in Inos
    BY DEF WeakTree, SoundRows, IsTable
  <1>2. j # Root
    BY <1>1 DEF WeakTree, RootIn, Inos
  <1> QED BY <1>2 DEF WeakTree, Full

\* mkdir, create and symlink, with all their statements.
LEMMA AddWeak ==
    ASSUME NEW r, WeakTree(r), NEW s, NEW p, NEW i, i \notin DOMAIN r, NEW n, NEW k, NEW a,
           NEW links, IsDir(r, p), Entry(r, p, n) = {}, Added(r, s, p, i, NewInode(p, n, k, a), links)
    PROVE  WeakTree(s)
  <1>1. /\ p \in DOMAIN r /\ p # i /\ IsTable(s) /\ DOMAIN s = DOMAIN r \cup {i}
        /\ s[i].parent = p /\ s[i].name = n /\ s[i].kind = k
        /\ s[p].children = r[p].children \cup {i}
        /\ \A j \in DOMAIN r : s[j].parent = r[j].parent /\ s[j].name = r[j].name /\ s[j].kind = r[j].kind
        /\ \A j \in DOMAIN r \ {p} : s[j] = r[j]
    BY DEF Added, NewInode
  <1>2. SoundRows(s)
    BY <1>1 DEF WeakTree, SoundRows, NamesUniqueIn, Entry
  <1>3. RootIn(s)
    BY <1>1 DEF WeakTree, RootIn, IsDir
  <1>4. \A j \in Solid(r) \ {Root} : IsDir(r, r[j].parent) /\ j \in r[r[j].parent].children
    BY DEF WeakTree
  <1>5. \A j \in Solid(s) \ {Root} : IsDir(s, s[j].parent) /\ j \in s[s[j].parent].children
    <2> SUFFICES ASSUME NEW j \in Solid(s) \ {Root}
                 PROVE  IsDir(s, s[j].parent) /\ j \in s[s[j].parent].children
      OBVIOUS
    <2>1. CASE j = i
      BY <2>1, <1>1 DEF IsDir
    <2>2. CASE j # i
      <3>1. j \in Solid(r) \ {Root} /\ s[j].parent = r[j].parent
        BY <2>2, <1>1 DEF Solid
      <3>2. IsDir(r, r[j].parent) /\ j \in r[r[j].parent].children
        BY <3>1, <1>4
      <3> QED BY <3>1, <3>2, <1>1 DEF IsDir
    <2> QED BY <2>1, <2>2
  <1>6. ASSUME NEW S \in SUBSET (Solid(s) \ {Root}), S # {}
        PROVE  \E j \in S : s[j].parent \notin S
    <2>1. CASE S \ {i} = {}
      BY <2>1, <1>1, <1>6
    <2>2. CASE S \ {i} # {}
      <3>1. S \ {i} \in SUBSET (Solid(r) \ {Root})
        BY <1>1 DEF Solid
      <3>2. PICK j \in S \ {i} : r[j].parent \notin S \ {i}
        BY <2>2, <3>1 DEF WeakTree
      <3>3. r[j].parent \in DOMAIN r /\ s[j].parent = r[j].parent
        BY <3>1, <1>1, <1>4 DEF IsDir, Solid
      <3> QED BY <3>2, <3>3
    <2> QED BY <2>1, <2>2
  <1> QED BY <1>2, <1>3, <1>5, <1>6 DEF WeakTree

\* symlink without its second statement.
LEMMA InsertWeak ==
    ASSUME NEW r, WeakTree(r), NEW p, IsDir(r, p), NEW i \in Inos, i \notin DOMAIN r,
           NEW n \in Names, NEW a \in Attrs, Entry(r, p, n) = {}
    PROVE  WeakTree(Insert(r, i, NewInode(p, n, "symlink", a)))
  <1> DEFINE x == NewInode(p, n, "symlink", a)
             s == Insert(r, i, x)
  <1>1. IsTable(r) /\ p \in DOMAIN r /\ p \in Inos /\ p # i /\ "symlink" \in Kinds
    BY DEF WeakTree, SoundRows, IsTable, IsDir, Kinds
  <1>2. x \in Inode /\ x.parent = p /\ x.name = n /\ x.kind = "symlink"
    BY <1>1, NewInodeType DEF NewInode
  <1> HIDE DEF x
  <1>3. /\ IsTable(s) /\ DOMAIN s = DOMAIN r \cup {i} /\ s[i] = x
        /\ \A j \in DOMAIN r : s[j] = r[j]
    BY <1>1, <1>2 DEF Insert, IsTable
  <1> HIDE DEF s
  <1>4. SoundRows(s)
    BY <1>1, <1>2, <1>3 DEF WeakTree, SoundRows, NamesUniqueIn, Entry
  <1>5. RootIn(s)
    BY <1>3 DEF WeakTree, RootIn, IsDir
  <1>6. Solid(s) = Solid(r)
    BY <1>2, <1>3 DEF Solid
  <1>7. \A j \in Solid(s) \ {Root} : IsDir(s, s[j].parent) /\ j \in s[s[j].parent].children
    BY <1>3, <1>6 DEF WeakTree, Solid, IsDir
  <1>8. \A S \in SUBSET (Solid(s) \ {Root}) : S # {} => \E j \in S : s[j].parent \notin S
    BY <1>3, <1>6 DEF WeakTree, Solid
  <1>9. WeakTree(s)
    BY <1>4, <1>5, <1>7, <1>8 DEF WeakTree
  <1> QED BY <1>9 DEF s, x

\* unlink and rmdir of what holds no directory and no file.
LEMMA RemoveWeak ==
    ASSUME NEW r, WeakTree(r), NEW s, NEW p, NEW i \in DOMAIN r \ {Root}, NEW links,
           r[i].parent = p, ~Full(r, i), Removed(r, s, p, i, links)
    PROVE  WeakTree(s)
  <1>1. /\ IsTable(s) /\ DOMAIN s = DOMAIN r \ {i}
        /\ p \in DOMAIN s => s[p].children = r[p].children \ {i}
        /\ \A j \in DOMAIN s : s[j].parent = r[j].parent /\ s[j].name = r[j].name /\ s[j].kind = r[j].kind
        /\ \A j \in DOMAIN s \ {p} : s[j] = r[j]
    BY DEF Removed
  <1>2. \A j \in Solid(r) : r[j].parent # i
    BY EmptyHasNoSolid
  <1>3. SoundRows(s) /\ RootIn(s)
    BY <1>1 DEF WeakTree, SoundRows, NamesUniqueIn, RootIn, IsDir
  <1>4. Solid(s) = Solid(r) \ {i}
    BY <1>1 DEF Solid
  <1>5. \A j \in Solid(s) \ {Root} : IsDir(s, s[j].parent) /\ j \in s[s[j].parent].children
    <2> SUFFICES ASSUME NEW j \in Solid(s) \ {Root}
                 PROVE  IsDir(s, s[j].parent) /\ j \in s[s[j].parent].children
      OBVIOUS
    <2>1. j \in Solid(r) \ {Root} /\ j # i /\ s[j].parent = r[j].parent
      BY <1>1, <1>4 DEF Solid
    <2>2. IsDir(r, r[j].parent) /\ j \in r[r[j].parent].children /\ r[j].parent # i
      BY <2>1, <1>2 DEF WeakTree
    <2> QED BY <2>1, <2>2, <1>1 DEF IsDir
  <1>6. \A S \in SUBSET (Solid(s) \ {Root}) : S # {} => \E j \in S : s[j].parent \notin S
    BY <1>1, <1>4 DEF WeakTree, Solid
  <1> QED BY <1>3, <1>5, <1>6 DEF WeakTree

\* setattr.
LEMMA AttrWeak ==
    ASSUME NEW r, WeakTree(r), NEW s, Reattributed(r, s)
    PROVE  WeakTree(s)
  <1>1. /\ IsTable(s) /\ DOMAIN s = DOMAIN r
        /\ \A j \in DOMAIN r : /\ s[j].parent = r[j].parent /\ s[j].name = r[j].name
                               /\ s[j].kind = r[j].kind /\ s[j].children = r[j].children
    BY DEF Reattributed, SameEntries
  <1>2. SoundRows(s) /\ RootIn(s) /\ Solid(s) = Solid(r)
    BY <1>1 DEF WeakTree, SoundRows, NamesUniqueIn, RootIn, IsDir, Solid
  <1>3. \A j \in Solid(s) \ {Root} : IsDir(s, s[j].parent) /\ j \in s[s[j].parent].children
    BY <1>1, <1>2 DEF WeakTree, Solid, IsDir
  <1>4. \A S \in SUBSET (Solid(s) \ {Root}) : S # {} => \E j \in S : s[j].parent \notin S
    BY <1>1, <1>2 DEF WeakTree, Solid
  <1> QED BY <1>2, <1>3, <1>4 DEF WeakTree

\* rename, with all its statements, over what holds no directory and no file.
LEMMA MoveWeak ==
    ASSUME NEW r, WeakTree(r), NEW s, NEW m \in DOMAIN r \ {Root}, NEW p, NEW np, NEW nn, NEW E,
           E = Entry(r, np, nn), r[m].parent = p, KernelAllowsRename(r, m, np, E), np \notin E,
           Root \notin E, \A e \in E : ~Full(r, e), Moved(r, s, m, p, np, nn, E)
    PROVE  WeakTree(s)
  <1>1. /\ IsTable(s) /\ DOMAIN s = DOMAIN r \ E
        /\ s[m].parent = np /\ s[m].name = nn
        /\ \A j \in DOMAIN s \ {m} : s[j].parent = r[j].parent /\ s[j].name = r[j].name
        /\ \A j \in DOMAIN s : s[j].kind = r[j].kind
        /\ \A j \in DOMAIN s : s[j].children = IF j = np THEN (r[j].children \ E) \cup {m}
                                               ELSE IF j = p THEN r[j].children \ {m}
                                               ELSE r[j].children
    BY DEF Moved
  <1>2. np \in DOMAIN r /\ IsDir(r, np) /\ np # m /\ m \notin E /\ E \subseteq DOMAIN r
    BY DEF KernelAllowsRename, NotBelow, IsDir, Entry
  <1>3. \A j \in Solid(r) : r[j].parent \notin E
    BY <1>2, EmptyHasNoSolid
  <1>4. SoundRows(s)
    BY <1>1, <1>2 DEF WeakTree, SoundRows, NamesUniqueIn, Entry
  <1>5. RootIn(s)
    BY <1>1 DEF WeakTree, RootIn, IsDir
  <1>6. Solid(s) = Solid(r) \ E
    BY <1>1 DEF Solid
  <1>7. ASSUME NEW j \in Solid(s) \ {Root}
        PROVE  IsDir(s, s[j].parent) /\ j \in s[s[j].parent].children
    <2>1. CASE j = m
      BY <2>1, <1>1, <1>2 DEF IsDir
    <2>2. CASE j # m
      <3> DEFINE q == r[j].parent
      <3>1. j \in Solid(r) \ {Root} /\ j \notin E /\ s[j].parent = q
        BY <2>2, <1>1, <1>6 DEF Solid
      <3>2. IsDir(r, q) /\ j \in r[q].children /\ q \notin E
        BY <3>1, <1>3 DEF WeakTree
      <3> HIDE DEF q
      <3>3. q \in DOMAIN s /\ s[q].kind = "dir"
        BY <3>2, <1>1 DEF IsDir
      <3>4. j \in s[q].children
        BY <2>2, <3>1, <3>2, <3>3, <1>1
      <3> QED BY <3>1, <3>3, <3>4 DEF IsDir
    <2> QED BY <2>1, <2>2
  <1>8. ASSUME NEW S \in SUBSET (Solid(s) \ {Root}), S # {}, \A j \in S : s[j].parent \in S
        PROVE  FALSE
    <2>1. PICK A \in SUBSET DOMAIN r :
            /\ np \in A /\ m \notin A
            /\ \A j \in A \ {Root} : r[j].parent \in DOMAIN r => r[j].parent \in A
      BY DEF KernelAllowsRename, NotBelow
    <2>2. S \in SUBSET (Solid(r) \ {Root})
      BY <1>6, <1>8
    <2>3. CASE m \notin S
      BY <2>2, <2>3, <1>1, <1>8 DEF WeakTree, Solid
    <2>4. CASE m \in S
      <3>1. np \in S \cap A
        BY <2>1, <2>4, <1>1, <1>8
      <3>2. S \cap A \in SUBSET (Solid(r) \ {Root})
        BY <2>2
      <3>3. \A j \in S \cap A : s[j].parent = r[j].parent
        BY <2>1, <1>1, <1>8 DEF Solid
      <3>4. \A j \in S \cap A : r[j].parent \in S \cap A
        BY <2>1, <2>2, <3>3, <1>8 DEF Solid
      <3> QED BY <3>1, <3>2, <3>4 DEF WeakTree
    <2> QED BY <2>3, <2>4
  <1> QED BY <1>4, <1>5, <1>7, <1>8 DEF WeakTree

\* Only symlinks are stranded in such a table.
LEMMA WeakStrandsSymlinks ==
    ASSUME NEW r, WeakTree(r)
    PROVE  OnlySymlinksStrandedIn(r)
  <1> SUFFICES ASSUME NEW S \in SUBSET DOMAIN r, Root \in S,
                      \A i \in DOMAIN r : r[i].parent \in S => i \in S,
                      NEW k \in DOMAIN r \ S, r[k].kind # "symlink"
               PROVE  FALSE
    BY DEF OnlySymlinksStrandedIn
  <1>1. Solid(r) \ S \in SUBSET (Solid(r) \ {Root}) /\ k \in Solid(r) \ S
    BY DEF Solid
  <1>2. PICK i \in Solid(r) \ S : r[i].parent \notin Solid(r) \ S
    BY <1>1 DEF WeakTree
  <1>3. IsDir(r, r[i].parent)
    BY <1>1, <1>2 DEF WeakTree
  <1>4. r[i].parent \in Solid(r)
    BY <1>3 DEF IsDir, Solid
  <1> QED BY <1>2, <1>4 DEF Solid

\* A committed or failed transaction, and a statement outside of one.
LEMMA CommitStrand ==
    ASSUME StrandInv, NEW new, WeakTree(new), NEW code \in Replies,
           Commit(new, code) \/ (AutoCommit(new) /\ reply' = code)
    PROVE  StrandInv'
  BY DEF StrandInv, Commit, AutoCommit, Replies

\* mkdir, create and symlink, a crash in the middle of symlink included.
LEMMA AddStrand ==
    ASSUME StrandInv, NEW p \in Inos, NEW n \in Names, NEW a \in Attrs,
           Mkdir(p, n, a) \/ Create(p, n, a) \/ Symlink(p, n, a), "ignored" \notin MayFail
    PROVE  StrandInv'
  <1>1. CASE \E code \in Replies : Fail(code)
    BY <1>1 DEF Fail, StrandInv
  <1>2. ASSUME NEW i \in Inos, NEW k \in Kinds, NEW links \in {0, 1}, IsDir(rows, p),
               rows[p].nlink + links <= MaxNlink, CanInsert(rows, i, p, n),
               NEW new, new = PushChild(Insert(rows, i, NewInode(p, n, k, a)), p, i, links),
               Commit(new, "EIO") \/ (AutoCommit(new) /\ reply' = "ok")
        PROVE  StrandInv'
    <2>1. i \notin DOMAIN rows /\ Entry(rows, p, n) = {} /\ WeakTree(rows) /\ SoundRows(rows)
      BY <1>2 DEF CanInsert, StrandInv, WeakTree
    <2>2. Added(rows, new, p, i, NewInode(p, n, k, a), links)
      BY <1>2, <2>1, AddShape
    <2>3. WeakTree(new) /\ "EIO" \in Replies /\ "ok" \in Replies
      BY <1>2, <2>1, <2>2, AddWeak DEF Replies
    <2> QED BY <1>2, <2>3, CommitStrand
  <1>3. ASSUME NEW i \in Inos, IsDir(rows, p), CanInsert(rows, i, p, n),
               rows' = IF txn THEN disk ELSE Insert(rows, i, NewInode(p, n, "symlink", a)),
               disk' = rows', txn' = FALSE, reply' = "none"
        PROVE  StrandInv'
    <2>1. i \notin DOMAIN rows /\ Entry(rows, p, n) = {} /\ WeakTree(rows) /\ WeakTree(disk)
      BY <1>3 DEF CanInsert, StrandInv
    <2>2. WeakTree(Insert(rows, i, NewInode(p, n, "symlink", a)))
      BY <1>3, <2>1, InsertWeak
    <2>3. WeakTree(rows') /\ WeakTree(disk')
      BY <1>3, <2>1, <2>2
    <2> QED BY <1>3, <2>3 DEF StrandInv, Replies
  <1>4. ASSUME NEW k \in Kinds, NewEntry(p, n, k, a)
        PROVE  StrandInv'
    <2> DEFINE links == IF k = "dir" THEN 1 ELSE 0
    <2>1. links \in {0, 1}
      OBVIOUS
    <2>2. \/ \E code \in Replies : Fail(code)
          \/ \E i \in Inos :
               /\ IsDir(rows, p) /\ rows[p].nlink + links <= MaxNlink /\ CanInsert(rows, i, p, n)
               /\ Commit(PushChild(Insert(rows, i, NewInode(p, n, k, a)), p, i, links), "EIO")
      BY <1>4 DEF NewEntry, BeginFails, RollBack, Replies
    <2> HIDE DEF links
    <2> QED BY <2>1, <2>2, <1>1, <1>2
  <1>5. ASSUME Symlink(p, n, a)
        PROVE  StrandInv'
    <2>1. \/ \E code \in Replies : Fail(code)
          \/ \E i \in Inos :
               /\ IsDir(rows, p) /\ CanInsert(rows, i, p, n)
               /\ \/ /\ AutoCommit(PushChild(Insert(rows, i, NewInode(p, n, "symlink", a)), p, i, 0))
                     /\ reply' = "ok"
                  \/ /\ rows' = IF txn THEN disk ELSE Insert(rows, i, NewInode(p, n, "symlink", a))
                     /\ disk' = rows' /\ txn' = FALSE /\ reply' = "none"
      BY <1>5 DEF Symlink, Effect, Replies
    <2>2. IsDir(rows, p) => rows[p].nlink + 0 <= MaxNlink
      <3> SUFFICES ASSUME IsDir(rows, p)
                   PROVE  rows[p].nlink + 0 <= MaxNlink
        OBVIOUS
      <3>1. rows[p] \in Inode
        BY DEF StrandInv, WeakTree, SoundRows, IsTable, IsDir
      <3> QED BY <3>1, NamespaceAssumption DEF Inode
    <2>3. "symlink" \in Kinds /\ 0 \in {0, 1}
      BY DEF Kinds
    <2> QED BY <2>1, <2>2, <2>3, <1>1, <1>2, <1>3
  <1>6. "dir" \in Kinds /\ "file" \in Kinds
    BY DEF Kinds
  <1> QED BY <1>4, <1>5, <1>6 DEF Mkdir, Create

\* unlink and rmdir.
LEMMA RemoveStrand ==
    ASSUME StrandInv, NEW p \in Inos, NEW n \in Names, Unlink(p, n) \/ Rmdir(p, n),
           "ignored" \notin MayFail
    PROVE  StrandInv'
  <1>1. CASE \E code \in Replies : Fail(code)
    BY <1>1 DEF Fail, StrandInv
  <1>2. ASSUME NEW i \in Entry(rows, p, n), ~Full(rows, i), NEW links \in {0, 1},
               Commit(Delete(DropChild(rows, p, i, links), i), "ok")
        PROVE  StrandInv'
    <2> DEFINE new == Delete(DropChild(rows, p, i, links), i)
    <2>1. WeakTree(rows) /\ SoundRows(rows) /\ i \in DOMAIN rows /\ rows[i].parent = p /\ "ok" \in Replies
      BY DEF StrandInv, WeakTree, Entry, Replies
    <2>2. i # Root
      BY <2>1 DEF WeakTree, RootIn, Inos
    <2>3. Removed(rows, new, p, i, links)
      BY <2>1, RemoveShape
    <2>4. Commit(new, "ok")
      BY <1>2
    <2> HIDE DEF new
    <2>5. WeakTree(new)
      BY <1>2, <2>1, <2>2, <2>3, RemoveWeak
    <2> QED BY <2>1, <2>4, <2>5, CommitStrand
  <1>3. ASSUME NEW i \in Entry(rows, p, n), ~Full(rows, i), NEW links \in {0, 1}, Remove(i, p, links)
        PROVE  StrandInv'
    BY <1>1, <1>2, <1>3 DEF Remove, RollBack, BeginFails, Effect, Replies
  <1> QED
    BY <1>1, <1>3 DEF Unlink, Rmdir, Full, Replies

\* rename.
LEMMA RenameStrand ==
    ASSUME StrandInv, NEW p \in Inos, NEW n \in Names, NEW np \in Inos, NEW nn \in Names,
           Rename(p, n, np, nn), "ignored" \notin MayFail
    PROVE  StrandInv'
  <1> DEFINE E == Entry(rows, np, nn)
  <1>1. CASE (\E code \in Replies : Fail(code))
             \/ (reply' = "ENOTEMPTY" /\ txn' = TRUE /\ UNCHANGED <<rows, disk>>)
    BY <1>1 DEF Fail, StrandInv, Replies
  <1>2. ASSUME NEW m \in Entry(rows, p, n), KernelAllowsRename(rows, m, np, E),
               rows[np].nlink < MaxNlink, \A e \in E : ~Full(rows, e),
               Commit(Renamed(rows, m, p, np, nn, E, TRUE, TRUE, TRUE, TRUE, TRUE), "ok")
        PROVE  StrandInv'
    <2> DEFINE new == Renamed(rows, m, p, np, nn, E, TRUE, TRUE, TRUE, TRUE, TRUE)
    <2>1. /\ WeakTree(rows) /\ SoundRows(rows) /\ m \in DOMAIN rows /\ rows[m].parent = p
          /\ "ok" \in Replies /\ E = Entry(rows, np, nn)
      BY DEF StrandInv, WeakTree, Entry, Replies
    <2>2. m # Root /\ Root \notin E
      BY <2>1 DEF WeakTree, RootIn, Inos, Entry
    <2>3. np \in DOMAIN rows /\ np # m /\ m \notin E /\ np \notin E
      BY <1>2, <2>1 DEF KernelAllowsRename, NotBelow, IsDir, Entry, SoundRows
    <2>4. Commit(new, "ok")
      BY <1>2
    <2> HIDE DEF E
    <2>5. Moved(rows, new, m, p, np, nn, E)
      BY <1>2, <2>1, <2>3, RenameShape
    <2> HIDE DEF new
    <2>6. WeakTree(new)
      BY <1>2, <2>1, <2>2, <2>3, <2>5, MoveWeak
    <2> QED BY <2>1, <2>4, <2>6, CommitStrand
  <1> QED
    BY <1>1, <1>2 DEF Rename, BeginFails, Effect, Replies

\* The invariant is inductive.
LEMMA StrandInvInductive ==
    ASSUME StrandInv, [Next]_vars, "ignored" \notin MayFail
    PROVE  StrandInv'
  <1>1. CASE Remount
    <2>1. Mounted(disk) = disk
      BY DEF StrandInv, WeakTree, RootIn, IsDir, Mounted
    <2> QED BY <1>1, <2>1 DEF Remount, StrandInv, Replies
  <1>2. ASSUME NEW p \in Inos, NEW n \in Names, NEW a \in Attrs,
               Mkdir(p, n, a) \/ Create(p, n, a) \/ Symlink(p, n, a)
        PROVE  StrandInv'
    BY <1>2, AddStrand
  <1>3. ASSUME NEW p \in Inos, NEW n \in Names, Unlink(p, n) \/ Rmdir(p, n)
        PROVE  StrandInv'
    BY <1>3, RemoveStrand
  <1>4. ASSUME NEW p \in Inos, NEW n \in Names, NEW np \in Inos, NEW nn \in Names,
               Rename(p, n, np, nn)
        PROVE  StrandInv'
    BY <1>4, RenameStrand
  <1>5. ASSUME NEW i \in Inos, NEW a \in Attrs, Setattr(i, a)
        PROVE  StrandInv'
    <2>1. CASE \E code \in Replies : Fail(code)
      BY <2>1 DEF Fail, StrandInv
    <2>2. CASE i \in DOMAIN rows /\ AutoCommit(Update(rows, i, [rows[i] EXCEPT !.attr = a]))
               /\ reply' = "ok"
      <3> DEFINE new == Update(rows, i, [rows[i] EXCEPT !.attr = a])
      <3>1. WeakTree(rows) /\ SoundRows(rows) /\ "ok" \in Replies
        BY DEF StrandInv, WeakTree, Replies
      <3>2. Reattributed(rows, new) /\ AutoCommit(new)
        BY <2>2, <3>1, AttrShape
      <3> HIDE DEF new
      <3>3. WeakTree(new)
        BY <3>1, <3>2, AttrWeak
      <3> QED BY <2>2, <3>1, <3>2, <3>3, CommitStrand
    <2> QED BY <1>5, <2>1, <2>2 DEF Setattr, Replies
  <1>6. CASE UNCHANGED vars
    BY <1>6 DEF vars, StrandInv
  <1> QED BY <1>1, <1>2, <1>3, <1>4, <1>5, <1>6 DEF Next

\* With crashes between the two statements of symlink, failed commits and
\* failures of every statement whose result is looked at, for any names and any
\* number of inodes: a directory or a file is always reachable from the root, in
\* the mount's table and on disk; only symlinks can be stranded.
THEOREM OnlySymlinksAreStranded ==
    ASSUME "ignored" \notin MayFail
    PROVE  Spec => []OnlySymlinksStranded
  <1>1. Init => StrandInv
    BY InitTree, TreeIsWeak DEF IndInv, StrandInv
  <1>2. StrandInv /\ [Next]_vars => StrandInv'
    BY StrandInvInductive
  <1>3. StrandInv => OnlySymlinksStranded
    BY WeakStrandsSymlinks DEF StrandInv, OnlySymlinksStranded
  <1> QED BY <1>1, <1>2, <1>3, PTL DEF Spec
=============================================================================
