--------------------------- MODULE FileDataProofs ---------------------------
(***************************************************************************)
(* Theorems about FileData, for files of any length, any number of files,  *)
(* handles, blocks and messages.                                           *)
(***************************************************************************)
EXTENDS FileData, FiniteSetTheorems, SequenceTheorems, WellFoundedInduction, TLAPS

-----------------------------------------------------------------------------
(* The inductive invariant, in parts.                                       *)

Row == [content: Contents, msg: 1..Len(messages), refs: 1..MaxRefs]
Inode == [size: 0..MaxLen, rid: 0..Len(blocks), len: 0..MaxLen]
Handle == [ino: Inos, buf: Contents, dirty: BOOLEAN, born: 1..MaxCreates]
LastClose == [known: BOOLEAN, stored: BOOLEAN, data: Contents]

\* The message of a block holds the block's content.
BlocksStored == \A b \in 1..Len(blocks) : messages[blocks[b].msg] = blocks[b].content

\* A manifest has the length of its block.
LengthsRight ==
    \A i \in DOMAIN inodes : inodes[i].rid # NoBlock => inodes[i].len = Len(blocks[inodes[i].rid].content)

\* Without a transport no file has a block.
NeedsTransport == HasTransport \/ \A i \in DOMAIN inodes : inodes[i].rid = NoBlock

StoreOK ==
    /\ messages \in Seq(Contents) /\ blocks \in Seq(Row) /\ cache \subseteq 1..Len(blocks)
    /\ BlocksStored

FilesOK ==
    /\ DOMAIN inodes \subseteq Inos /\ inodes \in [DOMAIN inodes -> Inode]
    /\ LengthsRight /\ NeedsTransport

HandlesOK ==
    /\ DOMAIN handles \subseteq 1..MaxFh /\ handles \in [DOMAIN handles -> Handle]
    /\ nextFh \in 1..(MaxFh + 1)

HistoryOK ==
    /\ DOMAIN created = DOMAIN inodes /\ DOMAIN closed = DOMAIN inodes
    /\ created \in [DOMAIN inodes -> 1..MaxCreates]
    /\ closed \in [DOMAIN inodes -> LastClose]
    /\ creates \in 0..MaxCreates

IInv == StoreOK /\ FilesOK /\ HandlesOK /\ HistoryOK

\* The type invariant and ManifestBacked are part of it.
LEMMA IInvImplies == IInv => TypeOK /\ ManifestBacked
  <1> SUFFICES ASSUME IInv PROVE TypeOK /\ ManifestBacked
    OBVIOUS
  <1>1. TypeOK
    BY DEF IInv, StoreOK, FilesOK, HandlesOK, HistoryOK, TypeOK, Row, Inode, Handle, LastClose
  <1>2. ManifestBacked
    <2> SUFFICES ASSUME NEW i \in DOMAIN inodes, inodes[i].rid # NoBlock
                 PROVE  LET b == blocks[inodes[i].rid] IN
                        messages[b.msg] = b.content /\ Len(b.content) = inodes[i].len
      BY DEF ManifestBacked
    <2>1. Len(blocks) \in Nat /\ inodes[i].rid \in 0..Len(blocks)
      BY DEF IInv, StoreOK, FilesOK, Inode
    <2>2. inodes[i].rid \in 1..Len(blocks)
      BY <2>1 DEF NoBlock
    <2> QED BY <2>2 DEF IInv, StoreOK, FilesOK, BlocksStored, LengthsRight
  <1> QED BY <1>1, <1>2

-----------------------------------------------------------------------------
(* Contents and inode numbers.                                              *)

\* Contents are the sequences of bytes and zeros up to MaxLen.
LEMMA ContentsAre ==
    /\ \A c \in Contents : c \in Seq(Bytes \cup {0}) /\ Len(c) \in 0..MaxLen
    /\ \A n \in 0..MaxLen : \A c \in [1..n -> Bytes \cup {0}] : c \in Contents /\ Len(c) = n
    /\ <<>> \in Contents /\ Len(<<>>) = 0
  <1>1. MaxLen \in Nat
    BY FileDataAssumption
  <1>2. ASSUME NEW n \in 0..MaxLen, NEW c \in [1..n -> Bytes \cup {0}]
        PROVE  c \in Contents /\ Len(c) = n /\ c \in Seq(Bytes \cup {0})
    <2>1. n \in Nat
      BY <1>1
    <2>2. c \in Contents
      BY DEF Contents
    <2> QED BY <2>1, <2>2
  <1>3. ASSUME NEW c \in Contents
        PROVE  \E n \in 0..MaxLen : c \in [1..n -> Bytes \cup {0}]
    BY DEF Contents
  <1>4. \A c \in Contents : c \in Seq(Bytes \cup {0}) /\ Len(c) \in 0..MaxLen
    BY <1>2, <1>3
  <1>5. 0 \in 0..MaxLen /\ <<>> \in [1..0 -> Bytes \cup {0}]
    BY <1>1
  <1> QED BY <1>2, <1>4, <1>5

\* write keeps the buffer within the bound.
LEMMA SplicedIs ==
    ASSUME NEW buf \in Contents, NEW off \in Nat, NEW b \in Bytes, off + 1 <= MaxLen
    PROVE  Spliced(buf, off, <<b>>) \in Contents
  <1> DEFINE n == Larger(Len(buf), off + Len(<<b>>))
  <1>1. Len(buf) \in 0..MaxLen /\ buf \in Seq(Bytes \cup {0}) /\ MaxLen \in Nat /\ Len(<<b>>) = 1
    BY ContentsAre, FileDataAssumption
  <1>2. n \in 0..MaxLen
    BY <1>1 DEF Larger
  <1>3. ASSUME NEW i \in 1..n
        PROVE  (IF i \in (off + 1)..(off + Len(<<b>>)) THEN <<b>>[i - off]
                ELSE IF i <= Len(buf) THEN buf[i] ELSE 0) \in Bytes \cup {0}
    <2>1. i \in Nat /\ i >= 1
      BY <1>2
    <2>2. CASE i \in (off + 1)..(off + Len(<<b>>))
      <3>1. i - off = 1
        BY <1>1, <2>1, <2>2
      <3> QED BY <2>2, <3>1
    <2>3. CASE i <= Len(buf)
      <3>1. buf[i] \in Bytes \cup {0}
        BY <1>1, <2>1, <2>3
      <3> QED BY <2>2, <2>3, <3>1
    <2> QED BY <2>2, <2>3
  <1>4. Spliced(buf, off, <<b>>) \in [1..n -> Bytes \cup {0}]
    BY <1>3 DEF Spliced
  <1> HIDE DEF n
  <1> QED BY <1>2, <1>4, ContentsAre

\* next_ino gives a number that is not in use.
LEMMA NextInoFresh ==
    ASSUME DOMAIN inodes \subseteq Inos, NEW i, IsNextIno(i)
    PROVE  i \notin DOMAIN inodes
  <1> DEFINE S == DOMAIN inodes \cup {1}
             B == {n \in Nat : \A j \in S : j <= n}
  <1>1. MaxIno \in Nat /\ S \in SUBSET Nat /\ MaxIno + 1 \in B
    BY FileDataAssumption DEF Inos
  <1>2. PICK m \in B : \A n \in B : <<n, m>> \notin OpToRel(<, Nat)
    <2>1. B \in SUBSET Nat /\ B # {}
      BY <1>1
    <2> HIDE DEF B
    <2> QED BY <2>1, WFMin, NatLessThanWellFounded
  <1>3. \A n \in B : ~(n < m)
    BY <1>2 DEF OpToRel
  <1>4. m \in S
    <2>1. SUFFICES ASSUME m \notin S PROVE FALSE
      OBVIOUS
    <2>2. m \in Nat /\ 1 <= m /\ \A j \in S : j \in Nat /\ j <= m /\ j # m
      BY <1>1, <1>2, <2>1
    <2>3. m - 1 \in Nat /\ \A j \in S : j <= m - 1
      <3> HIDE DEF S, B
      <3> QED BY <2>2
    <2>4. m - 1 \in B /\ m - 1 < m
      BY <2>2, <2>3
    <2> QED BY <1>3, <2>4
  <1>5. \E j \in S : \A k \in DOMAIN inodes : k <= j
    BY <1>2, <1>4
  <1> DEFINE g == CHOOSE j \in S : \A k \in DOMAIN inodes : k <= j
  <1>6. g \in S /\ \A k \in DOMAIN inodes : k <= g
    BY <1>5
  <1>7. i = 1 + g
    BY DEF IsNextIno
  <1> HIDE DEF g
  <1>8. g \in Nat
    BY <1>1, <1>6
  <1>9. ~(1 + g <= g)
    BY <1>8
  <1> QED BY <1>6, <1>7, <1>9

-----------------------------------------------------------------------------
(* The blocks table and the messages.                                       *)

\* The rows of the table keep their contents; new ones are added at its end.
Extends ==
    /\ Len(blocks) \in Nat /\ Len(blocks') \in Nat /\ Len(blocks) <= Len(blocks')
    /\ \A b \in 1..Len(blocks) : blocks'[b].content = blocks[b].content

\* What the rows of the table are.
LEMMA RowsAre ==
    ASSUME StoreOK
    PROVE  /\ Len(blocks) \in Nat /\ Len(messages) \in Nat
           /\ \A b \in 1..Len(blocks) :
                /\ blocks[b] \in Row /\ blocks[b].content \in Contents
                /\ blocks[b].msg \in 1..Len(messages) /\ blocks[b].refs \in 1..MaxRefs
           /\ \A m \in 1..Len(messages) : messages[m] \in Contents
  <1>1. messages \in Seq(Contents) /\ blocks \in Seq(Row)
    BY DEF StoreOK
  <1>2. /\ Len(blocks) \in Nat /\ Len(messages) \in Nat
        /\ \A b \in 1..Len(blocks) : blocks[b] \in Row
        /\ \A m \in 1..Len(messages) : messages[m] \in Contents
    BY <1>1
  <1>3. \A row \in Row : row.content \in Contents /\ row.msg \in 1..Len(messages) /\ row.refs \in 1..MaxRefs
    BY DEF Row
  <1> QED BY <1>2, <1>3

\* Only the cache has changed.
LEMMA StoreSame ==
    ASSUME StoreOK, blocks' = blocks, messages' = messages, cache' \subseteq 1..Len(blocks)
    PROVE  StoreOK' /\ Extends
  <1>1. Row' = Row /\ BlocksStored'
    BY DEF StoreOK, BlocksStored, Row
  <1>2. StoreOK'
    BY <1>1 DEF StoreOK
  <1>3. Len(blocks) \in Nat
    BY RowsAre
  <1> QED BY <1>2, <1>3 DEF Extends

\* A block is counted once more.
LEMMA StoreCounts ==
    ASSUME StoreOK, NEW b \in 1..Len(blocks), blocks[b].refs < MaxRefs,
           blocks' = [blocks EXCEPT ![b].refs = @ + 1], messages' = messages, cache' = cache
    PROVE  /\ StoreOK' /\ Extends /\ Len(blocks') = Len(blocks)
           /\ blocks'[b].refs = blocks[b].refs + 1
           /\ \A c \in 1..Len(blocks) : c # b => blocks'[c] = blocks[c]
  <1> DEFINE row == [blocks[b] EXCEPT !.refs = @ + 1]
  <1>1. /\ Len(blocks) \in Nat /\ blocks[b] \in Row /\ DOMAIN blocks = 1..Len(blocks)
        /\ blocks[b].refs \in 1..MaxRefs /\ MaxRefs \in Nat
    BY RowsAre, FileDataAssumption DEF StoreOK
  <1>2. blocks[b].refs + 1 \in 1..MaxRefs
    BY <1>1
  <1>3. /\ row \in Row /\ row.content = blocks[b].content /\ row.msg = blocks[b].msg
        /\ row.refs = blocks[b].refs + 1
    BY <1>1, <1>2 DEF Row
  <1>4. blocks' = [blocks EXCEPT ![b] = row]
    BY <1>1
  <1> HIDE DEF row
  <1>5. /\ blocks' \in Seq(Row) /\ Len(blocks') = Len(blocks)
        /\ blocks'[b] = row /\ \A c \in 1..Len(blocks) : c # b => blocks'[c] = blocks[c]
    BY <1>1, <1>3, <1>4 DEF StoreOK
  <1>6. Row' = Row
    BY DEF Row
  <1>7. BlocksStored'
    BY <1>3, <1>5 DEF StoreOK, BlocksStored
  <1>8. StoreOK'
    BY <1>5, <1>6, <1>7 DEF StoreOK
  <1>9. Extends
    BY <1>1, <1>3, <1>5 DEF Extends
  <1> QED BY <1>3, <1>5, <1>8, <1>9

\* A message is sent.
LEMMA Sent ==
    ASSUME StoreOK, NEW data \in Contents, messages' = Append(messages, data)
    PROVE  /\ messages' \in Seq(Contents) /\ Len(messages') = Len(messages) + 1
           /\ messages'[Len(messages) + 1] = data
           /\ \A m \in 1..Len(messages) : messages'[m] = messages[m]
           /\ Row \subseteq Row'
  <1>1. messages \in Seq(Contents) /\ Len(messages) \in Nat
    BY DEF StoreOK
  <1>2. /\ messages' \in Seq(Contents) /\ Len(messages') = Len(messages) + 1
        /\ messages'[Len(messages) + 1] = data
        /\ \A m \in 1..Len(messages) : messages'[m] = messages[m]
    BY <1>1
  <1>3. 1..Len(messages) \subseteq 1..Len(messages')
    BY <1>1, <1>2
  <1>4. Row \subseteq Row'
    BY <1>3 DEF Row
  <1> QED BY <1>2, <1>4

\* A message that no row refers to changes nothing for the rows.
LEMMA StoreSends ==
    ASSUME StoreOK, NEW data \in Contents, messages' = Append(messages, data),
           blocks' = blocks, cache' = cache
    PROVE  StoreOK' /\ Extends
  <1>1. /\ messages' \in Seq(Contents) /\ Row \subseteq Row'
        /\ \A m \in 1..Len(messages) : messages'[m] = messages[m]
    BY Sent
  <1>2. /\ blocks \in Seq(Row) /\ Len(blocks) \in Nat
        /\ \A b \in 1..Len(blocks) : blocks[b] \in Row /\ blocks[b].msg \in 1..Len(messages)
    BY RowsAre DEF StoreOK
  <1>3. blocks' \in Seq(Row')
    BY <1>1, <1>2
  <1>4. BlocksStored'
    BY <1>1, <1>2 DEF StoreOK, BlocksStored
  <1> QED BY <1>1, <1>2, <1>3, <1>4 DEF StoreOK, Extends

\* A message with its row.
LEMMA StoreUploads ==
    ASSUME StoreOK, NEW data \in Contents, messages' = Append(messages, data),
           blocks' = Append(blocks, [content |-> data, msg |-> Len(messages) + 1, refs |-> 1]),
           cache' = cache \cup {Len(blocks) + 1}
    PROVE  /\ StoreOK' /\ Extends /\ Len(blocks') = Len(blocks) + 1
           /\ blocks'[Len(blocks) + 1].content = data /\ blocks'[Len(blocks) + 1].refs = 1
           /\ \A b \in 1..Len(blocks) : blocks'[b] = blocks[b]
  <1> DEFINE row == [content |-> data, msg |-> Len(messages) + 1, refs |-> 1]
  <1>1. /\ messages' \in Seq(Contents) /\ Row \subseteq Row'
        /\ Len(messages') = Len(messages) + 1 /\ messages'[Len(messages) + 1] = data
        /\ \A m \in 1..Len(messages) : messages'[m] = messages[m]
    BY Sent
  <1>2. /\ blocks \in Seq(Row) /\ Len(blocks) \in Nat /\ Len(messages) \in Nat
        /\ \A b \in 1..Len(blocks) : blocks[b] \in Row /\ blocks[b].msg \in 1..Len(messages)
    BY RowsAre DEF StoreOK
  <1>3. row \in Row'
    <2>1. Len(messages) + 1 \in 1..Len(messages') /\ 1 \in 1..MaxRefs
      BY <1>1, <1>2, FileDataAssumption
    <2> QED BY <2>1 DEF Row
  <1>4. row.content = data /\ row.msg = Len(messages) + 1 /\ row.refs = 1
    OBVIOUS
  <1> HIDE DEF row
  <1>5. blocks \in Seq(Row') /\ blocks' = Append(blocks, row)
    BY <1>1, <1>2 DEF row
  <1>6. /\ blocks' \in Seq(Row') /\ Len(blocks') = Len(blocks) + 1
        /\ blocks'[Len(blocks) + 1] = row /\ \A b \in 1..Len(blocks) : blocks'[b] = blocks[b]
    BY <1>3, <1>5
  <1>7. BlocksStored'
    <2> SUFFICES ASSUME NEW b \in 1..Len(blocks')
                 PROVE  messages'[blocks'[b].msg] = blocks'[b].content
      BY DEF BlocksStored
    <2>1. CASE b \in 1..Len(blocks)
      BY <1>1, <1>2, <1>6, <2>1 DEF StoreOK, BlocksStored
    <2>2. CASE b = Len(blocks) + 1
      BY <1>1, <1>4, <1>6, <2>2
    <2> QED BY <1>2, <1>6, <2>1, <2>2
  <1>8. cache' \subseteq 1..Len(blocks')
    <2>1. 1..Len(blocks) \subseteq 1..Len(blocks') /\ Len(blocks) + 1 \in 1..Len(blocks')
      BY <1>2, <1>6
    <2> QED BY <2>1 DEF StoreOK
  <1>9. StoreOK'
    BY <1>1, <1>6, <1>7, <1>8 DEF StoreOK
  <1>10. Extends
    BY <1>2, <1>6 DEF Extends
  <1> QED BY <1>4, <1>6, <1>9, <1>10

-----------------------------------------------------------------------------
(* The inodes.                                                              *)

\* What is known of an inode.
LEMMA InodesAre ==
    ASSUME FilesOK, NEW i \in DOMAIN inodes
    PROVE  /\ i \in Inos /\ inodes[i] \in Inode
           /\ inodes[i].size \in 0..MaxLen /\ inodes[i].rid \in 0..Len(blocks) /\ inodes[i].len \in 0..MaxLen
  BY DEF FilesOK, Inode

\* An inode and its block, with a table that has grown.
Fits(inode) ==
    /\ inode \in Inode'
    /\ inode.rid # NoBlock => HasTransport /\ inode.len = Len(blocks'[inode.rid].content)

\* A table that has grown still has what the inodes refer to.
LEMMA StillFits ==
    ASSUME FilesOK, Extends, NEW i \in DOMAIN inodes
    PROVE  Fits(inodes[i])
  <1>1. Len(blocks) \in Nat /\ Len(blocks') \in Nat /\ Len(blocks) <= Len(blocks')
    BY DEF Extends
  <1>2. 0..Len(blocks) \subseteq 0..Len(blocks')
    BY <1>1
  <1>3. inodes[i] \in Inode /\ inodes[i].rid \in 0..Len(blocks)
    BY InodesAre
  <1>4. inodes[i] \in Inode'
    BY <1>2, <1>3 DEF Inode
  <1>5. ASSUME inodes[i].rid # NoBlock
        PROVE  HasTransport /\ inodes[i].len = Len(blocks'[inodes[i].rid].content)
    <2>1. inodes[i].rid \in 1..Len(blocks)
      BY <1>1, <1>3, <1>5 DEF NoBlock
    <2> QED BY <1>5, <2>1 DEF Extends, FilesOK, LengthsRight, NeedsTransport
  <1> QED BY <1>4, <1>5 DEF Fits

\* The inodes of the next state, each with its block.
LEMMA FilesFrom ==
    ASSUME NEW D \in SUBSET Inos, DOMAIN inodes' = D, inodes' = [i \in D |-> inodes'[i]],
           \A i \in D : Fits(inodes'[i])
    PROVE  FilesOK'
  <1>1. inodes' \in [DOMAIN inodes' -> Inode'] /\ DOMAIN inodes' \subseteq Inos
    BY DEF Fits
  <1>2. LengthsRight' /\ NeedsTransport'
    BY DEF LengthsRight, NeedsTransport, Fits
  <1> QED BY <1>1, <1>2 DEF FilesOK

\* The same inodes, with another size in one of them.
LEMMA FilesSized ==
    ASSUME FilesOK, Extends, NEW i \in DOMAIN inodes, NEW n \in 0..MaxLen,
           inodes' = [inodes EXCEPT ![i].size = n]
    PROVE  /\ FilesOK' /\ DOMAIN inodes' = DOMAIN inodes
           /\ inodes'[i].rid = inodes[i].rid /\ inodes'[i].len = inodes[i].len
           /\ \A j \in DOMAIN inodes : j # i => inodes'[j] = inodes[j]
  <1> DEFINE x == [inodes[i] EXCEPT !.size = n]
  <1>1. inodes[i] \in Inode /\ Fits(inodes[i])
    BY InodesAre, StillFits
  <1>2. x.size = n /\ x.rid = inodes[i].rid /\ x.len = inodes[i].len /\ x \in Inode'
    BY <1>1 DEF Inode, Fits
  <1>3. Fits(x)
    <2> HIDE DEF x
    <2> QED BY <1>1, <1>2 DEF Fits
  <1>4. inodes' = [inodes EXCEPT ![i] = x]
    BY <1>1
  <1> HIDE DEF x
  <1>5. /\ DOMAIN inodes' = DOMAIN inodes /\ inodes'[i] = x
        /\ \A j \in DOMAIN inodes : j # i => inodes'[j] = inodes[j]
        /\ inodes' = [j \in DOMAIN inodes |-> inodes'[j]]
    BY <1>4 DEF FilesOK
  <1>6. \A j \in DOMAIN inodes : Fits(inodes'[j])
    BY <1>3, <1>5, StillFits
  <1>7. FilesOK'
    BY <1>5, <1>6, FilesFrom DEF FilesOK
  <1> QED BY <1>2, <1>5, <1>7

\* The same inodes.
LEMMA FilesSame ==
    ASSUME FilesOK, Extends, inodes' = inodes
    PROVE  FilesOK'
  <1>1. DOMAIN inodes \in SUBSET Inos /\ inodes' = [i \in DOMAIN inodes |-> inodes'[i]]
    BY DEF FilesOK
  <1>2. \A i \in DOMAIN inodes : Fits(inodes'[i])
    BY StillFits
  <1> QED BY <1>1, <1>2, FilesFrom

-----------------------------------------------------------------------------
(* Handles and the history of closes.                                       *)

\* What is known of a handle.
LEMMA HandlesAre ==
    ASSUME HandlesOK, NEW f \in DOMAIN handles
    PROVE  /\ f \in 1..MaxFh /\ handles[f] \in Handle
           /\ handles[f].ino \in Inos /\ handles[f].buf \in Contents /\ handles[f].born \in 1..MaxCreates
           /\ handles[f].dirty \in BOOLEAN
  BY DEF HandlesOK, Handle

\* open and create add a handle.
LEMMA HandleAdded ==
    ASSUME HandlesOK, NEW i \in Inos, NEW born \in 1..MaxCreates, AddHandle(i, born)
    PROVE  /\ HandlesOK' /\ DOMAIN handles' = DOMAIN handles \cup {nextFh}
           /\ handles'[nextFh].ino = i /\ handles'[nextFh].born = born
           /\ \A f \in DOMAIN handles : f # nextFh => handles'[f] = handles[f]
  <1> DEFINE h == [ino |-> i, buf |-> <<>>, dirty |-> FALSE, born |-> born]
  <1>1. nextFh \in 1..MaxFh /\ nextFh + 1 \in 1..(MaxFh + 1)
    BY FileDataAssumption DEF HandlesOK, AddHandle
  <1>2. h \in Handle /\ h.ino = i /\ h.born = born
    BY ContentsAre DEF Handle
  <1>3. handles' = [f \in DOMAIN handles \cup {nextFh} |-> IF f = nextFh THEN h ELSE handles[f]] /\ nextFh' = nextFh + 1
    BY DEF AddHandle
  <1> HIDE DEF h
  <1> QED BY <1>1, <1>2, <1>3 DEF HandlesOK

\* An entry of the history.
LEMMA CloseIs ==
    /\ Changed \in LastClose /\ Changed.known = FALSE
    /\ \A d \in Contents : \A st \in BOOLEAN :
         /\ Closed(d, st) \in LastClose /\ Closed(d, st).known = TRUE
         /\ Closed(d, st).stored = st /\ Closed(d, st).data = d
  BY ContentsAre DEF Changed, Closed, LastClose

\* The history after the close of a handle.
LEMMA CloseRecorded ==
    ASSUME HistoryOK, HandlesOK, NEW f \in DOMAIN handles, NEW st \in BOOLEAN,
           DOMAIN inodes' = DOMAIN inodes, RecordClose(f, st), created' = created, creates' = creates
    PROVE  HistoryOK'
  <1>1. Closed(handles[f].buf, st) \in LastClose
    BY HandlesAre, CloseIs
  <1>2. closed' \in [DOMAIN inodes -> LastClose]
    BY <1>1 DEF HistoryOK, RecordClose
  <1> QED BY <1>2 DEF HistoryOK

\* What release with block b does to the inodes and the history: the manifest of
\* the handle's inode is this block, or nothing has changed.
PointsTo(f, b) ==
    /\ DOMAIN inodes' = DOMAIN inodes
    /\ \A j \in DOMAIN inodes : j # handles[f].ino => inodes'[j] = inodes[j]
    /\ \/ inodes' = inodes /\ RecordClose(f, FALSE)
       \/ /\ handles[f].ino \in DOMAIN inodes /\ RecordClose(f, TRUE)
          /\ inodes'[handles[f].ino].rid = b
          /\ inodes'[handles[f].ino].size = Len(handles[f].buf)

\* release with a block keeps the inodes in order.
LEMMA ManifestSet ==
    ASSUME IInv, NEW f \in DOMAIN handles, HasTransport, Extends,
           NEW b \in 1..Len(blocks'), blocks'[b].content = handles[f].buf,
           SetManifest(f, b), created' = created, creates' = creates
    PROVE  FilesOK' /\ HistoryOK' /\ PointsTo(f, b)
  <1> DEFINE i == handles[f].ino
             n == Len(handles[f].buf)
             x == [size |-> n, rid |-> b, len |-> n]
  <1>1. FilesOK /\ HandlesOK /\ HistoryOK
    BY DEF IInv
  <1>2. n \in 0..MaxLen
    BY <1>1, HandlesAre, ContentsAre
  <1>3. \/ i \in DOMAIN inodes /\ inodes' = [inodes EXCEPT ![i] = x] /\ RecordClose(f, TRUE)
        \/ inodes' = inodes /\ RecordClose(f, FALSE)
    BY DEF SetManifest
  <1>4. CASE i \in DOMAIN inodes /\ inodes' = [inodes EXCEPT ![i] = x] /\ RecordClose(f, TRUE)
    <2>1. Fits(x) /\ x.rid = b /\ x.size = n
      <3>1. b \in 0..Len(blocks')
        BY DEF Extends
      <3> QED BY <1>2, <3>1 DEF Fits, Inode
    <2> HIDE DEF x
    <2>2. /\ DOMAIN inodes' = DOMAIN inodes /\ inodes'[i] = x
          /\ \A j \in DOMAIN inodes : j # i => inodes'[j] = inodes[j]
          /\ inodes' = [j \in DOMAIN inodes |-> inodes'[j]]
      BY <1>1, <1>4 DEF FilesOK
    <2>3. \A j \in DOMAIN inodes : Fits(inodes'[j])
      BY <1>1, <2>1, <2>2, StillFits
    <2>4. FilesOK'
      BY <1>1, <2>2, <2>3, FilesFrom DEF FilesOK
    <2>5. HistoryOK'
      BY <1>1, <1>4, <2>2, CloseRecorded
    <2> QED BY <1>4, <2>1, <2>2, <2>4, <2>5 DEF PointsTo
  <1>5. CASE inodes' = inodes /\ RecordClose(f, FALSE)
    <2>1. FilesOK'
      BY <1>1, <1>5, FilesSame
    <2>2. HistoryOK'
      BY <1>1, <1>5, CloseRecorded
    <2> QED BY <1>5, <2>1, <2>2 DEF PointsTo
  <1> QED BY <1>3, <1>4, <1>5

-----------------------------------------------------------------------------
(* The actions.  Each preserves the invariant; what it does to the blocks   *)
(* table and to the manifests is kept for the theorems below.               *)

\* The table is as it was, and no manifest has a block that it had not before.
Quiet ==
    /\ blocks' = blocks
    /\ \A j \in DOMAIN inodes' : inodes'[j].rid # NoBlock => j \in DOMAIN inodes /\ inodes[j].rid = inodes'[j].rid

\* Block b, of the content of f's buffer, is counted once more, unless that may fail.
Recounted(f, b) ==
    /\ blocks[b].content = handles[f].buf /\ Extends /\ Len(blocks') = Len(blocks)
    /\ \A c \in 1..Len(blocks) : c # b => blocks'[c] = blocks[c]
    /\ blocks'[b].refs = blocks[b].refs + 1 \/ "increment" \in MayFail

\* f's buffer is a new row of the table.
Added(f) ==
    /\ NotFound(f) /\ Extends /\ Len(blocks') = Len(blocks) + 1
    /\ blocks'[Len(blocks) + 1].content = handles[f].buf /\ blocks'[Len(blocks) + 1].refs = 1
    /\ \A b \in 1..Len(blocks) : blocks'[b] = blocks[b]

\* f's buffer is not stored, or there is nothing to store.
Dropped(f) ==
    /\ blocks' = blocks /\ inodes' = inodes
    /\ RecordClose(f, FALSE) \/ closed' = closed

\* create preserves the invariant.
LEMMA CreatePreserves ==
    ASSUME IInv, NEW i \in Inos, Create(i)
    PROVE  IInv' /\ Quiet
  <1> DEFINE x == [size |-> 0, rid |-> NoBlock, len |-> 0]
             c == Closed(<<>>, TRUE)
  <1>1. StoreOK /\ FilesOK /\ HandlesOK /\ HistoryOK /\ MaxLen \in Nat /\ MaxCreates \in Nat
    BY FileDataAssumption DEF IInv
  <1>2. /\ blocks' = blocks /\ messages' = messages /\ cache' = cache
        /\ creates < MaxCreates /\ creates' = creates + 1 /\ AddHandle(i, creates')
        /\ inodes' = [j \in DOMAIN inodes \cup {i} |-> IF j = i THEN x ELSE inodes[j]]
        /\ created' = [j \in DOMAIN inodes \cup {i} |-> IF j = i THEN creates' ELSE created[j]]
        /\ closed' = [j \in DOMAIN inodes \cup {i} |-> IF j = i THEN c ELSE closed[j]]
    BY DEF Create
  <1>3. StoreOK' /\ Extends
    BY <1>1, <1>2, StoreSame DEF StoreOK
  <1>4. Fits(x) /\ x.rid = NoBlock
    <2>1. Len(blocks') \in Nat
      BY <1>3 DEF Extends
    <2>2. 0 \in 0..MaxLen /\ 0 \in 0..Len(blocks')
      BY <1>1, <2>1
    <2> QED BY <2>2 DEF Fits, Inode, NoBlock
  <1>5. creates' \in 1..MaxCreates
    BY <1>1, <1>2 DEF HistoryOK
  <1>6. HandlesOK'
    BY <1>1, <1>2, <1>5, HandleAdded
  <1>7. c \in LastClose
    BY ContentsAre, CloseIs
  <1> HIDE DEF x, c
  <1>8. FilesOK'
    <2>1. /\ DOMAIN inodes' = DOMAIN inodes \cup {i} /\ inodes' = [j \in DOMAIN inodes \cup {i} |-> inodes'[j]]
          /\ DOMAIN inodes \cup {i} \in SUBSET Inos
      BY <1>1, <1>2 DEF FilesOK
    <2>2. \A j \in DOMAIN inodes \cup {i} : Fits(inodes'[j])
      BY <1>1, <1>2, <1>3, <1>4, StillFits
    <2> QED BY <2>1, <2>2, FilesFrom
  <1>9. HistoryOK'
    <2>1. creates' \in 0..MaxCreates
      BY <1>1, <1>5
    <2> QED BY <1>1, <1>2, <1>5, <1>7, <2>1 DEF HistoryOK
  <1>10. Quiet
    BY <1>2, <1>4 DEF Quiet
  <1> QED BY <1>3, <1>6, <1>8, <1>9, <1>10 DEF IInv

\* open preserves the invariant.
LEMMA OpenPreserves ==
    ASSUME IInv, NEW i \in Inos, Open(i)
    PROVE  IInv' /\ Quiet
  <1>1. StoreOK /\ FilesOK /\ HandlesOK /\ HistoryOK
    BY DEF IInv
  <1>2. /\ i \in DOMAIN inodes /\ AddHandle(i, created[i])
        /\ inodes' = inodes /\ blocks' = blocks /\ messages' = messages /\ cache' = cache
        /\ created' = created /\ creates' = creates /\ closed' = closed
    BY DEF Open
  <1>3. StoreOK' /\ Extends
    BY <1>1, <1>2, StoreSame DEF StoreOK
  <1>4. FilesOK'
    BY <1>1, <1>2, <1>3, FilesSame
  <1>5. HandlesOK'
    BY <1>1, <1>2, HandleAdded DEF HistoryOK
  <1>6. HistoryOK' /\ Quiet
    BY <1>1, <1>2 DEF HistoryOK, Quiet
  <1> QED BY <1>3, <1>4, <1>5, <1>6 DEF IInv

\* unlink preserves the invariant.
LEMMA UnlinkPreserves ==
    ASSUME IInv, NEW i \in Inos, Unlink(i)
    PROVE  IInv' /\ Quiet
  <1>1. StoreOK /\ FilesOK /\ HandlesOK /\ HistoryOK
    BY DEF IInv
  <1>2. /\ blocks' = blocks /\ messages' = messages /\ cache' = cache
        /\ handles' = handles /\ nextFh' = nextFh /\ creates' = creates
        /\ inodes' = [j \in DOMAIN inodes \ {i} |-> inodes[j]]
        /\ created' = [j \in DOMAIN inodes \ {i} |-> created[j]]
        /\ closed' = [j \in DOMAIN inodes \ {i} |-> closed[j]]
    BY DEF Unlink
  <1>3. StoreOK' /\ Extends
    BY <1>1, <1>2, StoreSame DEF StoreOK
  <1>4. FilesOK'
    <2>1. /\ DOMAIN inodes' = DOMAIN inodes \ {i} /\ inodes' = [j \in DOMAIN inodes \ {i} |-> inodes'[j]]
          /\ DOMAIN inodes \ {i} \in SUBSET Inos
      BY <1>1, <1>2 DEF FilesOK
    <2>2. \A j \in DOMAIN inodes \ {i} : Fits(inodes'[j])
      BY <1>1, <1>2, <1>3, StillFits
    <2> QED BY <2>1, <2>2, FilesFrom
  <1>5. HandlesOK' /\ HistoryOK' /\ Quiet
    BY <1>1, <1>2 DEF HandlesOK, HistoryOK, Quiet
  <1> QED BY <1>3, <1>4, <1>5 DEF IInv

\* setattr of a size preserves the invariant.
LEMMA SetSizePreserves ==
    ASSUME IInv, NEW i \in Inos, NEW n \in 0..MaxLen, SetSize(i, n)
    PROVE  IInv' /\ Quiet
  <1>1. StoreOK /\ FilesOK /\ HandlesOK /\ HistoryOK
    BY DEF IInv
  <1>2. /\ i \in DOMAIN inodes /\ inodes' = [inodes EXCEPT ![i].size = n]
        /\ closed' = [closed EXCEPT ![i] = Changed]
        /\ blocks' = blocks /\ messages' = messages /\ cache' = cache
        /\ handles' = handles /\ nextFh' = nextFh /\ created' = created /\ creates' = creates
    BY DEF SetSize
  <1>3. StoreOK' /\ Extends
    BY <1>1, <1>2, StoreSame DEF StoreOK
  <1>4. /\ FilesOK' /\ DOMAIN inodes' = DOMAIN inodes /\ inodes'[i].rid = inodes[i].rid
        /\ \A j \in DOMAIN inodes : j # i => inodes'[j] = inodes[j]
    BY <1>1, <1>2, <1>3, FilesSized
  <1>5. closed' \in [DOMAIN inodes -> LastClose]
    BY <1>1, <1>2, CloseIs DEF HistoryOK
  <1>6. HandlesOK' /\ HistoryOK' /\ Quiet
    BY <1>1, <1>2, <1>4, <1>5 DEF HandlesOK, HistoryOK, Quiet
  <1> QED BY <1>3, <1>4, <1>6 DEF IInv

\* write preserves the invariant.
LEMMA WritePreserves ==
    ASSUME IInv, NEW f \in DOMAIN handles, NEW off \in 0..(MaxLen - 1), NEW b \in Bytes,
           Write(f, off, <<b>>)
    PROVE  /\ IInv' /\ Quiet
           /\ DOMAIN handles' = DOMAIN handles /\ DOMAIN inodes' = DOMAIN inodes
           /\ \A g \in DOMAIN handles : handles'[g].ino = handles[g].ino /\ handles'[g].born = handles[g].born
           /\ \A j \in DOMAIN inodes : j # handles[f].ino => inodes'[j] = inodes[j]
  <1> DEFINE i == handles[f].ino
             buf == Spliced(handles[f].buf, off, <<b>>)
             h == [handles[f] EXCEPT !.buf = buf, !.dirty = TRUE]
  <1>1. StoreOK /\ FilesOK /\ HandlesOK /\ HistoryOK
    BY DEF IInv
  <1>2. /\ handles' = [handles EXCEPT ![f].buf = buf, ![f].dirty = TRUE]
        /\ (i \in DOMAIN inodes /\ inodes' = [inodes EXCEPT ![i].size = Len(buf)]) \/ inodes' = inodes
        /\ closed' = [j \in DOMAIN inodes |->
                        IF j = i /\ handles[f].born = created[i] THEN Changed ELSE closed[j]]
        /\ blocks' = blocks /\ messages' = messages /\ cache' = cache
        /\ nextFh' = nextFh /\ created' = created /\ creates' = creates
    BY DEF Write
  <1>3. StoreOK' /\ Extends
    BY <1>1, <1>2, StoreSame DEF StoreOK
  <1>4. buf \in Contents /\ Len(buf) \in 0..MaxLen
    <2>1. off \in Nat /\ off + 1 <= MaxLen
      BY FileDataAssumption
    <2>2. buf \in Contents
      BY <1>1, <2>1, HandlesAre, SplicedIs
    <2> HIDE DEF buf
    <2> QED BY <2>2, ContentsAre
  <1> HIDE DEF buf
  <1>5. h \in Handle /\ h.ino = handles[f].ino /\ h.born = handles[f].born
    BY <1>1, <1>4, HandlesAre DEF Handle
  <1>6. handles' = [handles EXCEPT ![f] = h]
    BY <1>1, <1>2, HandlesAre
  <1> HIDE DEF h
  <1>7. /\ HandlesOK' /\ DOMAIN handles' = DOMAIN handles
        /\ \A g \in DOMAIN handles : handles'[g].ino = handles[g].ino /\ handles'[g].born = handles[g].born
    BY <1>1, <1>2, <1>5, <1>6 DEF HandlesOK
  <1>8. /\ FilesOK' /\ Quiet /\ DOMAIN inodes' = DOMAIN inodes
        /\ \A j \in DOMAIN inodes : j # i => inodes'[j] = inodes[j]
    <2>1. CASE i \in DOMAIN inodes /\ inodes' = [inodes EXCEPT ![i].size = Len(buf)]
      <3>1. /\ FilesOK' /\ DOMAIN inodes' = DOMAIN inodes /\ inodes'[i].rid = inodes[i].rid
            /\ \A j \in DOMAIN inodes : j # i => inodes'[j] = inodes[j]
        BY <1>1, <1>3, <1>4, <2>1, FilesSized
      <3> QED BY <1>2, <2>1, <3>1 DEF Quiet
    <2>2. CASE inodes' = inodes
      BY <1>1, <1>2, <1>3, <2>2, FilesSame DEF Quiet
    <2> QED BY <1>2, <2>1, <2>2
  <1>9. closed' \in [DOMAIN inodes -> LastClose]
    BY <1>1, <1>2, CloseIs DEF HistoryOK
  <1>10. HistoryOK'
    BY <1>1, <1>2, <1>8, <1>9 DEF HistoryOK
  <1> QED BY <1>3, <1>7, <1>8, <1>10 DEF IInv

\* read, an eviction and a new process preserve the invariant.
LEMMA OthersPreserve ==
    ASSUME IInv,
           \/ \E f \in DOMAIN handles : \E off \in 0..(MaxLen - 1), len \in 1..MaxLen : Read(f, off, len)
           \/ \E b \in cache : Evict(b)
           \/ Remount
           \/ UNCHANGED vars
    PROVE  /\ IInv' /\ Quiet /\ inodes' = inodes /\ created' = created /\ closed' = closed
           /\ handles' = handles \/ handles' = <<>>
  <1>1. StoreOK /\ FilesOK /\ HandlesOK /\ HistoryOK
    BY DEF IInv
  <1>2. /\ inodes' = inodes /\ blocks' = blocks /\ messages' = messages
        /\ created' = created /\ creates' = creates /\ closed' = closed
        /\ (handles' = handles /\ nextFh' = nextFh) \/ (handles' = <<>> /\ nextFh' = 1)
    BY DEF Read, Evict, Remount, vars
  <1>3. cache' \subseteq 1..Len(blocks)
    <2>1. ASSUME NEW f \in DOMAIN handles, NEW off, NEW len, Read(f, off, len)
          PROVE  cache' \subseteq 1..Len(blocks)
      <3> DEFINE i == handles[f].ino
      <3>1. i \in DOMAIN inodes /\ inodes[i].rid # NoBlock /\ cache' = cache \cup {inodes[i].rid}
        BY <2>1 DEF Read, BlockNeeded
      <3>2. inodes[i].rid \in 0..Len(blocks) /\ Len(blocks) \in Nat
        BY <1>1, <3>1, InodesAre, RowsAre
      <3>3. inodes[i].rid \in 1..Len(blocks)
        BY <3>1, <3>2 DEF NoBlock
      <3> QED BY <1>1, <3>1, <3>3 DEF StoreOK
    <2>2. (\E b \in cache : Evict(b)) \/ Remount \/ UNCHANGED vars => cache' \subseteq cache
      BY DEF Evict, Remount, vars
    <2> QED BY <1>1, <2>1, <2>2 DEF StoreOK
  <1>4. StoreOK' /\ Extends
    BY <1>1, <1>2, <1>3, StoreSame
  <1>5. FilesOK'
    BY <1>1, <1>2, <1>4, FilesSame
  <1>6. HandlesOK'
    <2>1. 1 \in 1..(MaxFh + 1) /\ DOMAIN <<>> = {} /\ <<>> \in [{} -> Handle]
      BY FileDataAssumption
    <2>2. CASE handles' = handles /\ nextFh' = nextFh
      BY <1>1, <2>2 DEF HandlesOK
    <2>3. CASE handles' = <<>> /\ nextFh' = 1
      BY <2>1, <2>3 DEF HandlesOK
    <2> QED BY <1>2, <2>2, <2>3
  <1>7. HistoryOK' /\ Quiet
    BY <1>1, <1>2 DEF HistoryOK, Quiet
  <1> QED BY <1>2, <1>4, <1>5, <1>6, <1>7 DEF IInv

\* What release can do: drop the buffer, use a block again, or add one.
ReleaseKind(f) ==
    \/ Quiet /\ Dropped(f)
    \/ \E b \in 1..Len(blocks) : Recounted(f, b) /\ PointsTo(f, b)
    \/ Added(f) /\ PointsTo(f, Len(blocks) + 1)

\* release preserves the invariant.
LEMMA ReleasePreserves ==
    ASSUME IInv, NEW f \in DOMAIN handles, Release(f)
    PROVE  /\ IInv' /\ ReleaseKind(f) /\ created' = created
           /\ handles' = [g \in DOMAIN handles \ {f} |-> handles[g]]
  <1>1. StoreOK /\ FilesOK /\ HandlesOK /\ HistoryOK /\ handles[f].buf \in Contents
    BY HandlesAre DEF IInv
  <1>2. /\ handles' = [g \in DOMAIN handles \ {f} |-> handles[g]]
        /\ nextFh' = nextFh /\ created' = created /\ creates' = creates
        /\ (HasTransport /\ Flush(f)) \/ NotFlushed(f)
    BY DEF Release
  <1>3. HandlesOK'
    BY <1>1, <1>2 DEF HandlesOK
  <1>4. ASSUME NEW b \in SameContent(handles[f].buf), HasTransport,
               \/ blocks[b].refs < MaxRefs /\ blocks' = [blocks EXCEPT ![b].refs = @ + 1]
               \/ "increment" \in MayFail /\ blocks' = blocks,
               SetManifest(f, b), messages' = messages, cache' = cache
        PROVE  IInv' /\ ReleaseKind(f)
    <2>1. b \in 1..Len(blocks) /\ blocks[b].content = handles[f].buf
      BY DEF SameContent
    <2>2. StoreOK' /\ Recounted(f, b)
      <3>1. CASE blocks[b].refs < MaxRefs /\ blocks' = [blocks EXCEPT ![b].refs = @ + 1]
        BY <1>1, <1>4, <2>1, <3>1, StoreCounts DEF Recounted
      <3>2. CASE "increment" \in MayFail /\ blocks' = blocks
        BY <1>1, <1>4, <2>1, <3>2, StoreSame DEF Recounted, StoreOK
      <3> QED BY <1>4, <3>1, <3>2
    <2>3. Extends /\ b \in 1..Len(blocks') /\ blocks'[b].content = handles[f].buf
      BY <2>1, <2>2 DEF Recounted, Extends
    <2>4. FilesOK' /\ HistoryOK' /\ PointsTo(f, b)
      BY <1>2, <1>4, <2>3, ManifestSet
    <2> QED BY <1>3, <2>1, <2>2, <2>4 DEF IInv, ReleaseKind
  <1>5. ASSUME HasTransport, Uploaded(f)
        PROVE  IInv' /\ ReleaseKind(f)
    <2>1. /\ NotFound(f) /\ messages' = Append(messages, handles[f].buf)
          /\ blocks' = Append(blocks, [content |-> handles[f].buf, msg |-> Len(messages) + 1, refs |-> 1])
          /\ cache' = cache \cup {Len(blocks) + 1} /\ SetManifest(f, Len(blocks) + 1)
      BY <1>5 DEF Uploaded, Send
    <2>2. StoreOK' /\ Added(f)
      BY <1>1, <2>1, StoreUploads DEF Added
    <2>3. Extends /\ Len(blocks) + 1 \in 1..Len(blocks') /\ blocks'[Len(blocks) + 1].content = handles[f].buf
      BY <2>2 DEF Added, Extends
    <2>4. FilesOK' /\ HistoryOK' /\ PointsTo(f, Len(blocks) + 1)
      BY <1>2, <1>5, <2>1, <2>3, ManifestSet
    <2> QED BY <1>3, <2>2, <2>4 DEF IInv, ReleaseKind
  <1>6. ASSUME Lost(f) \/ NotFlushed(f)
        PROVE  IInv' /\ ReleaseKind(f)
    <2>1. /\ inodes' = inodes /\ blocks' = blocks /\ cache' = cache
          /\ messages' = messages \/ messages' = Append(messages, handles[f].buf)
          /\ RecordClose(f, FALSE) \/ closed' = closed
      BY <1>6 DEF Lost, NotFlushed, Send
    <2>2. StoreOK' /\ Extends
      BY <1>1, <2>1, StoreSame, StoreSends DEF StoreOK
    <2>3. FilesOK'
      BY <1>1, <2>1, <2>2, FilesSame
    <2>4. HistoryOK'
      <3>1. CASE RecordClose(f, FALSE)
        BY <1>1, <1>2, <2>1, <3>1, CloseRecorded
      <3>2. CASE closed' = closed
        BY <1>1, <1>2, <2>1, <3>2 DEF HistoryOK
      <3> QED BY <2>1, <3>1, <3>2
    <2>5. Quiet /\ Dropped(f)
      BY <2>1 DEF Quiet, Dropped
    <2> QED BY <1>3, <2>2, <2>3, <2>4, <2>5 DEF IInv, ReleaseKind
  <1>7. IInv' /\ ReleaseKind(f)
    <2>1. ASSUME HasTransport, Deduplicated(f)
          PROVE  IInv' /\ ReleaseKind(f)
      <3>1. PICK b \in SameContent(handles[f].buf) :
                /\ \/ blocks[b].refs < MaxRefs /\ blocks' = [blocks EXCEPT ![b].refs = @ + 1]
                   \/ "increment" \in MayFail /\ blocks' = blocks
                /\ SetManifest(f, b) /\ messages' = messages /\ cache' = cache
        BY <2>1 DEF Deduplicated
      <3> QED BY <1>4, <2>1, <3>1
    <2> QED BY <1>2, <1>5, <1>6, <2>1 DEF Flush
  <1> QED BY <1>2, <1>7

\* Every step preserves the invariant.
LEMMA NextIInv == IInv /\ [Next]_vars => IInv'
  <1> SUFFICES ASSUME IInv, [Next]_vars PROVE IInv'
    OBVIOUS
  <1>1. ASSUME NEW i \in Inos, Create(i) \/ Open(i) \/ Unlink(i) \/ \E n \in 0..MaxLen : SetSize(i, n)
        PROVE  IInv'
    BY <1>1, CreatePreserves, OpenPreserves, UnlinkPreserves, SetSizePreserves
  <1>2. ASSUME NEW f \in DOMAIN handles, NEW off \in 0..(MaxLen - 1), NEW b \in Bytes, Write(f, off, <<b>>)
        PROVE  IInv'
    BY <1>2, WritePreserves
  <1>3. ASSUME NEW f \in DOMAIN handles, Release(f)
        PROVE  IInv'
    BY <1>3, ReleasePreserves
  <1>4. CASE \/ \E f \in DOMAIN handles : \E off \in 0..(MaxLen - 1), len \in 1..MaxLen : Read(f, off, len)
             \/ \E b \in cache : Evict(b)
             \/ Remount
             \/ UNCHANGED vars
    BY <1>4, OthersPreserve
  <1> QED BY <1>1, <1>2, <1>3, <1>4 DEF Next

\* The invariant holds at the beginning.
LEMMA InitIInv == Init => IInv
  <1> SUFFICES ASSUME Init PROVE IInv
    OBVIOUS
  <1>1. /\ inodes = <<>> /\ blocks = <<>> /\ messages = <<>> /\ cache = {}
        /\ handles = <<>> /\ nextFh = 1 /\ created = <<>> /\ creates = 0 /\ closed = <<>>
    BY DEF Init
  <1>2. DOMAIN <<>> = {} /\ Len(<<>>) = 0 /\ \A S : <<>> \in [{} -> S] /\ <<>> \in Seq(S)
    OBVIOUS
  <1>3. StoreOK
    BY <1>1, <1>2 DEF StoreOK, BlocksStored
  <1>4. FilesOK
    BY <1>1, <1>2 DEF FilesOK, LengthsRight, NeedsTransport
  <1>5. 1 \in 1..(MaxFh + 1) /\ 0 \in 0..MaxCreates
    BY FileDataAssumption
  <1>6. HandlesOK /\ HistoryOK
    BY <1>1, <1>2, <1>5 DEF HandlesOK, HistoryOK
  <1> QED BY <1>3, <1>4, <1>6 DEF IInv

\* The invariant holds in every reachable state.
LEMMA IInvAlways == Spec => []IInv
  BY InitIInv, NextIInv, PTL DEF Spec

-----------------------------------------------------------------------------
(* The theorems.                                                            *)

\* The state of the files, blocks, messages and handles is well-formed: blocks
\* refer to messages that exist, manifests to blocks that exist.
THEOREM FileDataTypeOK == Spec => []TypeOK
  BY IInvAlways, IInvImplies, PTL

\* Every manifest leads to a message with the bytes it was made for, of the right
\* length, whatever fails and whatever is unlinked while it is open.
THEOREM ManifestsStayBacked == Spec => []ManifestBacked
  BY IInvAlways, IInvImplies, PTL

\* What every step does to the blocks table and to the manifests.
LEMMA StepKinds ==
    ASSUME IInv, [Next]_vars
    PROVE  Quiet \/ \E f \in DOMAIN handles : ReleaseKind(f)
  <1>1. ASSUME NEW i \in Inos, Create(i) \/ Open(i) \/ Unlink(i) \/ \E n \in 0..MaxLen : SetSize(i, n)
        PROVE  Quiet
    BY <1>1, CreatePreserves, OpenPreserves, UnlinkPreserves, SetSizePreserves
  <1>2. ASSUME NEW f \in DOMAIN handles, NEW off \in 0..(MaxLen - 1), NEW b \in Bytes, Write(f, off, <<b>>)
        PROVE  Quiet
    BY <1>2, WritePreserves
  <1>3. ASSUME NEW f \in DOMAIN handles, Release(f)
        PROVE  ReleaseKind(f)
    BY <1>3, ReleasePreserves
  <1>4. CASE \/ \E f \in DOMAIN handles : \E off \in 0..(MaxLen - 1), len \in 1..MaxLen : Read(f, off, len)
             \/ \E b \in cache : Evict(b)
             \/ Remount
             \/ UNCHANGED vars
    BY <1>4, OthersPreserve
  <1> QED BY <1>1, <1>2, <1>3, <1>4 DEF Next

\* A content is stored under one row only, if the query for its hash does not
\* fail: a query that fails is taken for one that finds nothing.
THEOREM ContentsStoredOnce ==
    ASSUME "find" \notin MayFail
    PROVE  Spec => []StoredOnce
  <1>1. Init => StoredOnce
    <2> SUFFICES ASSUME Init PROVE StoredOnce
      OBVIOUS
    <2>1. 1..Len(blocks) = {}
      BY DEF Init
    <2> QED BY <2>1 DEF StoredOnce
  <1>2. IInv /\ StoredOnce /\ [Next]_vars => StoredOnce'
    <2> SUFFICES ASSUME IInv, StoredOnce, [Next]_vars PROVE StoredOnce'
      OBVIOUS
    <2>1. \A b, c \in 1..Len(blocks) : blocks[b].content = blocks[c].content => b = c
      BY DEF StoredOnce, SameContent
    <2>2. SUFFICES \A b, c \in 1..Len(blocks') : blocks'[b].content = blocks'[c].content => b = c
      BY DEF StoredOnce, SameContent
    <2>3. CASE Quiet
      BY <2>1, <2>3 DEF Quiet
    <2>4. ASSUME NEW f \in DOMAIN handles, NEW b \in 1..Len(blocks), Recounted(f, b)
          PROVE  \A c, d \in 1..Len(blocks') : blocks'[c].content = blocks'[d].content => c = d
      BY <2>1, <2>4 DEF Recounted, Extends
    <2>5. ASSUME NEW f \in DOMAIN handles, Added(f)
          PROVE  \A c, d \in 1..Len(blocks') : blocks'[c].content = blocks'[d].content => c = d
      <3>1. \A c \in 1..Len(blocks) : blocks[c].content # handles[f].buf
        BY <2>5 DEF Added, NotFound, SameContent
      <3>2. /\ Len(blocks) \in Nat /\ Len(blocks') = Len(blocks) + 1
            /\ blocks'[Len(blocks) + 1].content = handles[f].buf
            /\ \A c \in 1..Len(blocks) : blocks'[c] = blocks[c]
        BY <2>5 DEF Added, Extends
      <3>3. \A c \in 1..Len(blocks') : c \in 1..Len(blocks) \/ c = Len(blocks) + 1
        BY <3>2
      <3> QED BY <2>1, <3>1, <3>2, <3>3
    <2> QED BY <2>3, <2>4, <2>5, StepKinds DEF ReleaseKind
  <1> QED BY <1>1, <1>2, IInvAlways, PTL DEF Spec

\* The files whose manifest has block b.
Users(b) == {i \in DOMAIN inodes : inodes[i].rid = b}

\* They are finitely many; fewer of them are not more, and one more is at most one more.
LEMMA UsersCount ==
    ASSUME IInv, NEW b, NEW T
    PROVE  /\ IsFiniteSet(Users(b)) /\ Cardinality(Users(b)) \in Nat
           /\ T \subseteq Users(b) => Cardinality(T) \in Nat /\ Cardinality(T) <= Cardinality(Users(b))
           /\ \A i : T \subseteq Users(b) \cup {i} =>
                       Cardinality(T) \in Nat /\ Cardinality(T) <= Cardinality(Users(b)) + 1
  <1>1. IsFiniteSet(Inos)
    <2>1. 2 \in Int /\ MaxIno \in Int
      BY FileDataAssumption
    <2> QED BY <2>1, FS_Interval DEF Inos
  <1>2. Users(b) \in SUBSET Inos
    BY DEF Users, IInv, FilesOK
  <1>3. IsFiniteSet(Users(b)) /\ Cardinality(Users(b)) \in Nat
    BY <1>1, <1>2, FS_Subset, FS_CardinalityType
  <1>4. ASSUME T \subseteq Users(b)
        PROVE  Cardinality(T) \in Nat /\ Cardinality(T) <= Cardinality(Users(b))
    <2>1. IsFiniteSet(T) /\ Cardinality(T) <= Cardinality(Users(b))
      BY <1>3, <1>4, FS_Subset
    <2> QED BY <2>1, FS_CardinalityType
  <1>5. ASSUME NEW i, T \subseteq Users(b) \cup {i}
        PROVE  Cardinality(T) \in Nat /\ Cardinality(T) <= Cardinality(Users(b)) + 1
    <2> DEFINE U == Users(b) \cup {i}
    <2>1. IsFiniteSet(U) /\ Cardinality(U) = IF i \in Users(b) THEN Cardinality(Users(b)) ELSE Cardinality(Users(b)) + 1
      BY <1>3, FS_AddElement
    <2> HIDE DEF U
    <2>2. IsFiniteSet(T) /\ Cardinality(T) <= Cardinality(U)
      BY <1>5, <2>1, FS_Subset DEF U
    <2>3. Cardinality(T) \in Nat /\ Cardinality(U) \in Nat
      BY <2>1, <2>2, FS_CardinalityType
    <2> QED BY <1>3, <2>1, <2>2, <2>3
  <1> QED BY <1>3, <1>4, <1>5

\* A block's reference count covers the manifests that use it, if the statement
\* that increments it does not fail: release ignores its result.
THEOREM RefCountsAlwaysCover ==
    ASSUME "increment" \notin MayFail
    PROVE  Spec => []RefCountsCover
  <1>1. Init => RefCountsCover
    <2> SUFFICES ASSUME Init PROVE RefCountsCover
      OBVIOUS
    <2>1. 1..Len(blocks) = {}
      BY DEF Init
    <2> QED BY <2>1 DEF RefCountsCover
  <1>2. IInv /\ IInv' /\ RefCountsCover /\ [Next]_vars => RefCountsCover'
    <2> SUFFICES ASSUME IInv, IInv', RefCountsCover, [Next]_vars,
                        NEW c \in 1..Len(blocks')
                 PROVE  blocks'[c].refs >= Cardinality(Users(c)')
      BY DEF RefCountsCover, Users
    <2>1. StoreOK /\ StoreOK' /\ FilesOK
      BY DEF IInv
    <2>2. /\ Len(blocks) \in Nat
          /\ \A b \in 1..Len(blocks) : blocks[b].refs \in 1..MaxRefs /\ blocks[b].refs >= Cardinality(Users(b))
      BY <2>1, RowsAre DEF RefCountsCover, Users
    <2>3. blocks'[c].refs \in 1..MaxRefs /\ MaxRefs \in Nat
      <3>1. blocks' \in Seq(Row') /\ \A row \in Row' : row.refs \in 1..MaxRefs
        BY <2>1 DEF StoreOK, Row
      <3> QED BY <3>1, FileDataAssumption
    <2>4. ASSUME c \in 1..Len(blocks), blocks'[c].refs = blocks[c].refs, Users(c)' \subseteq Users(c)
          PROVE  blocks'[c].refs >= Cardinality(Users(c)')
      <3>1. /\ Cardinality(Users(c)') \in Nat /\ Cardinality(Users(c)) \in Nat
            /\ Cardinality(Users(c)') <= Cardinality(Users(c))
        BY <2>4, UsersCount
      <3>2. blocks[c].refs >= Cardinality(Users(c))
        BY <2>2, <2>4
      <3> QED BY <2>3, <2>4, <3>1, <3>2
    <2>5. CASE Quiet
      <3>1. c \in 1..Len(blocks) /\ blocks'[c].refs = blocks[c].refs /\ c # NoBlock
        BY <2>2, <2>5 DEF Quiet, NoBlock
      <3>2. Users(c)' \subseteq Users(c)
        BY <2>5, <3>1 DEF Quiet, Users
      <3> QED BY <2>4, <3>1, <3>2
    <2>6. ASSUME NEW f \in DOMAIN handles, NEW b, PointsTo(f, b)
          PROVE  /\ c # b => Users(c)' \subseteq Users(c)
                 /\ Users(b)' \subseteq Users(b) \cup {handles[f].ino}
      BY <2>6 DEF PointsTo, Users
    <2>7. ASSUME NEW f \in DOMAIN handles, NEW b \in 1..Len(blocks), Recounted(f, b), PointsTo(f, b)
          PROVE  blocks'[c].refs >= Cardinality(Users(c)')
      <3>1. c \in 1..Len(blocks) /\ (c # b => blocks'[c] = blocks[c])
        BY <2>7 DEF Recounted
      <3>2. CASE c # b
        BY <2>4, <2>6, <2>7, <3>1, <3>2
      <3>3. CASE c = b
        <4>1. blocks'[c].refs = blocks[c].refs + 1
          BY <2>7, <3>3 DEF Recounted
        <4>2. Users(c)' \subseteq Users(c) \cup {handles[f].ino}
          BY <2>6, <2>7, <3>3
        <4>3. /\ Cardinality(Users(c)') \in Nat /\ Cardinality(Users(c)) \in Nat
              /\ Cardinality(Users(c)') <= Cardinality(Users(c)) + 1
          BY <4>2, UsersCount
        <4>4. blocks[c].refs >= Cardinality(Users(c)) /\ blocks[c].refs \in Nat
          BY <2>2, <2>3, <3>1
        <4> QED BY <4>1, <4>3, <4>4
      <3> QED BY <3>2, <3>3
    <2>8. ASSUME NEW f \in DOMAIN handles, Added(f), PointsTo(f, Len(blocks) + 1)
          PROVE  blocks'[c].refs >= Cardinality(Users(c)')
      <3>1. Len(blocks') = Len(blocks) + 1 /\ \A b \in 1..Len(blocks) : blocks'[b] = blocks[b]
        BY <2>8 DEF Added
      <3>2. CASE c \in 1..Len(blocks)
        <4>1. c # Len(blocks) + 1
          BY <2>2, <3>2
        <4> QED BY <2>4, <2>6, <2>8, <3>1, <3>2, <4>1
      <3>3. CASE c = Len(blocks) + 1
        <4>1. blocks'[c].refs = 1
          BY <2>8, <3>3 DEF Added
        <4>2. Users(c) = {}
          <5>1. \A i \in DOMAIN inodes : inodes[i].rid \in 0..Len(blocks)
            BY <2>1, InodesAre
          <5>2. c \notin 0..Len(blocks)
            BY <2>2, <3>3
          <5> QED BY <5>1, <5>2 DEF Users
        <4>3. Users(c)' \subseteq Users(c) \cup {handles[f].ino}
          BY <2>6, <2>8, <3>3
        <4>4. Cardinality(Users(c)') \in Nat /\ Cardinality(Users(c)') <= Cardinality(Users(c)) + 1
          BY <4>3, UsersCount
        <4>5. Cardinality(Users(c)) = 0
          BY <4>2, FS_EmptySet
        <4> QED BY <4>1, <4>4, <4>5
      <3> QED BY <2>2, <3>1, <3>2, <3>3
    <2> QED BY <2>5, <2>7, <2>8, StepKinds DEF ReleaseKind
  <1> QED BY <1>1, <1>2, IInvAlways, PTL DEF Spec

-----------------------------------------------------------------------------
(* What is closed is read back.                                             *)

\* Every handle is one of the file that has its inode number now.
HandlesLive ==
    \A f \in DOMAIN handles : handles[f].ino \in DOMAIN inodes /\ created[handles[f].ino] = handles[f].born

\* A file that nobody has changed since a flush has in its manifest what was closed.
ClosedIsManifest ==
    \A i \in DOMAIN inodes : closed[i].known /\ closed[i].stored =>
        /\ inodes[i].size = Len(closed[i].data)
        /\ IF inodes[i].rid = NoBlock THEN closed[i].data = <<>>
           ELSE blocks[inodes[i].rid].content = closed[i].data

\* A file's entries in the table, the inodes and the history are as they were.
Untouched(i) == i \in DOMAIN inodes /\ inodes'[i] = inodes[i] /\ closed'[i] = closed[i]

\* Then its manifest still has what was closed.
LEMMA UntouchedStays ==
    ASSUME IInv, Extends, ClosedIsManifest, NEW i, Untouched(i), closed'[i].known, closed'[i].stored
    PROVE  /\ inodes'[i].size = Len(closed'[i].data)
           /\ IF inodes'[i].rid = NoBlock THEN closed'[i].data = <<>>
              ELSE blocks'[inodes'[i].rid].content = closed'[i].data
  <1>1. i \in DOMAIN inodes /\ inodes'[i] = inodes[i] /\ closed'[i] = closed[i]
    BY DEF Untouched
  <1>2. inodes[i].rid \in 0..Len(blocks) /\ Len(blocks) \in Nat
    BY <1>1, InodesAre DEF IInv, Extends
  <1>3. inodes[i].rid # NoBlock => inodes[i].rid \in 1..Len(blocks)
    BY <1>2 DEF NoBlock
  <1> QED BY <1>1, <1>3 DEF ClosedIsManifest, Extends

\* If applications do not unlink files that are open, every step keeps this.
LEMMA NextLive ==
    ASSUME ~UnlinkWhileOpen, IInv, IInv', HandlesLive, ClosedIsManifest, [Next]_vars
    PROVE  HandlesLive' /\ ClosedIsManifest'
  <1>1. StoreOK /\ FilesOK /\ HandlesOK /\ HistoryOK
    BY DEF IInv
  <1>2. ASSUME Extends, \A i \in DOMAIN inodes' : closed'[i].known /\ closed'[i].stored => Untouched(i)
        PROVE  ClosedIsManifest'
    BY <1>2, UntouchedStays DEF ClosedIsManifest
  <1>3. ASSUME blocks' = blocks
        PROVE  Extends
    BY <1>1, <1>3, RowsAre DEF Extends
  <1>4. ASSUME NEW i \in Inos, Create(i)
        PROVE  HandlesLive' /\ ClosedIsManifest'
    <2>1. i \notin DOMAIN inodes
      BY <1>1, <1>4, NextInoFresh DEF Create, FilesOK
    <2>2. /\ blocks' = blocks /\ creates' = creates + 1 /\ creates < MaxCreates /\ AddHandle(i, creates')
          /\ inodes' = [j \in DOMAIN inodes \cup {i} |->
                          IF j = i THEN [size |-> 0, rid |-> NoBlock, len |-> 0] ELSE inodes[j]]
          /\ created' = [j \in DOMAIN inodes \cup {i} |-> IF j = i THEN creates' ELSE created[j]]
          /\ closed' = [j \in DOMAIN inodes \cup {i} |-> IF j = i THEN Closed(<<>>, TRUE) ELSE closed[j]]
      BY <1>4 DEF Create
    <2>3. creates' \in 1..MaxCreates
      BY <1>1, <2>2, FileDataAssumption DEF HistoryOK
    <2>4. /\ DOMAIN handles' = DOMAIN handles \cup {nextFh}
          /\ handles'[nextFh].ino = i /\ handles'[nextFh].born = creates'
          /\ \A f \in DOMAIN handles : f # nextFh => handles'[f] = handles[f]
      BY <1>1, <2>2, <2>3, HandleAdded
    <2>5. HandlesLive'
      BY <2>1, <2>2, <2>4 DEF HandlesLive
    <2>6. Extends
      BY <1>3, <2>2
    <2>7. ClosedIsManifest'
      <3> SUFFICES ASSUME NEW j \in DOMAIN inodes', closed'[j].known, closed'[j].stored
                   PROVE  /\ inodes'[j].size = Len(closed'[j].data)
                          /\ IF inodes'[j].rid = NoBlock THEN closed'[j].data = <<>>
                             ELSE blocks'[inodes'[j].rid].content = closed'[j].data
        BY DEF ClosedIsManifest
      <3>1. CASE j = i
        <4>1. closed'[i] = Closed(<<>>, TRUE) /\ inodes'[i] = [size |-> 0, rid |-> NoBlock, len |-> 0]
          BY <2>2
        <4>2. closed'[i].data = <<>> /\ Len(<<>>) = 0
          BY <4>1, CloseIs, ContentsAre
        <4>3. inodes'[i].size = 0 /\ inodes'[i].rid = NoBlock
          BY <4>1
        <4>4. inodes'[i].size = Len(closed'[i].data)
          BY <4>2, <4>3
        <4> QED BY <3>1, <4>2, <4>3, <4>4, Zenon
      <3>2. CASE j # i
        <4>1. Untouched(j)
          BY <2>2, <3>2 DEF Untouched
        <4> QED BY <2>6, <4>1, UntouchedStays
      <3> QED BY <3>1, <3>2
    <2> QED BY <2>5, <2>7
  <1>5. ASSUME NEW i \in Inos, Open(i)
        PROVE  HandlesLive' /\ ClosedIsManifest'
    <2>1. /\ i \in DOMAIN inodes /\ AddHandle(i, created[i]) /\ created[i] \in 1..MaxCreates
          /\ inodes' = inodes /\ blocks' = blocks /\ created' = created /\ closed' = closed
      BY <1>1, <1>5 DEF Open, HistoryOK
    <2>2. /\ DOMAIN handles' = DOMAIN handles \cup {nextFh}
          /\ handles'[nextFh].ino = i /\ handles'[nextFh].born = created[i]
          /\ \A f \in DOMAIN handles : f # nextFh => handles'[f] = handles[f]
      BY <1>1, <2>1, HandleAdded
    <2>3. HandlesLive'
      BY <2>1, <2>2 DEF HandlesLive
    <2> QED BY <1>2, <1>3, <2>1, <2>3 DEF Untouched
  <1>6. ASSUME NEW i \in Inos, Unlink(i)
        PROVE  HandlesLive' /\ ClosedIsManifest'
    <2>1. /\ \A f \in DOMAIN handles : handles[f].ino # i
          /\ blocks' = blocks /\ handles' = handles
          /\ inodes' = [j \in DOMAIN inodes \ {i} |-> inodes[j]]
          /\ created' = [j \in DOMAIN inodes \ {i} |-> created[j]]
          /\ closed' = [j \in DOMAIN inodes \ {i} |-> closed[j]]
      BY <1>6 DEF Unlink
    <2>2. HandlesLive'
      BY <2>1 DEF HandlesLive
    <2>3. \A j \in DOMAIN inodes' : Untouched(j)
      BY <2>1 DEF Untouched
    <2> QED BY <1>2, <1>3, <2>1, <2>2, <2>3
  <1>7. ASSUME NEW i \in Inos, NEW n \in 0..MaxLen, SetSize(i, n)
        PROVE  HandlesLive' /\ ClosedIsManifest'
    <2>1. /\ i \in DOMAIN inodes /\ inodes' = [inodes EXCEPT ![i].size = n]
          /\ closed' = [closed EXCEPT ![i] = Changed]
          /\ blocks' = blocks /\ handles' = handles /\ created' = created
      BY <1>7 DEF SetSize
    <2>2. DOMAIN inodes' = DOMAIN inodes /\ \A j \in DOMAIN inodes : j # i => inodes'[j] = inodes[j]
      BY <1>1, <1>3, <2>1, FilesSized
    <2>3. \A j \in DOMAIN inodes' : closed'[j].known => Untouched(j)
      BY <1>1, <2>1, <2>2, CloseIs DEF Untouched, HistoryOK
    <2>4. HandlesLive'
      BY <2>1, <2>2 DEF HandlesLive
    <2> QED BY <1>2, <1>3, <2>1, <2>3, <2>4
  <1>8. ASSUME NEW f \in DOMAIN handles, NEW off \in 0..(MaxLen - 1), NEW b \in Bytes, Write(f, off, <<b>>)
        PROVE  HandlesLive' /\ ClosedIsManifest'
    <2>1. /\ DOMAIN handles' = DOMAIN handles /\ DOMAIN inodes' = DOMAIN inodes
          /\ \A g \in DOMAIN handles : handles'[g].ino = handles[g].ino /\ handles'[g].born = handles[g].born
          /\ \A j \in DOMAIN inodes : j # handles[f].ino => inodes'[j] = inodes[j]
      BY <1>8, WritePreserves
    <2>2. /\ closed' = [j \in DOMAIN inodes |->
                          IF j = handles[f].ino /\ handles[f].born = created[handles[f].ino] THEN Changed ELSE closed[j]]
          /\ blocks' = blocks /\ created' = created
      BY <1>8 DEF Write
    <2>3. HandlesLive'
      BY <2>1, <2>2 DEF HandlesLive
    <2>4. handles[f].born = created[handles[f].ino]
      BY DEF HandlesLive
    <2>5. \A j \in DOMAIN inodes' : closed'[j].known => Untouched(j)
      BY <2>1, <2>2, <2>4, CloseIs DEF Untouched
    <2> QED BY <1>2, <1>3, <2>2, <2>3, <2>5
  <1>9. ASSUME NEW f \in DOMAIN handles, Release(f)
        PROVE  HandlesLive' /\ ClosedIsManifest'
    <2> DEFINE i == handles[f].ino
    <2>1. /\ ReleaseKind(f) /\ created' = created /\ handles' = [g \in DOMAIN handles \ {f} |-> handles[g]]
      BY <1>9, ReleasePreserves
    <2>2. i \in DOMAIN inodes /\ created[i] = handles[f].born /\ handles[f].buf \in Contents
      BY <1>1, HandlesAre DEF HandlesLive
    <2>3. ASSUME DOMAIN inodes' = DOMAIN inodes
          PROVE  HandlesLive'
      BY <2>1, <2>3 DEF HandlesLive
    <2>4. ASSUME NEW st \in BOOLEAN, RecordClose(f, st)
          PROVE  /\ closed'[i] = Closed(handles[f].buf, st)
                 /\ \A j \in DOMAIN inodes : j # i => closed'[j] = closed[j]
      BY <2>2, <2>4 DEF RecordClose
    <2>5. ASSUME inodes' = inodes, RecordClose(f, FALSE) \/ closed' = closed, Extends
          PROVE  HandlesLive' /\ ClosedIsManifest'
      <3>1. \A j \in DOMAIN inodes' : closed'[j].known /\ closed'[j].stored => Untouched(j)
        <4>1. CASE closed' = closed
          BY <2>5, <4>1 DEF Untouched
        <4>2. CASE RecordClose(f, FALSE)
          <5>1. closed'[i].stored = FALSE /\ \A j \in DOMAIN inodes : j # i => closed'[j] = closed[j]
            BY <2>2, <2>4, <4>2, CloseIs
          <5> QED BY <2>5, <5>1 DEF Untouched
        <4> QED BY <2>5, <4>1, <4>2
      <3> QED BY <1>2, <2>3, <2>5, <3>1
    <2>6. ASSUME NEW b, b \in 1..Len(blocks'), PointsTo(f, b), Extends, blocks'[b].content = handles[f].buf
          PROVE  HandlesLive' /\ ClosedIsManifest'
      <3>1. /\ DOMAIN inodes' = DOMAIN inodes
            /\ \A j \in DOMAIN inodes : j # i => inodes'[j] = inodes[j]
        BY <2>6 DEF PointsTo
      <3>2. CASE inodes' = inodes /\ RecordClose(f, FALSE)
        BY <2>5, <2>6, <3>2
      <3>3. CASE /\ RecordClose(f, TRUE) /\ inodes'[i].rid = b
                 /\ inodes'[i].size = Len(handles[f].buf)
        <4>1. closed'[i] = Closed(handles[f].buf, TRUE) /\ \A j \in DOMAIN inodes : j # i => closed'[j] = closed[j]
          BY <2>4, <3>3
        <4>2. closed'[i].data = handles[f].buf
          BY <2>2, <4>1, CloseIs
        <4>3. b # NoBlock
          BY <2>6 DEF Extends, NoBlock
        <4>4. ASSUME NEW j \in DOMAIN inodes', closed'[j].known, closed'[j].stored
              PROVE  /\ inodes'[j].size = Len(closed'[j].data)
                     /\ IF inodes'[j].rid = NoBlock THEN closed'[j].data = <<>>
                        ELSE blocks'[inodes'[j].rid].content = closed'[j].data
          <5>1. CASE j = i
            BY <2>6, <3>3, <4>2, <4>3, <5>1
          <5>2. CASE j # i
            <6>1. Untouched(j)
              BY <3>1, <4>1, <5>2 DEF Untouched
            <6> QED BY <2>6, <4>4, <6>1, UntouchedStays
          <5> QED BY <5>1, <5>2
        <4>5. ClosedIsManifest'
          BY <4>4 DEF ClosedIsManifest
        <4> QED BY <2>3, <3>1, <4>5
      <3> QED BY <2>6, <3>2, <3>3 DEF PointsTo
    <2>7. CASE Quiet /\ Dropped(f)
      BY <1>3, <2>5, <2>7 DEF Dropped
    <2>8. ASSUME NEW b \in 1..Len(blocks), Recounted(f, b), PointsTo(f, b)
          PROVE  HandlesLive' /\ ClosedIsManifest'
      BY <2>6, <2>8 DEF Recounted, Extends
    <2>9. CASE Added(f) /\ PointsTo(f, Len(blocks) + 1)
      <3>1. Len(blocks) + 1 \in 1..Len(blocks')
        BY <2>9 DEF Added, Extends
      <3> QED BY <2>6, <2>9, <3>1 DEF Added
    <2> QED BY <2>1, <2>7, <2>8, <2>9 DEF ReleaseKind
  <1>10. CASE \/ \E f \in DOMAIN handles : \E off \in 0..(MaxLen - 1), len \in 1..MaxLen : Read(f, off, len)
              \/ \E b \in cache : Evict(b)
              \/ Remount
              \/ UNCHANGED vars
    <2>1. /\ Quiet /\ inodes' = inodes /\ created' = created /\ closed' = closed
          /\ handles' = handles \/ handles' = <<>>
      BY <1>10, OthersPreserve
    <2>2. HandlesLive'
      BY <2>1 DEF HandlesLive
    <2> QED BY <1>2, <1>3, <2>1, <2>2 DEF Untouched, Quiet
  <1> QED BY <1>4, <1>5, <1>6, <1>7, <1>8, <1>9, <1>10 DEF Next

\* A read of a block that holds the file: the part of its data that was asked for.
LEMMA ReadsTheBlock ==
    ASSUME NEW data \in Contents, NEW inode \in [size: Nat, rid: Nat, len: Nat],
           inode.size = Len(data), inode.len = Len(data),
           NEW off \in Nat, NEW len \in Nat, len >= 1, off < Len(data)
    PROVE  ReadFromBlock(inode, data, off, len) = SubSeq(data, off + 1, Smaller(off + len, Len(data)))
  <1> DEFINE n == Len(data)
             stop == Smaller(off + len, n)
  <1>1. data \in Seq(Bytes \cup {0}) /\ n \in Nat /\ MaxLen \in Nat
    BY ContentsAre, FileDataAssumption
  <1>2. DOMAIN data = 1..n
    BY <1>1
  <1> HIDE DEF n
  <1>3. stop \in Nat /\ off + 1 <= stop /\ stop <= n /\ Smaller(len, n - off) = stop - off
    BY <1>1 DEF Smaller, n
  <1>4. ReadFromBlock(inode, data, off, len) = [i \in 1..(stop - off) |-> data[off + i]]
    <2>1. ReadFromBlock(inode, data, off, len) =
            [i \in 1..Smaller(len, IF n > off THEN n - off ELSE 0) |->
               IF off + i <= stop /\ stop <= n THEN data[off + i] ELSE 0]
      BY DEF ReadFromBlock, n
    <2>2. (IF n > off THEN n - off ELSE 0) = n - off
      BY <1>1 DEF n
    <2> HIDE DEF stop
    <2>3. \A i \in 1..(stop - off) : off + i <= stop /\ stop <= n
      BY <1>3
    <2> QED BY <1>3, <2>1, <2>2, <2>3
  <1> HIDE DEF stop
  <1>5. \A i \in (off + 1)..stop : data[i] \in Bytes \cup {0}
    BY <1>1, <1>2, <1>3
  <1> DEFINE t == SubSeq(data, off + 1, stop)
  <1>6. /\ t \in Seq(Bytes \cup {0})
        /\ Len(t) = IF off + 1 <= stop THEN stop - (off + 1) + 1 ELSE 0
        /\ \A i \in 1..(stop - (off + 1) + 1) : t[i] = data[(off + 1) + i - 1]
    <2>1. off + 1 \in Int /\ stop \in Int
      BY <1>3
    <2> QED BY <1>5, <2>1, SubSeqProperties
  <1> HIDE DEF t
  <1>7. Len(t) = stop - off /\ \A i \in 1..(stop - off) : t[i] = data[off + i]
    <2>1. stop - (off + 1) + 1 = stop - off
      BY <1>3
    <2>2. \A i \in 1..(stop - off) : (off + 1) + i - 1 = off + i
      BY <1>3
    <2> QED BY <1>3, <1>6, <2>1, <2>2
  <1>8. t = [i \in 1..(stop - off) |-> data[off + i]]
    <2>1. DOMAIN t = 1..(stop - off) /\ t = [i \in DOMAIN t |-> t[i]]
      BY <1>6, <1>7, LenProperties
    <2> QED BY <1>7, <2>1
  <1> QED BY <1>4, <1>8 DEF t, stop, n

\* A part of a sequence that begins after its end is empty.
LEMMA PastTheEnd ==
    ASSUME NEW data \in Contents, NEW off \in Nat, NEW len \in Nat, Len(data) <= off
    PROVE  SubSeq(data, off + 1, Smaller(off + len, Len(data))) = <<>>
  <1> DEFINE stop == Smaller(off + len, Len(data))
  <1>1. data \in Seq(Bytes \cup {0}) /\ Len(data) \in Nat
    BY ContentsAre, FileDataAssumption
  <1>2. stop \in Nat /\ stop < off + 1
    BY <1>1 DEF Smaller
  <1> HIDE DEF stop
  <1>3. SubSeq(data, off + 1, stop) = <<>>
    <2>1. off + 1 \in Int /\ stop \in Int /\ \A i \in (off + 1)..stop : data[i] \in Bytes \cup {0}
      BY <1>2
    <2> DEFINE t == SubSeq(data, off + 1, stop)
    <2>2. t \in Seq(Bytes \cup {0}) /\ Len(t) = IF off + 1 <= stop THEN stop - (off + 1) + 1 ELSE 0
      BY <2>1, SubSeqProperties
    <2> HIDE DEF t
    <2>3. Len(t) = 0
      BY <1>2, <2>2
    <2>4. t = <<>>
      BY <2>2, <2>3, EmptySeq
    <2> QED BY <2>4 DEF t
  <1> QED BY <1>3 DEF stop

\* What was closed and flushed is what every later read replies.
LEMMA LiveReadsBack ==
    ASSUME IInv, ClosedIsManifest
    PROVE  ReadBack
  <1> SUFFICES ASSUME NEW i \in DOMAIN inodes, closed[i].known, closed[i].stored,
                      NEW off \in 0..(MaxLen - 1), NEW len \in 1..MaxLen
               PROVE  /\ Expected(i, off, len) \in ReadReplies(i, off, len)
                      /\ ReadReplies(i, off, len) \subseteq {Expected(i, off, len)} \cup EmptyReplies(i)
    BY DEF ReadBack
  <1> DEFINE data == closed[i].data
             b == inodes[i].rid
  <1>1. StoreOK /\ FilesOK /\ HandlesOK /\ HistoryOK
    BY DEF IInv
  <1>2. data \in Contents
    BY <1>1 DEF HistoryOK, LastClose
  <1>3. off \in Nat /\ len \in Nat /\ len >= 1 /\ Len(data) \in Nat
    BY <1>2, ContentsAre, FileDataAssumption
  <1>4. inodes[i].size = Len(data) /\ (b = NoBlock => data = <<>>) /\ (b # NoBlock => blocks[b].content = data)
    BY DEF ClosedIsManifest
  <1>5. Expected(i, off, len) = SubSeq(data, off + 1, Smaller(off + len, Len(data)))
    BY DEF Expected
  <1>6. CASE b = NoBlock
    <2>1. ReadReplies(i, off, len) = {<<>>}
      BY <1>6 DEF ReadReplies, BlockNeeded
    <2>2. Len(data) <= off
      BY <1>3, <1>4, <1>6, ContentsAre
    <2>3. Expected(i, off, len) = <<>>
      BY <1>2, <1>3, <1>5, <2>2, PastTheEnd
    <2> QED BY <2>1, <2>3
  <1>7. CASE b # NoBlock
    <2>1. b \in 1..Len(blocks) /\ inodes[i].len = Len(data) /\ HasTransport /\ messages[blocks[b].msg] = data
      <3>1. b \in 0..Len(blocks) /\ Len(blocks) \in Nat
        BY <1>1, InodesAre, RowsAre
      <3>2. b \in 1..Len(blocks)
        BY <1>7, <3>1 DEF NoBlock
      <3> QED BY <1>1, <1>4, <1>7, <3>2 DEF FilesOK, LengthsRight, NeedsTransport, StoreOK, BlocksStored
    <2>2. CASE Len(data) <= off
      <3>1. ~BlockNeeded(inodes[i], off, len)
        BY <1>3, <2>1, <2>2 DEF BlockNeeded
      <3>2. ReadReplies(i, off, len) = {<<>>}
        BY <3>1 DEF ReadReplies
      <3>3. Expected(i, off, len) = <<>>
        BY <1>2, <1>3, <1>5, <2>2, PastTheEnd
      <3> QED BY <3>2, <3>3
    <2>3. CASE off < Len(data)
      <3>1. inodes[i] \in [size: Nat, rid: Nat, len: Nat]
        <4>1. inodes[i] \in Inode /\ Len(blocks) \in Nat /\ MaxLen \in Nat
          BY <1>1, InodesAre, RowsAre, FileDataAssumption
        <4>2. 0..MaxLen \subseteq Nat /\ 0..Len(blocks) \subseteq Nat
          BY <4>1
        <4> QED BY <4>1, <4>2 DEF Inode
      <3>2. ReadFromBlock(inodes[i], data, off, len) = Expected(i, off, len)
        <4> DEFINE inode == inodes[i]
        <4>1. /\ inode \in [size: Nat, rid: Nat, len: Nat] /\ inode.size = Len(data) /\ inode.len = Len(data)
              /\ data \in Contents /\ off \in Nat /\ len \in Nat /\ len >= 1 /\ off < Len(data)
          BY <1>2, <1>3, <1>4, <2>1, <2>3, <3>1
        <4> HIDE DEF inode, data
        <4>2. ReadFromBlock(inode, data, off, len) = SubSeq(data, off + 1, Smaller(off + len, Len(data)))
          BY <4>1, ReadsTheBlock
        <4> QED BY <1>5, <4>2 DEF inode
      <3>3. BlockNeeded(inodes[i], off, len)
        <4>1. 0 < off + len /\ Len(data) > off
          BY <1>3, <2>3
        <4> QED BY <1>7, <2>1, <4>1 DEF BlockNeeded
      <3>4. ReadReplies(i, off, len) =
              {Expected(i, off, len)} \cup (IF b \notin cache /\ "download" \in MayFail THEN {<<>>} ELSE {})
        <4> DEFINE fetched == ReadFromBlock(inodes[i], messages[blocks[b].msg], off, len)
        <4>1. fetched = Expected(i, off, len)
          BY <2>1, <3>2
        <4>2. ReadReplies(i, off, len) =
                (IF b \in cache \/ HasTransport THEN {fetched} ELSE {}) \cup
                (IF b \notin cache /\ (~HasTransport \/ "download" \in MayFail) THEN {<<>>} ELSE {})
          BY <3>3 DEF ReadReplies
        <4> HIDE DEF fetched
        <4> QED BY <2>1, <4>1, <4>2
      <3> QED BY <3>4 DEF EmptyReplies
    <2> QED BY <1>3, <2>2, <2>3
  <1> QED BY <1>6, <1>7

\* If applications do not unlink files that are open, a read replies what was
\* closed and flushed, for any number of files and handles and whatever fails,
\* except that a block that is not cached and fails to download reads as nothing.
\* (An unlinked file's open handle flushes into the file that has its inode number
\* next: FileDataReuse shows it.)
THEOREM ClosedReadsBack ==
    ASSUME ~UnlinkWhileOpen
    PROVE  Spec => []ReadBack
  <1> DEFINE Live == HandlesLive /\ ClosedIsManifest
  <1>1. Init => Live
    BY DEF Init, HandlesLive, ClosedIsManifest
  <1>2. IInv /\ IInv' /\ Live /\ [Next]_vars => Live'
    BY NextLive
  <1>3. IInv /\ Live => ReadBack
    BY LiveReadsBack
  <1> HIDE DEF Live
  <1> QED BY <1>1, <1>2, <1>3, IInvAlways, PTL DEF Spec
=============================================================================
