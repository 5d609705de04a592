--------------------------- MODULE VolumesProofs ---------------------------
(***************************************************************************)
(* Theorems about Volumes, for any number of requests, commands, mounts    *)
(* and blocks.                                                             *)
(***************************************************************************)
EXTENDS Volumes, TLAPS

-----------------------------------------------------------------------------
(* The inductive invariant, in parts.                                       *)

\* A process holds a file that has been created, and a rotation is a command
\* that has read an epoch with a next one.
WithinBounds ==
    \A p \in Procs : proc[p].file <= files /\ (Rotates(p) => p \in Clis /\ proc[p].epoch < MaxEpoch)

\* An open looked for a session when there was none: the session that is there
\* now is younger than what it saw.
OpensLookedBefore ==
    \A p \in Procs : proc[p].at \in Opening =>
        /\ proc[p].seen <= opens
        /\ session # NoSession => proc[p].seen < session.id

\* An open that no delete has overlapped: no delete is under way, and what it
\* has found is still there.
OpensUndisturbed ==
    \A p \in Procs : proc[p].clean =>
        /\ proc[p].at \in Opening
        /\ \A q \in Procs : ~Deletes(q)
        /\ proc[p].at \in {"db", "insert"} => config.state # Missing
        /\ proc[p].at = "insert" => db = [state |-> "ok", file |-> proc[p].file]

\* No delete is under way while there is an undisturbed session.
SessionUndisturbed ==
    session # NoSession /\ undisturbed => \A q \in Procs : ~Deletes(q)

\* The directory of a deleted volume is gone unless a mount has made it again, and
\* its configuration is, and no rotation under way, unless one ran into a delete.
DeletedIsGone ==
    /\ remade => deleted
    /\ deleted =>
         /\ remade \/ ~dir
         /\ overlapped \/ (config.state # "ok" /\ \A p \in Procs : ~Rotates(p))

\* Nobody has written the configuration: the directory has not been made, or
\* its creator has not come to it.
Fresh == (~dir /\ ~deleted) \/ \E t \in Procs : At(t, "create")

\* Until then there is nothing to open, to mount, to rotate or to shred.
FreshIsEmpty ==
    /\ \A t \in Procs : At(t, "create") => (dir \/ deleted) /\ ~remade
    /\ \A t, u \in Procs : At(t, "create") /\ At(u, "create") => t = u
    /\ Fresh => /\ config.state = Missing /\ db.state = Missing
                /\ \A p \in Procs :
                     /\ proc[p].at \in {"idle", "create", "config", "list", "shred", "rmdir"}
                     /\ At(p, "shred") => proc[p].todo = {}

\* A rotation that overlaps nothing is alone, and works on the configuration it
\* has read and on the database in the directory.
RotationAlone ==
    ~overlapped =>
        \A c \in Procs : Rotates(c) =>
            /\ \A p \in Procs : p # c => ~Rotates(p) /\ ~Deletes(p)
            /\ config.epoch = proc[c].epoch
            /\ config.state = IF At(c, "write") THEN Garbled ELSE "ok"
            /\ At(c, "rotate db") \/ Attached(c)

\* The rows that a rotation which overlaps nothing has not listed, or has done,
\* are at the next epoch.
RotationDone ==
    ~overlapped =>
        \A c \in Procs : proc[c].at \in {"update", "write"} =>
            \A b \in DOMAIN rows \ late :
                rows[b] = proc[c].epoch + 1 \/ (At(c, "update") /\ b \in proc[c].todo)

IInv ==
    /\ TypeOK
    /\ WithinBounds
    /\ DeletedIsGone
    /\ OpensLookedBefore
    /\ OpensUndisturbed
    /\ SessionUndisturbed
    /\ SessionBacked
    /\ FreshIsEmpty
    /\ RotationAlone
    /\ RotationDone
    /\ RotationKeepsTrack

-----------------------------------------------------------------------------
(* What the parts of the steps do to the processes.                         *)

\* Everything but the process p is as before.
Others(p) == \A q \in Procs \ {p} : proc'[q] = proc[q]

\* An idle process is a process that has nothing.
LEMMA IdleType ==
    /\ Idle \in Process /\ Idle.at = "idle" /\ Idle.clean = FALSE /\ Idle.todo = {}
    /\ Idle.seen = 0 /\ Idle.file = 0 /\ Idle.epoch = 0
  BY VolumesAssumption DEF Idle, Process, Points, Epochs

\* The table without rows is a table.
LEMMA NoRowsType == DOMAIN NoRows = {} /\ DOMAIN NoRows \subseteq Blocks /\ NoRows \in [DOMAIN NoRows -> Epochs]
  BY DEF NoRows

\* The numbers in a state are natural numbers.
LEMMA Bounds ==
    ASSUME TypeOK
    PROVE  /\ files \in Nat /\ opens \in Nat /\ MaxFiles \in Nat /\ MaxOpens \in Nat /\ MaxEpoch \in Nat
           /\ config.epoch \in Nat /\ db.file \in Nat
           /\ \A p \in Procs : proc[p].file \in Nat /\ proc[p].epoch \in Nat /\ proc[p].seen \in Nat
           /\ db.file <= files
  BY VolumesAssumption DEF TypeOK, Process, Epochs

\* What refers to the files there are refers to them when there is one more.
LEMMA OneMoreFile ==
    ASSUME TypeOK
    PROVE  /\ session \in [id: 0..opens, file: 0..(files + 1)]
           /\ db \in [state: FileStates, file: 0..(files + 1)]
           /\ \A state \in FileStates :
                [state |-> state, file |-> files + 1] \in [state: FileStates, file: 0..(files + 1)]
  <1>1. files \in Nat /\ session.file \in 0..files /\ db.file \in 0..files
    BY Bounds DEF TypeOK
  <1>2. session.file \in 0..(files + 1) /\ db.file \in 0..(files + 1) /\ files + 1 \in 0..(files + 1)
    BY <1>1
  <1> QED BY <1>2 DEF TypeOK

\* A request or a command ends.
LEMMA DoneProc ==
    ASSUME TypeOK, NEW p \in Procs, Done(p)
    PROVE  proc' \in [Procs -> Process] /\ proc'[p] = Idle /\ Others(p)
  BY IdleType DEF TypeOK, Done, Others

\* A process takes another field or two.
LEMMA GotoProc ==
    ASSUME TypeOK, NEW p \in Procs, NEW point \in Points, Goto(p, point)
    PROVE  /\ proc' \in [Procs -> Process] /\ Others(p)
           /\ proc'[p].at = point /\ proc'[p].seen = proc[p].seen /\ proc'[p].file = proc[p].file
           /\ proc'[p].epoch = proc[p].epoch /\ proc'[p].todo = proc[p].todo
           /\ proc'[p].clean = proc[p].clean
  <1> DEFINE x == [proc[p] EXCEPT !.at = point]
  <1>1. proc[p] \in Process
    BY DEF TypeOK
  <1>2. /\ x \in Process /\ x.at = point /\ x.seen = proc[p].seen /\ x.file = proc[p].file
        /\ x.epoch = proc[p].epoch /\ x.todo = proc[p].todo /\ x.clean = proc[p].clean
    BY <1>1 DEF Process
  <1>3. proc' = [proc EXCEPT ![p] = x]
    BY DEF Goto
  <1> HIDE DEF x
  <1> QED BY <1>2, <1>3 DEF TypeOK, Others

\* The process p goes on at point with todo and file, and is the same otherwise.
Continues(p, point, todo, file) ==
    /\ proc' \in [Procs -> Process] /\ Others(p)
    /\ proc'[p].at = point /\ proc'[p].todo = todo /\ proc'[p].file = file
    /\ proc'[p].seen = proc[p].seen /\ proc'[p].epoch = proc[p].epoch
    /\ proc'[p].clean = proc[p].clean

WithTodo(p, point, todo) == proc' = [proc EXCEPT ![p].at = point, ![p].todo = todo]
WithFile(p, point, file) == proc' = [proc EXCEPT ![p].at = point, ![p].file = file]

\* A process goes on with another list of things to do.
LEMMA TodoProc ==
    ASSUME TypeOK, NEW p \in Procs, NEW point \in Points,
           NEW todo \in SUBSET ({"config", "db"} \cup Blocks), WithTodo(p, point, todo)
    PROVE  Continues(p, point, todo, proc[p].file)
  <1> DEFINE x == [proc[p] EXCEPT !.at = point, !.todo = todo]
  <1>1. proc[p] \in Process
    BY DEF TypeOK
  <1>2. /\ x \in Process /\ x.at = point /\ x.seen = proc[p].seen /\ x.file = proc[p].file
        /\ x.epoch = proc[p].epoch /\ x.todo = todo /\ x.clean = proc[p].clean
    BY <1>1 DEF Process
  <1>3. proc' = [proc EXCEPT ![p] = x]
    BY DEF TypeOK, WithTodo
  <1> HIDE DEF x
  <1> QED BY <1>2, <1>3 DEF TypeOK, Others, Continues

\* A process goes on with a database file.
LEMMA FileProc ==
    ASSUME TypeOK, NEW p \in Procs, NEW point \in Points, NEW file \in 0..MaxFiles,
           WithFile(p, point, file)
    PROVE  Continues(p, point, proc[p].todo, file)
  <1> DEFINE x == [proc[p] EXCEPT !.at = point, !.file = file]
  <1>1. proc[p] \in Process
    BY DEF TypeOK
  <1>2. /\ x \in Process /\ x.at = point /\ x.seen = proc[p].seen /\ x.file = file
        /\ x.epoch = proc[p].epoch /\ x.todo = proc[p].todo /\ x.clean = proc[p].clean
    BY <1>1 DEF Process
  <1>3. proc' = [proc EXCEPT ![p] = x]
    BY DEF TypeOK, WithFile
  <1> HIDE DEF x
  <1> QED BY <1>2, <1>3 DEF TypeOK, Others, Continues

\* The bounds after a step of p.
LEMMA BoundsStep ==
    ASSUME TypeOK, WithinBounds, NEW p \in Procs, Others(p), files' \in Nat, files <= files',
           proc'[p].file \in Nat, proc'[p].file <= files', Rotates(p)' => p \in Clis /\ proc'[p].epoch < MaxEpoch
    PROVE  WithinBounds'
  <1> SUFFICES ASSUME NEW q \in Procs
               PROVE  proc'[q].file <= files' /\ (Rotates(q)' => q \in Clis /\ proc'[q].epoch < MaxEpoch)
    BY DEF WithinBounds
  <1>1. CASE q = p
    BY <1>1
  <1>2. CASE q # p
    BY <1>2, Bounds DEF Others, WithinBounds, Rotates
  <1> QED BY <1>1, <1>2

\* A process that has no file, or the one it had, and is not a rotation stays
\* within the bounds.
LEMMA StaysWithinBounds ==
    ASSUME TypeOK, WithinBounds, NEW p \in Procs, Others(p), files' = files,
           proc'[p].file \in {0, proc[p].file}, proc'[p].at \notin Rotating
    PROVE  WithinBounds'
  <1> SUFFICES ASSUME NEW q \in Procs
               PROVE  proc'[q].file <= files /\ (Rotates(q)' => q \in Clis /\ proc'[q].epoch < MaxEpoch)
    BY DEF WithinBounds
  <1>1. CASE q = p
    <2>1. files \in Nat /\ proc[p].file <= files
      BY Bounds DEF WithinBounds
    <2>2. ~Rotates(p)'
      BY DEF Rotates
    <2> QED BY <1>1, <2>1, <2>2
  <1>2. CASE q # p
    BY <1>2 DEF Others, WithinBounds, Rotates
  <1> QED BY <1>1, <1>2

\* The next step of a process does not matter to the invariant once the process
\* is idle: whatever it was doing, an error reply keeps the invariant.
LEMMA FailsInv ==
    ASSUME IInv, NEW p \in Procs, Fails(p)
    PROVE  IInv'
  <1>1. TypeOK /\ UNCHANGED <<disk, server, history>>
    BY DEF IInv, Fails
  <1>2. proc' \in [Procs -> Process] /\ proc'[p] = Idle /\ Others(p)
    BY <1>1, DoneProc DEF Fails
  <1>3. proc'[p].at = "idle" /\ ~proc'[p].clean /\ proc'[p].file = 0
    BY <1>2, IdleType
  <1> USE <1>1, <1>2, <1>3 DEF IInv, disk, server, history, Others
  <1>4. TypeOK'
    BY DEF TypeOK
  <1>5. WithinBounds'
    BY StaysWithinBounds DEF Rotating
  <1>6. OpensLookedBefore'
    BY DEF OpensLookedBefore, Opening
  <1>7. OpensUndisturbed' /\ SessionUndisturbed'
    BY DEF OpensUndisturbed, SessionUndisturbed, Deletes, Deleting
  <1>8. DeletedIsGone' /\ SessionBacked' /\ RotationKeepsTrack'
    BY DEF DeletedIsGone, SessionBacked, RotationKeepsTrack, Rotates, Rotating
  <1>9. FreshIsEmpty'
    BY DEF FreshIsEmpty, Fresh, At
  <1>10. RotationAlone'
    BY DEF RotationAlone, Rotates, Rotating, Deletes, Deleting, At, Attached
  <1>11. RotationDone'
    BY DEF RotationDone, At
  <1> QED BY <1>4, <1>5, <1>6, <1>7, <1>8, <1>9, <1>10, <1>11

-----------------------------------------------------------------------------
(* create, open and close keep the invariant.                               *)

\* The first step of create.
LEMMA CreateInv ==
    ASSUME IInv, NEW t \in Procs, Create(t)
    PROVE  IInv'
  <1>1. /\ TypeOK /\ ~dir /\ ~deleted /\ dir' = TRUE /\ At(t, "idle")
        /\ cache' = TRUE /\ UNCHANGED <<config, db, files, rows, server, history>>
    BY DEF IInv, Create
  <1>2. /\ proc' \in [Procs -> Process] /\ Others(t) /\ proc'[t].at = "create"
        /\ proc'[t].clean = proc[t].clean /\ proc'[t].file = proc[t].file
    BY <1>1, GotoProc DEF Create, Points
  <1> USE <1>1, <1>2 DEF IInv, server, history, Others, At
  <1>3. TypeOK'
    BY DEF TypeOK
  <1>4. WithinBounds'
    BY StaysWithinBounds DEF Rotating
  <1>5. DeletedIsGone'
    BY DEF DeletedIsGone, Rotates, Rotating
  <1>6. OpensLookedBefore'
    BY DEF OpensLookedBefore, Opening, NoSession
  <1>7. OpensUndisturbed'
    BY DEF OpensUndisturbed, Deletes, Deleting, Opening
  <1>8. SessionUndisturbed'
    BY DEF SessionUndisturbed, Deletes, Deleting
  <1>9. SessionBacked'
    BY DEF SessionBacked
  <1>10. FreshIsEmpty'
    BY DEF FreshIsEmpty, Fresh, At, DeletedIsGone
  <1>11. RotationAlone'
    BY DEF RotationAlone, Rotates, Rotating, Deletes, Deleting, At, Attached
  <1>12. RotationDone'
    BY DEF RotationDone, At
  <1>13. RotationKeepsTrack'
    BY DEF RotationKeepsTrack
  <1> QED BY <1>3, <1>4, <1>5, <1>6, <1>7, <1>8, <1>9, <1>10, <1>11, <1>12, <1>13 DEF IInv

\* The second step of create.
LEMMA CreateConfigInv ==
    ASSUME IInv, NEW t \in Procs, CreateConfig(t)
    PROVE  IInv'
  <1>0. CASE Fails(t)
    BY <1>0, FailsInv
  <1> SUFFICES ASSUME dir, config' = [state |-> "ok", epoch |-> 0], Done(t),
                      UNCHANGED <<dir, cache, db, files, rows, server, history>>
               PROVE  IInv'
    BY <1>0 DEF CreateConfig
  <1>1. TypeOK /\ At(t, "create") /\ 0 \in Epochs
    BY VolumesAssumption DEF IInv, CreateConfig, Epochs
  <1>2. proc' \in [Procs -> Process] /\ proc'[t] = Idle /\ Others(t)
    BY <1>1, DoneProc
  <1>3. proc'[t].at = "idle" /\ ~proc'[t].clean /\ proc'[t].file = 0 /\ config'.state = "ok" /\ config'.epoch = 0
    BY <1>2, IdleType
  <1>4. Fresh /\ rows = NoRows /\ DOMAIN rows = {}
    BY <1>1 DEF IInv, Fresh, FreshIsEmpty, TypeOK, NoRows, Missing
  <1> USE <1>1, <1>2, <1>3, <1>4 DEF IInv, server, history, Others
  <1>5. TypeOK'
    BY DEF TypeOK, FileStates
  <1>6. WithinBounds'
    BY StaysWithinBounds DEF Rotating
  <1>7. DeletedIsGone'
    <2>1. ~remade /\ ~deleted
      BY DEF FreshIsEmpty, DeletedIsGone
    <2> QED BY <2>1 DEF DeletedIsGone
  <1>8. OpensLookedBefore'
    BY DEF OpensLookedBefore, Opening, NoSession
  <1>9. OpensUndisturbed'
    BY DEF OpensUndisturbed, Deletes, Deleting, Opening, Missing
  <1>10. SessionUndisturbed'
    BY DEF SessionUndisturbed, Deletes, Deleting
  <1>11. SessionBacked'
    BY DEF SessionBacked, Missing
  <1>12. FreshIsEmpty'
    BY DEF FreshIsEmpty, Fresh, At
  <1>13. RotationAlone'
    BY DEF RotationAlone, Rotates, Rotating, Deletes, Deleting, At, Attached, FreshIsEmpty
  <1>14. RotationDone'
    BY DEF RotationDone, At
  <1>15. RotationKeepsTrack'
    BY DEF RotationKeepsTrack
  <1> QED BY <1>5, <1>6, <1>7, <1>8, <1>9, <1>10, <1>11, <1>12, <1>13, <1>14, <1>15 DEF IInv

\* The check of open.
LEMMA OpenInv ==
    ASSUME IInv, NEW t \in Procs, Open(t)
    PROVE  IInv'
  <1> DEFINE clean == \A p \in Procs : ~Deletes(p)
             x == [Idle EXCEPT !.at = "config", !.seen = opens, !.clean = clean]
  <1>1. /\ TypeOK /\ At(t, "idle") /\ session = NoSession
        /\ UNCHANGED <<disk, server, history>> /\ proc' = [proc EXCEPT ![t] = x]
    BY DEF IInv, Open
  <1>2. /\ x \in Process /\ x.at = "config" /\ x.seen = opens /\ x.clean = clean /\ x.file = 0
    BY <1>1, IdleType DEF Process, Points, Opening, TypeOK
  <1> HIDE DEF x
  <1>3. proc' \in [Procs -> Process] /\ proc'[t] = x /\ Others(t)
    BY <1>1, <1>2 DEF TypeOK, Others
  <1>4. proc'[t].at = "config" /\ proc'[t].seen = opens /\ proc'[t].clean = clean /\ proc'[t].file = 0
    BY <1>2, <1>3
  <1> USE <1>1, <1>3, <1>4 DEF IInv, disk, server, history, Others, At
  <1>5. TypeOK'
    BY DEF TypeOK
  <1>6. WithinBounds'
    BY StaysWithinBounds DEF Rotating
  <1>7. DeletedIsGone'
    BY DEF DeletedIsGone, Rotates, Rotating
  <1>8. OpensLookedBefore'
    BY DEF OpensLookedBefore, Opening, NoSession, TypeOK
  <1>9. OpensUndisturbed'
    BY DEF OpensUndisturbed, Deletes, Deleting, Opening
  <1>10. SessionUndisturbed'
    BY DEF SessionUndisturbed, Deletes, Deleting
  <1>11. SessionBacked'
    BY DEF SessionBacked
  <1>12. FreshIsEmpty'
    BY DEF FreshIsEmpty, Fresh, At
  <1>13. RotationAlone'
    BY DEF RotationAlone, Rotates, Rotating, Deletes, Deleting, At, Attached
  <1>14. RotationDone'
    BY DEF RotationDone, At
  <1>15. RotationKeepsTrack'
    BY DEF RotationKeepsTrack
  <1> QED BY <1>5, <1>6, <1>7, <1>8, <1>9, <1>10, <1>11, <1>12, <1>13, <1>14, <1>15 DEF IInv

\* open reads the configuration.
LEMMA ReadConfigInv ==
    ASSUME IInv, NEW t \in Procs, ReadConfig(t)
    PROVE  IInv'
  <1>0. CASE Fails(t)
    BY <1>0, FailsInv
  <1> SUFFICES ASSUME config.state = "ok", Goto(t, "db"), UNCHANGED <<disk, server, history>>
               PROVE  IInv'
    BY <1>0 DEF ReadConfig
  <1>1. TypeOK /\ At(t, "config") /\ "db" \in Points
    BY DEF IInv, ReadConfig, Points, Opening
  <1>2. /\ proc' \in [Procs -> Process] /\ Others(t)
        /\ proc'[t].at = "db" /\ proc'[t].seen = proc[t].seen /\ proc'[t].clean = proc[t].clean
        /\ proc'[t].file = proc[t].file
    BY <1>1, GotoProc
  <1> USE <1>1, <1>2 DEF IInv, disk, server, history, Others, At
  <1>3. TypeOK'
    BY DEF TypeOK
  <1>4. WithinBounds'
    BY StaysWithinBounds DEF Rotating
  <1>5. DeletedIsGone'
    BY DEF DeletedIsGone, Rotates, Rotating
  <1>6. OpensLookedBefore'
    BY DEF OpensLookedBefore, Opening, NoSession
  <1>7. OpensUndisturbed'
    BY DEF OpensUndisturbed, Deletes, Deleting, Opening, Missing
  <1>8. SessionUndisturbed'
    BY DEF SessionUndisturbed, Deletes, Deleting
  <1>9. SessionBacked'
    BY DEF SessionBacked
  <1>10. FreshIsEmpty'
    BY DEF FreshIsEmpty, Fresh, At, Missing
  <1>11. RotationAlone'
    BY DEF RotationAlone, Rotates, Rotating, Deletes, Deleting, At, Attached
  <1>12. RotationDone'
    BY DEF RotationDone, At
  <1>13. RotationKeepsTrack'
    BY DEF RotationKeepsTrack
  <1> QED BY <1>3, <1>4, <1>5, <1>6, <1>7, <1>8, <1>9, <1>10, <1>11, <1>12, <1>13 DEF IInv

\* open puts the session into the map.
LEMMA InsertInv ==
    ASSUME IInv, NEW t \in Procs, Insert(t)
    PROVE  IInv'
  <1>1. /\ TypeOK /\ At(t, "insert") /\ opens < MaxOpens /\ opens' = opens + 1
        /\ session' = [id |-> opens + 1, file |-> proc[t].file]
        /\ undisturbed' = proc[t].clean /\ Done(t)
        /\ UNCHANGED <<disk, deleted, late, overlapped, remade>>
    BY DEF IInv, Insert
  <1>2. proc' \in [Procs -> Process] /\ proc'[t] = Idle /\ Others(t) /\ proc[t] \in Process
    BY <1>1, DoneProc DEF TypeOK
  <1>3. /\ proc'[t].at = "idle" /\ ~proc'[t].clean /\ proc'[t].file = 0
        /\ session'.id = opens + 1 /\ session'.file = proc[t].file
    BY <1>1, <1>2, IdleType
  <1> USE <1>1, <1>2, <1>3 DEF IInv, disk, Others
  <1>4. TypeOK'
    <2>1. proc[t].file \in 0..files /\ opens + 1 \in 0..MaxOpens /\ opens + 1 \in 0..(opens + 1)
      BY Bounds DEF WithinBounds, TypeOK
    <2> QED BY <2>1 DEF TypeOK, Process
  <1>5. WithinBounds'
    BY StaysWithinBounds DEF Rotating
  <1>6. DeletedIsGone'
    BY DEF DeletedIsGone, Rotates, Rotating
  <1>7. OpensLookedBefore'
    BY DEF OpensLookedBefore, Opening, TypeOK, Process
  <1>8. OpensUndisturbed'
    BY DEF OpensUndisturbed, Deletes, Deleting, Opening
  <1>9. SessionUndisturbed'
    BY DEF SessionUndisturbed, OpensUndisturbed, Deletes, Deleting
  <1>10. SessionBacked'
    BY DEF OpensUndisturbed, SessionBacked, At
  <1>11. FreshIsEmpty'
    BY DEF FreshIsEmpty, Fresh, At
  <1>12. RotationAlone'
    BY DEF RotationAlone, Rotates, Rotating, Deletes, Deleting, At, Attached
  <1>13. RotationDone'
    BY DEF RotationDone, At
  <1>14. RotationKeepsTrack'
    BY DEF RotationKeepsTrack
  <1> QED BY <1>4, <1>5, <1>6, <1>7, <1>8, <1>9, <1>10, <1>11, <1>12, <1>13, <1>14 DEF IInv

\* close, and the end of the server.
LEMMA CloseInv ==
    ASSUME IInv, NEW t \in Procs, Close(t)
    PROVE  IInv'
  <1>1. TypeOK /\ session' = NoSession /\ UNCHANGED <<disk, opens, proc, history>>
        /\ NoSession.id = 0 /\ NoSession.file = 0
    BY DEF IInv, Close, NoSession
  <1> USE <1>1 DEF IInv, disk, history
  <1>2. TypeOK'
    BY DEF TypeOK, NoSession
  <1>3. WithinBounds'
    BY DEF WithinBounds, Rotates
  <1>4. DeletedIsGone'
    BY DEF DeletedIsGone, Rotates, Rotating
  <1>5. OpensLookedBefore'
    BY DEF OpensLookedBefore, Opening, NoSession
  <1>6. OpensUndisturbed'
    BY DEF OpensUndisturbed, Deletes, Deleting, Opening
  <1>7. SessionUndisturbed'
    BY DEF SessionUndisturbed, Deletes, Deleting
  <1>8. SessionBacked'
    BY DEF SessionBacked
  <1>9. FreshIsEmpty'
    BY DEF FreshIsEmpty, Fresh, At
  <1>10. RotationAlone'
    BY DEF RotationAlone, Rotates, Rotating, Deletes, Deleting, At, Attached
  <1>11. RotationDone'
    BY DEF RotationDone, At
  <1>12. RotationKeepsTrack'
    BY DEF RotationKeepsTrack
  <1> QED BY <1>2, <1>3, <1>4, <1>5, <1>6, <1>7, <1>8, <1>9, <1>10, <1>11, <1>12 DEF IInv

\* p opens a database for an open, a rotation or a mount.
Connecting(p, point) ==
    \/ At(p, "db") /\ point = "insert"
    \/ At(p, "rotate db") /\ point = "rotate list"
    \/ At(p, "mount db") /\ point = "mount cache"

\* A database is opened, or created.
LEMMA ConnectInv ==
    ASSUME IInv, NEW p \in Procs, NEW point \in Points, Connect(p, point), Connecting(p, point)
    PROVE  IInv'
  <1>0. CASE Fails(p)
    BY <1>0, FailsInv
  <1>1. TypeOK /\ files \in Nat /\ MaxFiles \in Nat /\ ~Fresh
    BY Bounds DEF IInv, FreshIsEmpty, At, Connecting
  <1>2. CASE /\ db.state = "ok"
             /\ proc' = [proc EXCEPT ![p].at = point, ![p].file = db.file]
             /\ UNCHANGED <<disk, server, history>>
    <2>1. db.file \in 0..MaxFiles /\ db.file <= files /\ db.file \in Nat
      <3>1. db.file \in 0..files /\ files \in 0..MaxFiles
        BY <1>1 DEF TypeOK
      <3> QED BY <1>1, <3>1
    <2>2. Continues(p, point, proc[p].todo, db.file)
      <3>1. WithFile(p, point, db.file)
        BY <1>2 DEF WithFile
      <3> QED BY <1>1, <2>1, <3>1, FileProc
    <2>3. db = [state |-> "ok", file |-> proc'[p].file]
      BY <1>1, <1>2, <2>2 DEF TypeOK, Continues
    <2>3b. files' \in Nat /\ files <= files' /\ proc'[p].file \in Nat /\ proc'[p].file <= files'
      BY <1>1, <1>2, <2>1, <2>2 DEF Continues, disk
    <2>3c. /\ \A q \in Procs : /\ Rotates(q)' <=> Rotates(q)
                               /\ Deletes(q)' <=> Deletes(q)
                               /\ proc'[q].epoch = proc[q].epoch
                               /\ At(q, "write")' <=> At(q, "write")
                               /\ q # p => proc'[q] = proc[q]
           /\ Rotates(p) => At(p, "rotate db")
      BY <2>2 DEF Continues, Others, Connecting, Rotates, Rotating, Deletes, Deleting, At
    <2>3d. RotationAlone'
      <3> SUFFICES ASSUME ~overlapped', NEW c \in Procs, Rotates(c)'
                   PROVE  /\ \A q \in Procs : q # c => ~Rotates(q)' /\ ~Deletes(q)'
                          /\ config'.epoch = proc'[c].epoch
                          /\ config'.state = IF At(c, "write")' THEN Garbled ELSE "ok"
                          /\ At(c, "rotate db")' \/ Attached(c)'
        BY DEF RotationAlone
      <3>0. /\ ~overlapped /\ Rotates(c) /\ config' = config
            /\ proc'[c].epoch = proc[c].epoch /\ (At(c, "write")' <=> At(c, "write"))
        BY <1>2, <2>3c DEF disk, history
      <3>1. /\ \A q \in Procs : q # c => ~Rotates(q) /\ ~Deletes(q)
            /\ config.epoch = proc[c].epoch
            /\ config.state = IF At(c, "write") THEN Garbled ELSE "ok"
            /\ At(c, "rotate db") \/ Attached(c)
        BY <3>0 DEF IInv, RotationAlone
      <3>2. ASSUME c = p
            PROVE  At(c, "rotate db")' \/ Attached(c)'
        BY <1>2, <2>2, <2>3, <3>2 DEF Attached, Continues, disk
      <3>3. ASSUME c # p
            PROVE  At(c, "rotate db")' \/ Attached(c)'
        BY <1>2, <2>3, <2>3c, <3>1, <3>3 DEF Attached, At, disk
      <3>4. /\ \A q \in Procs : q # c => ~Rotates(q)' /\ ~Deletes(q)'
            /\ config'.epoch = proc'[c].epoch
            /\ config'.state = IF At(c, "write")' THEN Garbled ELSE "ok"
        BY <2>3c, <3>0, <3>1
      <3>5. At(c, "rotate db")' \/ Attached(c)'
        BY <3>2, <3>3
      <3> QED BY <3>4, <3>5
    <2> USE <1>1, <1>2, <2>1, <2>2, <2>3 DEF IInv, disk, server, history, Others, At, Continues, Connecting
    <2>4. TypeOK'
      BY DEF TypeOK
    <2>5. WithinBounds'
      <3>1. Rotates(p)' => p \in Clis /\ proc'[p].epoch < MaxEpoch
        BY DEF WithinBounds, Rotates, Rotating
      <3> QED BY <3>1, <2>3b, BoundsStep
    <2>6. DeletedIsGone'
      BY DEF DeletedIsGone, Rotates, Rotating
    <2>7. OpensLookedBefore'
      BY DEF OpensLookedBefore, Opening, NoSession
    <2>8. OpensUndisturbed'
      BY DEF OpensUndisturbed, Deletes, Deleting, Opening, Missing
    <2>9. SessionUndisturbed'
      BY DEF SessionUndisturbed, Deletes, Deleting
    <2>10. SessionBacked'
      BY DEF SessionBacked
    <2>11. FreshIsEmpty'
      BY DEF FreshIsEmpty, Fresh, At
    <2>13. RotationDone'
      BY DEF RotationDone, At
    <2>14. RotationKeepsTrack'
      BY DEF RotationKeepsTrack
    <2> QED BY <2>4, <2>5, <2>6, <2>7, <2>8, <2>9, <2>10, <2>11, <2>3d, <2>13, <2>14 DEF IInv
  <1>3. CASE /\ dir /\ db.state = Missing /\ files < MaxFiles
             /\ files' = files + 1
             /\ db' = [state |-> "ok", file |-> files + 1]
             /\ rows' = NoRows
             /\ proc' = [proc EXCEPT ![p].at = point, ![p].file = files + 1]
             /\ UNCHANGED <<dir, cache, config, server, history>>
    <2>1. /\ files + 1 \in 0..MaxFiles /\ files + 1 \in Nat /\ files <= files + 1
          /\ files \in 0..(files + 1) /\ 0..files \subseteq 0..(files + 1)
      BY <1>1, <1>3
    <2>2. Continues(p, point, proc[p].todo, files + 1)
      <3>1. WithFile(p, point, files + 1)
        BY <1>3 DEF WithFile
      <3> QED BY <1>1, <2>1, <3>1, FileProc
    <2>3. /\ db'.state = "ok" /\ db'.file = proc'[p].file /\ db.state # "ok"
          /\ DOMAIN rows' = {} /\ rows' \in [DOMAIN rows' -> Epochs]
          /\ \A file : db # [state |-> "ok", file |-> file]
      BY <1>1, <1>3, <2>2, NoRowsType DEF Missing, Continues
    <2>3b. files' \in Nat /\ files <= files' /\ proc'[p].file \in Nat /\ proc'[p].file <= files'
      BY <1>1, <1>3, <2>1, <2>2 DEF Continues
    <2>3c. /\ \A q \in Procs : /\ Rotates(q)' <=> Rotates(q)
                               /\ Deletes(q)' <=> Deletes(q)
                               /\ proc'[q].epoch = proc[q].epoch
                               /\ At(q, "write")' <=> At(q, "write")
                               /\ q # p => proc'[q] = proc[q]
           /\ Rotates(p) => At(p, "rotate db")
      BY <2>2 DEF Continues, Others, Connecting, Rotates, Rotating, Deletes, Deleting, At
    <2>3d. RotationAlone'
      <3> SUFFICES ASSUME ~overlapped', NEW c \in Procs, Rotates(c)'
                   PROVE  /\ \A q \in Procs : q # c => ~Rotates(q)' /\ ~Deletes(q)'
                          /\ config'.epoch = proc'[c].epoch
                          /\ config'.state = IF At(c, "write")' THEN Garbled ELSE "ok"
                          /\ At(c, "rotate db")' \/ Attached(c)'
        BY DEF RotationAlone
      <3>0. /\ ~overlapped /\ Rotates(c) /\ config' = config
            /\ proc'[c].epoch = proc[c].epoch /\ (At(c, "write")' <=> At(c, "write"))
        BY <1>3, <2>3c DEF disk, history
      <3>1. /\ \A q \in Procs : q # c => ~Rotates(q) /\ ~Deletes(q)
            /\ config.epoch = proc[c].epoch
            /\ config.state = IF At(c, "write") THEN Garbled ELSE "ok"
            /\ At(c, "rotate db") \/ Attached(c)
        BY <3>0 DEF IInv, RotationAlone
      <3>2. ASSUME c = p
            PROVE  At(c, "rotate db")' \/ Attached(c)'
        BY <1>3, <2>2, <2>3, <3>2 DEF Attached, Continues, disk
      <3>3. ASSUME c # p
            PROVE  At(c, "rotate db")' \/ Attached(c)'
        BY <1>3, <2>3, <2>3c, <3>1, <3>3 DEF Attached, At, disk
      <3>4. /\ \A q \in Procs : q # c => ~Rotates(q)' /\ ~Deletes(q)'
            /\ config'.epoch = proc'[c].epoch
            /\ config'.state = IF At(c, "write")' THEN Garbled ELSE "ok"
        BY <2>3c, <3>0, <3>1
      <3>5. At(c, "rotate db")' \/ Attached(c)'
        BY <3>2, <3>3
      <3> QED BY <3>4, <3>5
    <2> USE <1>1, <1>3, <2>1, <2>2, <2>3 DEF IInv, server, history, Others, At, Continues, Connecting
    <2>4. TypeOK'
      <3>1. session \in [id: 0..opens, file: 0..(files + 1)] /\ db' \in [state: FileStates, file: 0..(files + 1)]
        BY OneMoreFile DEF FileStates
      <3> QED BY <3>1 DEF TypeOK
    <2>5. WithinBounds'
      <3>1. Rotates(p)' => p \in Clis /\ proc'[p].epoch < MaxEpoch
        BY DEF WithinBounds, Rotates, Rotating
      <3> QED BY <3>1, <2>3b, BoundsStep
    <2>6. DeletedIsGone'
      BY DEF DeletedIsGone, Rotates, Rotating
    <2>7. OpensLookedBefore'
      BY DEF OpensLookedBefore, Opening, NoSession
    <2>8. OpensUndisturbed'
      BY DEF OpensUndisturbed, Deletes, Deleting, Opening
    <2>9. SessionUndisturbed'
      BY DEF SessionUndisturbed, Deletes, Deleting
    <2>10. SessionBacked'
      BY DEF SessionBacked
    <2>11. FreshIsEmpty'
      BY DEF FreshIsEmpty, Fresh, At
    <2>13. RotationDone'
      BY DEF RotationDone, At
    <2>14. RotationKeepsTrack'
      BY DEF RotationKeepsTrack
    <2> QED BY <2>4, <2>5, <2>6, <2>7, <2>8, <2>9, <2>10, <2>11, <2>3d, <2>13, <2>14 DEF IInv
  <1> QED BY <1>0, <1>2, <1>3 DEF Connect

-----------------------------------------------------------------------------
(* The steps of delete keep the invariant.                                  *)

\* A delete begins.  It ends what no delete had overlapped.
LEMMA BeginDeleteInv ==
    ASSUME IInv, NEW p \in Procs, At(p, "idle"), BeginDelete(p),
           undisturbed' \in {FALSE, undisturbed}, undisturbed' => session = NoSession,
           UNCHANGED <<disk, server, deleted, late, remade>>
    PROVE  IInv'
  <1> DEFINE x == [Idle EXCEPT !.at = "list"]
  <1>1. TypeOK /\ UNCHANGED <<disk, server, deleted, late, remade>> /\ At(p, "idle")
        /\ overlapped' = (overlapped \/ \E c \in Clis : Rotates(c))
    BY DEF IInv, BeginDelete
  <1>2. x \in Process /\ x.at = "list" /\ ~x.clean /\ x.file = 0
    BY IdleType DEF Process, Points, Deleting
  <1> HIDE DEF x
  <1>3. \A q \in Procs : proc[q] \in Process /\ proc'[q] = IF q = p THEN x ELSE [proc[q] EXCEPT !.clean = FALSE]
    BY <1>1 DEF TypeOK, BeginDelete, x
  <1>4. \A q \in Procs : q # p =>
            /\ proc'[q] \in Process /\ ~proc'[q].clean /\ proc'[q].at = proc[q].at
            /\ proc'[q].seen = proc[q].seen /\ proc'[q].file = proc[q].file
            /\ proc'[q].epoch = proc[q].epoch /\ proc'[q].todo = proc[q].todo
    BY <1>3 DEF Process
  <1>5. proc'[p] \in Process /\ proc'[p].at = "list" /\ ~proc'[p].clean /\ proc'[p].file = 0
    BY <1>2, <1>3
  <1>6. proc' \in [Procs -> Process]
    <2>1. \A q \in Procs : proc'[q] \in Process
      BY <1>4, <1>5
    <2> HIDE DEF x
    <2> QED BY <2>1 DEF BeginDelete
  <1>7. files \in Nat /\ files' = files /\ 0 <= files
    BY <1>1, Bounds DEF disk
  <1>7a. overlapped' \in BOOLEAN /\ undisturbed' \in BOOLEAN
    <2>1. overlapped \in BOOLEAN /\ undisturbed \in BOOLEAN
      BY <1>1 DEF TypeOK
    <2> QED BY <1>1, <2>1, Zenon
  <1>7b. ~overlapped' => ~overlapped /\ \A c \in Procs : ~Rotates(c)
    BY <1>1 DEF IInv, WithinBounds
  <1> USE <1>1, <1>4, <1>5, <1>6, <1>7 DEF IInv, disk, server, At
  <1>8. TypeOK'
    BY <1>7a DEF TypeOK
  <1>9. WithinBounds'
    <2> SUFFICES ASSUME NEW q \in Procs
                 PROVE  proc'[q].file <= files /\ (Rotates(q)' => q \in Clis /\ proc'[q].epoch < MaxEpoch)
      BY DEF WithinBounds
    <2>1. CASE q = p
      BY <2>1 DEF Rotates, Rotating
    <2>2. CASE q # p
      BY <2>2 DEF WithinBounds, Rotates
    <2> QED BY <2>1, <2>2
  <1>10. DeletedIsGone'
    <2>1. ~overlapped' => \A q \in Procs : ~Rotates(q)'
      BY <1>7b DEF Rotates, Rotating
    <2>2. ~overlapped' => ~overlapped
      BY <1>7b
    <2> QED BY <2>1, <2>2 DEF DeletedIsGone
  <1>11. OpensLookedBefore'
    BY DEF OpensLookedBefore, Opening, NoSession
  <1>12. OpensUndisturbed'
    BY DEF OpensUndisturbed, Deletes, Deleting, Opening
  <1>13. SessionUndisturbed'
    BY DEF SessionUndisturbed, Deletes, Deleting
  <1>14. SessionBacked'
    BY DEF SessionBacked
  <1>15. FreshIsEmpty'
    BY DEF FreshIsEmpty, Fresh, At
  <1>16. RotationAlone'
    BY <1>7b DEF RotationAlone, Rotates, Rotating
  <1>17. RotationDone'
    BY DEF RotationDone, At
  <1>18. RotationKeepsTrack'
    BY DEF RotationKeepsTrack
  <1> QED BY <1>8, <1>9, <1>10, <1>11, <1>12, <1>13, <1>14, <1>15, <1>16, <1>17, <1>18 DEF IInv

\* The directory is listed.
LEMMA ListInv ==
    ASSUME IInv, NEW p \in Procs, List(p)
    PROVE  IInv'
  <1>0. CASE Fails(p)
    BY <1>0, FailsInv
  <1> DEFINE todo == {f \in {"config", "db"} : Exists(f)}
  <1>1. CASE dir /\ WithTodo(p, "shred", todo) /\ UNCHANGED <<disk, server, history>>
    <2>1. TypeOK /\ At(p, "list") /\ "shred" \in Points /\ todo \in SUBSET ({"config", "db"} \cup Blocks)
      BY DEF IInv, List, Points, Deleting
    <2>2. ~Fresh \/ todo = {}
      BY DEF IInv, FreshIsEmpty, Exists
    <2> HIDE DEF todo
    <2>3. Continues(p, "shred", todo, proc[p].file)
      BY <1>1, <2>1, TodoProc
    <2> USE <1>1, <2>1, <2>2, <2>3 DEF IInv, disk, server, history, Others, At, Continues
    <2>4. TypeOK'
      BY DEF TypeOK
    <2>5. WithinBounds'
      BY StaysWithinBounds DEF Rotating
    <2>6. DeletedIsGone'
      BY DEF DeletedIsGone, Rotates, Rotating
    <2>7. OpensLookedBefore'
      BY DEF OpensLookedBefore, Opening, NoSession
    <2>8. OpensUndisturbed'
      BY DEF OpensUndisturbed, Deletes, Deleting, Opening
    <2>9. SessionUndisturbed'
      BY DEF SessionUndisturbed, Deletes, Deleting
    <2>10. SessionBacked'
      BY DEF SessionBacked
    <2>11. FreshIsEmpty'
      BY DEF FreshIsEmpty, Fresh, At
    <2>12. RotationAlone'
      BY DEF RotationAlone, Rotates, Rotating, Deletes, Deleting, At, Attached
    <2>13. RotationDone'
      BY DEF RotationDone, At
    <2>14. RotationKeepsTrack'
      BY DEF RotationKeepsTrack
    <2> QED BY <2>4, <2>5, <2>6, <2>7, <2>8, <2>9, <2>10, <2>11, <2>12, <2>13, <2>14 DEF IInv
  <1> QED BY <1>0, <1>1 DEF List, WithTodo

\* What a step of a delete does to all but the directory: it ends or goes on,
\* and takes away the configuration, the rows, or both.
Wiping(p) ==
    /\ Others(p)
    /\ Deletes(p)' \/ At(p, "idle")'
    /\ UNCHANGED <<server, undisturbed, late, overlapped, remade>>
    /\ config' = config \/ config'.state # "ok"
    /\ rows' = rows \/ DOMAIN rows' = {}

\* The parts of the invariant that say nothing while a delete is under way.
DuringDelete ==
    /\ OpensLookedBefore /\ OpensUndisturbed
    /\ SessionUndisturbed /\ SessionBacked
    /\ RotationAlone /\ RotationDone /\ RotationKeepsTrack

\* They hold after a step of the delete.
LEMMA WipingInv ==
    ASSUME IInv, NEW p \in Procs, Deletes(p), Wiping(p), ~proc'[p].clean
    PROVE  DuringDelete' /\ (overlapped' \/ \A q \in Procs : ~Rotates(q)')
  <1>1. \A q \in Procs : ~proc[q].clean
    BY DEF IInv, OpensUndisturbed
  <1>2. session = NoSession \/ ~undisturbed
    BY DEF IInv, SessionUndisturbed
  <1>3. overlapped \/ \A q \in Procs : ~Rotates(q)
    BY DEF IInv, RotationAlone, Rotates, Rotating, Deletes, Deleting
  <1>4. \A q \in Procs : q # p => proc'[q] = proc[q]
    BY DEF Wiping, Others
  <1>5. proc'[p].at \notin Opening /\ ~Rotates(p)'
    BY DEF Wiping, Deletes, Deleting, At, Rotates, Rotating, Opening
  <1>6. UNCHANGED <<session, opens, undisturbed, late, overlapped, remade>>
    BY DEF Wiping, server
  <1>7. OpensLookedBefore'
    BY <1>4, <1>5, <1>6 DEF IInv, OpensLookedBefore
  <1>8. OpensUndisturbed'
    BY <1>1, <1>4 DEF OpensUndisturbed
  <1>9. SessionUndisturbed' /\ SessionBacked'
    BY <1>2, <1>6 DEF SessionUndisturbed, SessionBacked
  <1>10. overlapped \/ \A q \in Procs : ~Rotates(q)'
    BY <1>3, <1>4, <1>5 DEF Rotates
  <1>11. RotationAlone'
    BY <1>6, <1>10 DEF RotationAlone
  <1>12. RotationDone'
    BY <1>6, <1>10 DEF RotationDone, Rotates, Rotating
  <1>13. RotationKeepsTrack'
    BY <1>6 DEF IInv, RotationKeepsTrack, Wiping
  <1> QED BY <1>6, <1>7, <1>8, <1>9, <1>10, <1>11, <1>12, <1>13 DEF DuringDelete

\* What Leave leaves, in a directory that exists.
Left(f, state) ==
    /\ UNCHANGED <<dir, cache, files>>
    /\ config' \in [state: FileStates, epoch: Epochs] /\ db' \in [state: FileStates, file: 0..files]
    /\ config' = config \/ config'.state # "ok"
    /\ DOMAIN rows' \subseteq Blocks /\ rows' \in [DOMAIN rows' -> Epochs]
    /\ rows' = rows \/ DOMAIN rows' = {}
    /\ db'.state # "ok" => rows' = NoRows
    /\ f = "config" => config'.state = state /\ UNCHANGED db
    /\ f = "db" => db'.state = state /\ UNCHANGED config

\* A file is garbled or goes away.
LEMMA LeaveShape ==
    ASSUME TypeOK, NEW f \in {"config", "db"}, NEW state \in {Missing, Garbled}, Leave(f, state)
    PROVE  Left(f, state)
  <1>1. state \in FileStates /\ state # "ok"
    BY DEF FileStates, Missing, Garbled
  <1>2. CASE f = "config"
    <2>1. config' = [config EXCEPT !.state = state] /\ UNCHANGED <<dir, cache, files, db, rows>>
      BY <1>2 DEF Leave
    <2> QED BY <1>1, <1>2, <2>1 DEF Left, TypeOK
  <1>3. CASE f = "db"
    <2>1. /\ db' = [db EXCEPT !.state = state] /\ rows' = NoRows /\ UNCHANGED <<dir, cache, files, config>>
      BY <1>3 DEF Leave
    <2> QED BY <1>1, <1>3, <2>1, NoRowsType DEF Left, TypeOK
  <1> QED BY <1>2, <1>3

\* What the step of a delete does to its process.
Deletion(p) ==
    /\ proc' \in [Procs -> Process] /\ Others(p)
    /\ Deletes(p)' /\ ~proc'[p].clean /\ proc'[p].file = proc[p].file

\* A delete garbles or removes a file.
LEMMA LeaveInv ==
    ASSUME IInv, NEW p \in Procs, Deletes(p), dir, ~Fresh, NEW f, NEW state, Left(f, state),
           Deletion(p), UNCHANGED <<server, history>>
    PROVE  IInv'
  <1>1. DuringDelete' /\ (overlapped' \/ \A q \in Procs : ~Rotates(q)')
    <2>1. Wiping(p) /\ ~proc'[p].clean
      BY DEF Wiping, Deletion, Left, history
    <2> QED BY <2>1, WipingInv
  <1>2. TypeOK'
    BY DEF IInv, TypeOK, Left, Deletion, server, history
  <1>3. WithinBounds'
    <2>1. proc'[p].at \notin Rotating /\ files' = files
      BY DEF Deletion, Deletes, Deleting, Rotating, Left
    <2> QED BY <2>1, StaysWithinBounds DEF IInv, Deletion
  <1>4. DeletedIsGone'
    BY <1>1 DEF IInv, DeletedIsGone, Left, history
  <1>5. FreshIsEmpty'
    <2>1. \A t \in Procs : At(t, "create")' => At(t, "create")
      BY DEF At, Deletion, Others, Deletes, Deleting
    <2>2. UNCHANGED <<dir, deleted>>
      BY DEF Left, history
    <2> QED BY <2>1, <2>2 DEF IInv, FreshIsEmpty, Fresh
  <1> QED BY <1>1, <1>2, <1>3, <1>4, <1>5 DEF IInv, DuringDelete

\* What is true of a delete that is at one of its files.
LEMMA AtFile ==
    ASSUME IInv, NEW p \in Procs, NEW f \in {"config", "db"},
           (At(p, "shred") /\ f \in proc[p].todo) \/ At(p, Unlinking(f))
    PROVE  /\ TypeOK /\ Deletes(p) /\ ~proc[p].clean /\ ~Fresh
           /\ Exists(f) => dir
           /\ Unlinking(f) \in Points /\ Unlinking(f) \in Deleting /\ "shred" \in Points /\ "shred" \in Deleting
           /\ proc[p].todo \ {f} \in SUBSET ({"config", "db"} \cup Blocks)
  <1>1. Unlinking(f) \in Deleting /\ Unlinking(f) \in {"unlink config", "unlink db"} /\ "shred" \in Deleting
    BY DEF Unlinking, Deleting
  <1>2. TypeOK /\ Deletes(p)
    BY <1>1 DEF IInv, Deletes, At
  <1>3. ~proc[p].clean
    BY <1>2 DEF IInv, OpensUndisturbed
  <1>4. ~Fresh
    BY <1>1 DEF IInv, FreshIsEmpty, At
  <1>5. Exists(f) => dir
    BY <1>2 DEF TypeOK, Exists
  <1>6. proc[p] \in Process
    BY <1>2 DEF TypeOK
  <1> QED BY <1>1, <1>2, <1>3, <1>4, <1>5, <1>6 DEF Points, Process

\* The first pass over a file.
LEMMA ShredInv ==
    ASSUME IInv, NEW p \in Procs, NEW f \in {"config", "db"}, Shred(p, f)
    PROVE  IInv'
  <1>0. CASE Fails(p)
    BY <1>0, FailsInv
  <1>1. CASE /\ Exists(f) /\ Leave(f, Garbled) /\ WithTodo(p, Unlinking(f), proc[p].todo \ {f})
             /\ UNCHANGED <<server, history>>
    <2>1. /\ TypeOK /\ Deletes(p) /\ ~proc[p].clean /\ ~Fresh /\ dir
          /\ Unlinking(f) \in Points /\ Unlinking(f) \in Deleting
          /\ proc[p].todo \ {f} \in SUBSET ({"config", "db"} \cup Blocks)
      BY <1>1, AtFile DEF Shred
    <2>2. Deletion(p)
      <3>1. Continues(p, Unlinking(f), proc[p].todo \ {f}, proc[p].file)
        BY <1>1, <2>1, TodoProc
      <3> QED BY <2>1, <3>1 DEF Deletion, Continues, Deletes
    <2>3. Left(f, Garbled)
      BY <1>1, <2>1, LeaveShape
    <2> QED BY <1>1, <2>1, <2>2, <2>3, LeaveInv
  <1>2. CASE Exists(f) /\ ~Fails(p)
    <2>1. TypeOK /\ proc \in [Procs -> Process]
      BY DEF IInv, TypeOK
    <2>2. WithTodo(p, Unlinking(f), proc[p].todo \ {f})
      BY <1>2, <2>1 DEF Shred, WithTodo
    <2> QED BY <1>1, <1>2, <2>2 DEF Shred
  <1> QED BY <1>0, <1>2 DEF Shred

\* A later pass.
LEMMA ShredAgainInv ==
    ASSUME IInv, NEW p \in Procs, NEW f \in {"config", "db"}, ShredAgain(p, f)
    PROVE  IInv'
  <1>0. CASE Fails(p)
    BY <1>0, FailsInv
  <1>1. TypeOK /\ Deletes(p) /\ ~proc[p].clean /\ ~Fresh /\ (Exists(f) => dir) /\ files \in Nat /\ MaxFiles \in Nat
    BY AtFile, Bounds DEF ShredAgain
  <1>2. UNCHANGED proc => Deletion(p)
    BY <1>1 DEF Deletion, Others, Deletes, TypeOK
  <1>3. CASE /\ Exists(f) \/ (dir /\ f = "config")
             /\ Leave(f, Garbled) /\ UNCHANGED <<server, proc, history>>
    <2>1. Left(f, Garbled)
      BY <1>1, <1>3, LeaveShape
    <2> QED BY <1>1, <1>2, <1>3, <2>1, LeaveInv
  <1>4. CASE /\ f = "db" /\ dir /\ ~Exists(f) /\ files < MaxFiles
             /\ files' = files + 1
             /\ db' = [state |-> Garbled, file |-> files + 1]
             /\ UNCHANGED <<dir, cache, config, rows, server, proc, history>>
    <2>1. DuringDelete' /\ (overlapped' \/ \A q \in Procs : ~Rotates(q)')
      <3>1. Wiping(p) /\ ~proc'[p].clean
        BY <1>1, <1>2, <1>4 DEF Wiping, Deletion, history
      <3> QED BY <1>1, <3>1, WipingInv
    <2>2. TypeOK'
      <3>1. /\ db' \in [state: FileStates, file: 0..(files + 1)] /\ db'.state = Garbled
            /\ session \in [id: 0..opens, file: 0..(files + 1)]
        BY <1>1, <1>4, OneMoreFile DEF FileStates
      <3>2. files + 1 \in 0..MaxFiles
        BY <1>1, <1>4
      <3>3. rows = NoRows
        BY <1>1, <1>4 DEF TypeOK, Exists, Missing
      <3> QED BY <1>1, <1>4, <3>1, <3>2, <3>3 DEF TypeOK, server, history
    <2>3. WithinBounds'
      <3>1. /\ files' \in Nat /\ files <= files' /\ \A q \in Procs : proc[q].file \in Nat
            /\ UNCHANGED proc
        BY <1>1, <1>4, Bounds
      <3> QED BY <1>1, <3>1 DEF IInv, WithinBounds, Rotates
    <2>4. DeletedIsGone'
      BY <1>4, <2>1 DEF IInv, DeletedIsGone, history
    <2>5. FreshIsEmpty'
      BY <1>1, <1>4 DEF IInv, FreshIsEmpty, Fresh, At, history
    <2> QED BY <2>1, <2>2, <2>3, <2>4, <2>5 DEF IInv, DuringDelete
  <1> QED BY <1>0, <1>3, <1>4 DEF ShredAgain

\* The removal of a file.
LEMMA UnlinkInv ==
    ASSUME IInv, NEW p \in Procs, NEW f \in {"config", "db"}, Unlink(p, f)
    PROVE  IInv'
  <1>0. CASE Fails(p)
    BY <1>0, FailsInv
  <1>1. CASE /\ Exists(f) /\ Leave(f, Missing) /\ Goto(p, "shred")
             /\ UNCHANGED <<server, history>>
    <2>1. TypeOK /\ Deletes(p) /\ ~proc[p].clean /\ ~Fresh /\ dir /\ "shred" \in Points /\ "shred" \in Deleting
      BY <1>1, AtFile DEF Unlink
    <2>2. Deletion(p)
      BY <1>1, <2>1, GotoProc DEF Deletion, Deletes
    <2>3. Left(f, Missing)
      BY <1>1, <2>1, LeaveShape
    <2> QED BY <1>1, <2>1, <2>2, <2>3, LeaveInv
  <1> QED BY <1>0, <1>1 DEF Unlink

\* remove_dir_all empties the directory.
LEMMA RemoveRestInv ==
    ASSUME IInv, NEW p \in Procs, RemoveRest(p)
    PROVE  IInv'
  <1>0. CASE Fails(p)
    BY <1>0, FailsInv
  <1>1. CASE /\ dir
             /\ config' = [config EXCEPT !.state = Missing] /\ db' = [db EXCEPT !.state = Missing]
             /\ rows' = NoRows /\ cache' = FALSE /\ Goto(p, "rmdir")
             /\ UNCHANGED <<dir, files, server, history>>
    <2>1. TypeOK /\ At(p, "shred") /\ Deletes(p) /\ "rmdir" \in Points /\ "rmdir" \in Deleting
      BY DEF IInv, RemoveRest, At, Deletes, Deleting, Points
    <2>2. ~proc[p].clean
      BY <2>1 DEF IInv, OpensUndisturbed
    <2>3. Deletion(p) /\ proc'[p].at = "rmdir"
      BY <1>1, <2>1, <2>2, GotoProc DEF Deletion, Deletes
    <2>4. /\ config' \in [state: FileStates, epoch: Epochs] /\ config'.state = Missing
          /\ db' \in [state: FileStates, file: 0..files] /\ db'.state = Missing
      BY <1>1, <2>1 DEF TypeOK, FileStates
    <2>5. DuringDelete' /\ (overlapped' \/ \A q \in Procs : ~Rotates(q)')
      <3>1. Wiping(p) /\ ~proc'[p].clean
        BY <1>1, <2>3, <2>4, NoRowsType DEF Wiping, Deletion, history, Missing
      <3> QED BY <2>1, <3>1, WipingInv
    <2>6. TypeOK'
      BY <1>1, <2>1, <2>3, <2>4, NoRowsType DEF TypeOK, Deletion, server, history
    <2>7. WithinBounds'
      <3>1. proc'[p].at \notin Rotating /\ files' = files
        BY <1>1, <2>3 DEF Rotating
      <3> QED BY <2>3, <3>1, StaysWithinBounds DEF IInv, Deletion
    <2>8. DeletedIsGone'
      BY <1>1, <2>4, <2>5 DEF IInv, DeletedIsGone, history, Missing
    <2>9. FreshIsEmpty'
      BY <1>1, <2>1, <2>3, <2>4 DEF IInv, FreshIsEmpty, Fresh, At, history, Deletion, Others
    <2> QED BY <2>5, <2>6, <2>7, <2>8, <2>9 DEF IInv, DuringDelete
  <1> QED BY <1>0, <1>1 DEF RemoveRest

\* The directory goes away, and the delete replies success.
LEMMA RemoveDirInv ==
    ASSUME IInv, NEW p \in Procs, RemoveDir(p)
    PROVE  IInv'
  <1>0. CASE Fails(p)
    BY <1>0, FailsInv
  <1>1. CASE /\ dir /\ ~Exists("config") /\ ~Exists("db") /\ ~cache
             /\ dir' = FALSE /\ deleted' = TRUE /\ Done(p)
             /\ UNCHANGED <<cache, config, db, files, rows, server, undisturbed, late, overlapped, remade>>
    <2>1. TypeOK /\ At(p, "rmdir") /\ Deletes(p) /\ config.state = Missing /\ db.state = Missing
      BY <1>1 DEF IInv, RemoveDir, At, Deletes, Deleting, Exists
    <2>2. proc' \in [Procs -> Process] /\ proc'[p] = Idle /\ Others(p)
      BY <1>1, <2>1, DoneProc
    <2>3. proc'[p].at = "idle" /\ ~proc'[p].clean /\ proc'[p].file = 0
      BY <2>2, IdleType
    <2>4. DuringDelete' /\ (overlapped' \/ \A q \in Procs : ~Rotates(q)')
      <3>1. Wiping(p)
        BY <1>1, <2>2, <2>3 DEF Wiping, At
      <3> QED BY <2>1, <2>3, <3>1, WipingInv
    <2>5. TypeOK'
      BY <1>1, <2>1, <2>2 DEF TypeOK, server
    <2>6. WithinBounds'
      <3>1. proc'[p].at \notin Rotating
        BY <2>3 DEF Rotating
      <3> QED BY <1>1, <2>2, <2>3, <3>1, StaysWithinBounds DEF IInv
    <2>7. DeletedIsGone'
      BY <1>1, <2>1, <2>4 DEF DeletedIsGone, Missing
    <2>8. FreshIsEmpty'
      BY <1>1, <2>1, <2>2, <2>3 DEF IInv, FreshIsEmpty, Fresh, At, Others
    <2> QED BY <2>4, <2>5, <2>6, <2>7, <2>8 DEF IInv, DuringDelete
  <1> QED BY <1>0, <1>1 DEF RemoveDir

-----------------------------------------------------------------------------
(* The steps of a rotation, and the blocks written meanwhile.               *)

\* A rotation reads the configuration.
LEMMA RotateInv ==
    ASSUME IInv, NEW p \in Clis, Rotate(p)
    PROVE  IInv'
  <1> DEFINE x == [Idle EXCEPT !.at = "rotate db", !.epoch = config.epoch]
  <1>1. /\ TypeOK /\ At(p, "idle") /\ p \in Procs /\ config.state = "ok" /\ config.epoch < MaxEpoch
        /\ proc' = [proc EXCEPT ![p] = x]
        /\ UNCHANGED <<disk, server, deleted, undisturbed, late, remade>>
        /\ overlapped' = (overlapped \/ \E q \in Procs : Rotates(q) \/ Deletes(q))
    BY DEF IInv, Rotate, Procs
  <1>2. x \in Process /\ x.at = "rotate db" /\ x.epoch = config.epoch /\ ~x.clean /\ x.file = 0
    BY <1>1, IdleType DEF Process, Points, Rotating, TypeOK
  <1> HIDE DEF x
  <1>3. /\ proc' \in [Procs -> Process] /\ Others(p)
        /\ proc'[p].at = "rotate db" /\ proc'[p].epoch = config.epoch /\ ~proc'[p].clean /\ proc'[p].file = 0
    BY <1>1, <1>2 DEF TypeOK, Others
  <1>4. overlapped' \in BOOLEAN
    <2>1. overlapped \in BOOLEAN
      BY <1>1 DEF TypeOK
    <2> QED BY <1>1, <2>1, Zenon
  <1>5. ~overlapped' => ~overlapped /\ \A q \in Procs : ~Rotates(q) /\ ~Deletes(q)
    BY <1>1
  <1>6. ~Fresh
    BY <1>1 DEF IInv, FreshIsEmpty, Missing
  <1>7. files' \in Nat /\ files <= files' /\ proc'[p].file \in Nat /\ proc'[p].file <= files'
    <2>1. files' = files /\ proc'[p].file = 0
      BY <1>1, <1>3 DEF disk
    <2>2. files \in Nat
      BY <1>1, Bounds
    <2> QED BY <2>1, <2>2
  <1> USE <1>1, <1>3, <1>6 DEF IInv, disk, server, Others, At
  <1>8. TypeOK'
    BY <1>4 DEF TypeOK
  <1>9. WithinBounds'
    BY <1>7, BoundsStep
  <1>10. DeletedIsGone'
    BY DEF DeletedIsGone, Rotates, Rotating
  <1>11. OpensLookedBefore'
    BY DEF OpensLookedBefore, Opening, NoSession
  <1>12. OpensUndisturbed'
    BY DEF OpensUndisturbed, Deletes, Deleting, Opening
  <1>13. SessionUndisturbed'
    BY DEF SessionUndisturbed, Deletes, Deleting
  <1>14. SessionBacked'
    BY DEF SessionBacked
  <1>15. FreshIsEmpty'
    BY DEF FreshIsEmpty, Fresh, At
  <1>16. RotationAlone'
    BY <1>5 DEF RotationAlone, Rotates, Rotating, Deletes, Deleting, Attached
  <1>17. RotationDone'
    BY <1>5 DEF RotationDone
  <1>18. RotationKeepsTrack'
    BY <1>5 DEF RotationKeepsTrack
  <1> QED BY <1>8, <1>9, <1>10, <1>11, <1>12, <1>13, <1>14, <1>15, <1>16, <1>17, <1>18 DEF IInv

\* An epoch that is not the last has a next one.
LEMMA NextEpoch ==
    ASSUME NEW e \in Nat, MaxEpoch \in Nat, e < MaxEpoch
    PROVE  e + 1 \in Epochs
  BY DEF Epochs

\* What is true of a command that has got to point in a rotation.
LEMMA AtRotation ==
    ASSUME IInv, NEW p \in Procs, NEW point \in {"rotate list", "update", "write"}, At(p, point)
    PROVE  /\ TypeOK /\ Rotates(p) /\ ~proc[p].clean /\ ~Fresh
           /\ p \in Clis /\ proc[p].epoch < MaxEpoch /\ proc[p].epoch \in Nat /\ MaxEpoch \in Nat
           /\ files \in Nat /\ proc[p].file \in Nat /\ proc[p].file <= files
           /\ proc[p].epoch + 1 \in Epochs
  <1>1. TypeOK /\ Rotates(p)
    BY DEF IInv, Rotates, Rotating, At
  <1>2. ~proc[p].clean
    BY DEF IInv, OpensUndisturbed, Opening, At
  <1>3. ~Fresh
    BY DEF IInv, FreshIsEmpty, At
  <1>4. p \in Clis /\ proc[p].epoch < MaxEpoch /\ proc[p].file <= files
    BY <1>1 DEF IInv, WithinBounds
  <1>5. proc[p].epoch \in Nat /\ MaxEpoch \in Nat /\ files \in Nat /\ proc[p].file \in Nat
    BY <1>1, Bounds
  <1>6. proc[p].epoch + 1 \in Epochs
    BY <1>4, <1>5, NextEpoch
  <1> QED BY <1>1, <1>2, <1>3, <1>4, <1>5, <1>6

\* A rotation lists the rows of the epoch it has read.
LEMMA RotateListInv ==
    ASSUME IInv, NEW p \in Procs, RotateList(p)
    PROVE  IInv'
  <1>0. CASE Fails(p)
    BY <1>0, FailsInv
  <1> DEFINE todo == {b \in DOMAIN rows : Attached(p) /\ rows[b] = proc[p].epoch}
  <1>1. CASE WithTodo(p, "update", todo) /\ UNCHANGED <<disk, server, history>>
    <2>1. /\ TypeOK /\ Rotates(p) /\ ~proc[p].clean /\ ~Fresh /\ At(p, "rotate list")
          /\ p \in Clis /\ proc[p].epoch < MaxEpoch
      BY AtRotation DEF RotateList
    <2>2. "update" \in Points /\ todo \in SUBSET ({"config", "db"} \cup Blocks)
      BY <2>1 DEF Points, Rotating, TypeOK
    <2>3. \A b \in todo : b \in DOMAIN rows
      OBVIOUS
    <2>3a. ~overlapped => \A b \in DOMAIN rows \ late : rows[b] = proc[p].epoch + 1 \/ b \in todo
      BY <2>1 DEF IInv, RotationAlone, RotationKeepsTrack, At
    <2> HIDE DEF todo
    <2>4. Continues(p, "update", todo, proc[p].file)
      BY <1>1, <2>1, <2>2, TodoProc
    <2>4b. files' \in Nat /\ files <= files' /\ proc'[p].file \in Nat /\ proc'[p].file <= files'
      <3>1. files' = files /\ proc'[p].file = proc[p].file
        BY <1>1, <2>4 DEF disk, Continues
      <3>2. files \in Nat /\ proc[p].file \in Nat /\ proc[p].file <= files
        BY AtRotation DEF RotateList
      <3> QED BY <3>1, <3>2
    <2> USE <1>1, <2>1, <2>4 DEF IInv, disk, server, history, Others, At, Continues
    <2>5. TypeOK'
      BY DEF TypeOK
    <2>6. WithinBounds'
      BY <2>4b, BoundsStep
    <2>7. DeletedIsGone'
      BY DEF DeletedIsGone, Rotates, Rotating
    <2>8. OpensLookedBefore'
      BY DEF OpensLookedBefore, Opening, NoSession
    <2>9. OpensUndisturbed'
      BY DEF OpensUndisturbed, Deletes, Deleting, Opening
    <2>10. SessionUndisturbed'
      BY DEF SessionUndisturbed, Deletes, Deleting
    <2>11. SessionBacked'
      BY DEF SessionBacked
    <2>12. FreshIsEmpty'
      BY DEF FreshIsEmpty, Fresh, At
    <2>13. RotationAlone'
      BY DEF RotationAlone, Rotates, Rotating, Deletes, Deleting, At, Attached
    <2>14. RotationDone'
      <3>1. ~overlapped => \A c \in Procs : c # p => ~Rotates(c)
        BY DEF RotationAlone
      <3> QED BY <2>3a, <3>1 DEF RotationDone, Rotates, Rotating
    <2>15. RotationKeepsTrack'
      BY DEF RotationKeepsTrack
    <2> QED BY <2>5, <2>6, <2>7, <2>8, <2>9, <2>10, <2>11, <2>12, <2>13, <2>14, <2>15 DEF IInv
  <1> QED BY <1>0, <1>1 DEF RotateList, WithTodo

\* A rotation updates a row.
LEMMA RotateUpdateInv ==
    ASSUME IInv, NEW p \in Procs, NEW b \in Blocks, RotateUpdate(p, b)
    PROVE  IInv'
  <1>0. CASE Fails(p)
    BY <1>0, FailsInv
  <1> DEFINE e == proc[p].epoch + 1
             todo == proc[p].todo \ {b}
  <1>1. CASE /\ rows' = IF Attached(p) /\ b \in DOMAIN rows THEN [rows EXCEPT ![b] = e] ELSE rows
             /\ WithTodo(p, "update", todo)
             /\ UNCHANGED <<dir, cache, config, db, files, server, history>>
    <2>1. /\ TypeOK /\ Rotates(p) /\ ~proc[p].clean /\ ~Fresh /\ At(p, "update")
          /\ p \in Clis /\ proc[p].epoch < MaxEpoch /\ e \in Epochs
      BY AtRotation DEF RotateUpdate
    <2>2. "update" \in Points /\ todo \in SUBSET ({"config", "db"} \cup Blocks)
      BY <2>1 DEF Points, Rotating, TypeOK, Process
    <2>3. ~overlapped => /\ \A c \in Procs : c # p => ~Rotates(c)
                         /\ config.epoch = proc[p].epoch /\ config.state = "ok" /\ Attached(p)
      BY <2>1 DEF IInv, RotationAlone, At
    <2>4. ~overlapped => \A a \in DOMAIN rows \ late : rows[a] = e \/ a \in proc[p].todo
      BY <2>1 DEF IInv, RotationDone, At
    <2>5. /\ DOMAIN rows' = DOMAIN rows /\ rows' \in [DOMAIN rows' -> Epochs]
          /\ db.state # "ok" => rows' = rows
      BY <1>1, <2>1 DEF TypeOK, Attached
    <2>6. ~overlapped => /\ \A a \in DOMAIN rows' \ late : rows'[a] = e \/ a \in todo
                         /\ \A a \in DOMAIN rows' \ late : rows'[a] \in {config.epoch, e}
      <3> HIDE DEF e
      <3> SUFFICES ASSUME ~overlapped, NEW a \in DOMAIN rows \ late
                   PROVE  (rows'[a] = e \/ a \in todo) /\ rows'[a] \in {config.epoch, e}
        BY <2>5
      <3>1. rows' = IF b \in DOMAIN rows THEN [rows EXCEPT ![b] = e] ELSE rows
        BY <1>1, <2>3
      <3>2. rows[a] \in {config.epoch, e}
        BY <2>1, <2>3 DEF IInv, RotationKeepsTrack, e
      <3>3. rows'[a] = IF a = b THEN e ELSE rows[a]
        BY <3>1, <2>1 DEF TypeOK
      <3> QED BY <2>4, <3>2, <3>3
    <2>7. Continues(p, "update", todo, proc[p].file)
      <3> HIDE DEF todo
      <3> QED BY <1>1, <2>1, <2>2, TodoProc
    <2>7a. files' \in Nat /\ files <= files' /\ proc'[p].file \in Nat /\ proc'[p].file <= files'
      <3>1. files' = files /\ proc'[p].file = proc[p].file
        BY <1>1, <2>7 DEF Continues
      <3>2. files \in Nat /\ proc[p].file \in Nat /\ proc[p].file <= files
        BY AtRotation DEF RotateUpdate
      <3> QED BY <3>1, <3>2
    <2>7b. UNCHANGED <<dir, cache, config, db, files, session, opens, deleted, undisturbed, late, overlapped, remade>>
      BY <1>1 DEF server, history
    <2> HIDE DEF todo, e
    <2> USE <2>1, <2>7, <2>7b DEF IInv, Others, At, Continues
    <2>8. TypeOK'
      BY <2>5 DEF TypeOK
    <2>9. WithinBounds'
      BY <2>7a, BoundsStep
    <2>10. DeletedIsGone'
      BY DEF DeletedIsGone, Rotates, Rotating
    <2>11. OpensLookedBefore'
      BY DEF OpensLookedBefore, Opening, NoSession
    <2>12. OpensUndisturbed'
      BY DEF OpensUndisturbed, Deletes, Deleting, Opening
    <2>13. SessionUndisturbed'
      BY DEF SessionUndisturbed, Deletes, Deleting
    <2>14. SessionBacked'
      BY DEF SessionBacked
    <2>15. FreshIsEmpty'
      BY DEF FreshIsEmpty, Fresh, At
    <2>16. RotationAlone'
      BY DEF RotationAlone, Rotates, Rotating, Deletes, Deleting, At, Attached
    <2>17. RotationDone'
      BY <2>3, <2>6 DEF RotationDone, Rotates, Rotating, e
    <2>18. RotationKeepsTrack'
      BY <2>3, <2>6 DEF RotationKeepsTrack, e
    <2> QED BY <2>8, <2>9, <2>10, <2>11, <2>12, <2>13, <2>14, <2>15, <2>16, <2>17, <2>18 DEF IInv
  <1>2. CASE ~Fails(p)
    <2>1. proc \in [Procs -> Process] /\ At(p, "update")
      BY DEF IInv, TypeOK, RotateUpdate
    <2>2. WithTodo(p, "update", todo)
      BY <1>2, <2>1 DEF RotateUpdate, WithTodo, At, Process
    <2> QED BY <1>1, <1>2, <2>2 DEF RotateUpdate
  <1> QED BY <1>0, <1>2

\* A rotation cuts the configuration off.
LEMMA RotateTruncateInv ==
    ASSUME IInv, NEW p \in Procs, RotateTruncate(p)
    PROVE  IInv'
  <1>0. CASE Fails(p)
    BY <1>0, FailsInv
  <1>1. CASE /\ dir /\ Cut /\ Goto(p, "write")
             /\ UNCHANGED <<dir, cache, db, files, rows, server, history>>
    <2>1. /\ TypeOK /\ Rotates(p) /\ ~proc[p].clean /\ ~Fresh /\ At(p, "update") /\ proc[p].todo = {}
          /\ p \in Clis /\ proc[p].epoch < MaxEpoch /\ "write" \in Points
      BY AtRotation DEF RotateTruncate, Points, Rotating
    <2>2. /\ proc' \in [Procs -> Process] /\ Others(p) /\ proc'[p].at = "write"
          /\ proc'[p].clean = proc[p].clean /\ proc'[p].file = proc[p].file
          /\ proc'[p].epoch = proc[p].epoch
      BY <1>1, <2>1, GotoProc
    <2>3. /\ config' \in [state: FileStates, epoch: Epochs] /\ config'.state = Garbled /\ config'.state # Missing
          /\ config'.epoch = config.epoch /\ config'.state # "ok"
      BY <1>1, <2>1 DEF Cut, TypeOK, FileStates, Garbled, Missing
    <2>3a. files' \in Nat /\ files <= files' /\ proc'[p].file \in Nat /\ proc'[p].file <= files'
      <3>1. files' = files /\ proc'[p].file = proc[p].file
        BY <1>1, <2>2
      <3>2. files \in Nat /\ proc[p].file \in Nat /\ proc[p].file <= files
        BY AtRotation DEF RotateTruncate
      <3> QED BY <3>1, <3>2
    <2>3b. /\ UNCHANGED <<dir, cache, db, files, rows, session, opens, deleted, undisturbed, late, overlapped, remade>>
           /\ dir
      BY <1>1 DEF server, history
    <2> USE <2>1, <2>2, <2>3, <2>3b DEF IInv, Others, At
    <2>4. TypeOK'
      BY DEF TypeOK
    <2>5. WithinBounds'
      BY <2>3a, BoundsStep
    <2>6. DeletedIsGone'
      BY DEF DeletedIsGone, Rotates, Rotating
    <2>7. OpensLookedBefore'
      BY DEF OpensLookedBefore, Opening, NoSession
    <2>8. OpensUndisturbed'
      BY DEF OpensUndisturbed, Deletes, Deleting, Opening
    <2>9. SessionUndisturbed'
      BY DEF SessionUndisturbed, Deletes, Deleting
    <2>10. SessionBacked'
      BY DEF SessionBacked
    <2>11. FreshIsEmpty'
      BY DEF FreshIsEmpty, Fresh, At
    <2>12. RotationAlone'
      BY DEF RotationAlone, Rotates, Rotating, Deletes, Deleting, At, Attached
    <2>13. RotationDone'
      BY DEF RotationDone, At
    <2>14. RotationKeepsTrack'
      BY DEF RotationKeepsTrack
    <2> QED BY <2>4, <2>5, <2>6, <2>7, <2>8, <2>9, <2>10, <2>11, <2>12, <2>13, <2>14 DEF IInv
  <1> QED BY <1>0, <1>1 DEF RotateTruncate

\* A rotation writes the configuration with the next epoch.
LEMMA RotateWriteInv ==
    ASSUME IInv, NEW p \in Procs, RotateWrite(p)
    PROVE  IInv'
  <1>1. /\ TypeOK /\ Rotates(p) /\ ~proc[p].clean /\ ~Fresh /\ At(p, "write")
        /\ p \in Clis /\ proc[p].epoch + 1 \in Epochs
    BY AtRotation DEF RotateWrite
  <1>2. /\ config' = IF config.state = Missing THEN config ELSE [state |-> "ok", epoch |-> proc[p].epoch + 1]
        /\ Done(p) /\ UNCHANGED <<dir, cache, db, files, rows, session, opens, deleted, undisturbed, late, overlapped, remade>>
    BY DEF RotateWrite, server, history
  <1>3. /\ proc' \in [Procs -> Process] /\ Others(p) /\ proc'[p] = Idle
    BY <1>1, <1>2, DoneProc
  <1>3a. proc'[p].at = "idle" /\ ~proc'[p].clean /\ proc'[p].file = 0
    BY <1>3, IdleType
  <1>4. /\ config' \in [state: FileStates, epoch: Epochs]
        /\ config.state = Missing => config' = config
        /\ config.state # Missing => config'.state = "ok" /\ config'.epoch = proc[p].epoch + 1
        /\ config'.state = Missing <=> config.state = Missing
    BY <1>1, <1>2 DEF TypeOK, FileStates, Missing
  <1>5. ~overlapped =>
            /\ \A c \in Procs : c # p => ~Rotates(c)
            /\ \A b \in DOMAIN rows \ late : rows[b] = proc[p].epoch + 1
    BY <1>1 DEF IInv, RotationAlone, RotationDone, At
  <1> USE <1>1, <1>2, <1>3, <1>3a, <1>4 DEF IInv, Others, At
  <1>6. TypeOK'
    BY DEF TypeOK
  <1>7. WithinBounds'
    BY StaysWithinBounds DEF Rotating
  <1>8. DeletedIsGone'
    BY DEF DeletedIsGone, Rotates, Rotating
  <1>9. OpensLookedBefore'
    BY DEF OpensLookedBefore, Opening, NoSession
  <1>10. OpensUndisturbed'
    BY DEF OpensUndisturbed, Deletes, Deleting, Opening
  <1>11. SessionUndisturbed'
    BY DEF SessionUndisturbed, Deletes, Deleting
  <1>12. SessionBacked'
    BY DEF SessionBacked
  <1>13. FreshIsEmpty'
    BY DEF FreshIsEmpty, Fresh, At
  <1>14. RotationAlone'
    BY <1>5 DEF RotationAlone, Rotates, Rotating
  <1>15. RotationDone'
    BY <1>5 DEF RotationDone, Rotates, Rotating
  <1>16. RotationKeepsTrack'
    BY <1>5 DEF RotationKeepsTrack, Missing
  <1> QED BY <1>6, <1>7, <1>8, <1>9, <1>10, <1>11, <1>12, <1>13, <1>14, <1>15, <1>16 DEF IInv

-----------------------------------------------------------------------------
(* The steps of a mount.                                                    *)

\* What is true of a mount, and stays true of its process when it goes on.
LEMMA MountProc ==
    ASSUME IInv, NEW m \in Procs, NEW point \in Mounting, Goto(m, point),
           proc[m].at \in Mounting \cup {"idle"}
    PROVE  /\ TypeOK /\ proc' \in [Procs -> Process] /\ Others(m)
           /\ proc'[m].at = point /\ ~proc'[m].clean /\ proc'[m].file = proc[m].file
           /\ point \notin Opening \cup Deleting \cup Rotating \cup {"create"}
           /\ proc[m].at \notin Opening \cup Deleting \cup Rotating \cup {"create"}
  <1>1. TypeOK /\ point \in Points
    BY DEF IInv, Points
  <1>2. ~proc[m].clean
    BY DEF IInv, OpensUndisturbed, Opening, Mounting
  <1>3. /\ proc' \in [Procs -> Process] /\ Others(m)
        /\ proc'[m].at = point /\ proc'[m].clean = proc[m].clean /\ proc'[m].file = proc[m].file
    BY <1>1, GotoProc
  <1> QED BY <1>1, <1>2, <1>3 DEF Mounting, Opening, Deleting, Rotating

\* A mount begins or goes on, and leaves everything else as it is.
LEMMA MountGoesInv ==
    ASSUME IInv, NEW m \in Procs, NEW point \in Mounting, Goto(m, point), ~Fresh,
           proc[m].at \in Mounting \cup {"idle"}, UNCHANGED <<disk, server, history>>
    PROVE  IInv'
  <1>1. /\ TypeOK /\ proc' \in [Procs -> Process] /\ Others(m)
        /\ proc'[m].at = point /\ ~proc'[m].clean /\ proc'[m].file = proc[m].file
        /\ point \notin Opening \cup Deleting \cup Rotating \cup {"create"}
        /\ proc[m].at \notin Opening \cup Deleting \cup Rotating \cup {"create"}
    BY MountProc
  <1>2. /\ \A p \in Procs : proc'[p] = proc[p] \/ p = m
        /\ UNCHANGED <<dir, cache, config, db, files, rows, session, opens, deleted, undisturbed, late, overlapped, remade>>
    BY <1>1 DEF Others, disk, server, history
  <1> USE <1>1, <1>2 DEF IInv
  <1>3. TypeOK'
    BY DEF TypeOK
  <1>4. WithinBounds'
    BY StaysWithinBounds
  <1>5. DeletedIsGone'
    BY DEF DeletedIsGone, Rotates
  <1>6. OpensLookedBefore'
    BY DEF OpensLookedBefore
  <1>7. OpensUndisturbed' /\ SessionUndisturbed' /\ SessionBacked'
    BY DEF OpensUndisturbed, SessionUndisturbed, SessionBacked, Deletes
  <1>8. FreshIsEmpty'
    BY DEF FreshIsEmpty, Fresh, At
  <1>9. RotationAlone'
    BY DEF RotationAlone, Rotates, Deletes, At, Attached
  <1>10. RotationDone' /\ RotationKeepsTrack'
    BY DEF RotationDone, RotationKeepsTrack, At, Rotating
  <1> QED BY <1>3, <1>4, <1>5, <1>6, <1>7, <1>8, <1>9, <1>10

\* What is true of a mount that is under way: the volume had its configuration.
LEMMA MountNotFresh ==
    ASSUME IInv, NEW m \in Procs, proc[m].at \in Mounting
    PROVE  ~Fresh
  BY DEF IInv, FreshIsEmpty, Mounting

\* A mount makes the directories, those of a deleted volume too.
LEMMA MakeCacheDirInv ==
    ASSUME IInv, NEW m \in Procs, proc[m].at \in Mounting, MakeCacheDir, Goto(m, "mounted")
    PROVE  IInv'
  <1>0. "mounted" \in Mounting /\ ~Fresh
    BY MountNotFresh DEF Mounting
  <1>1. /\ TypeOK /\ proc' \in [Procs -> Process] /\ Others(m)
        /\ proc'[m].at = "mounted" /\ ~proc'[m].clean /\ proc'[m].file = proc[m].file
        /\ "mounted" \notin Opening \cup Deleting \cup Rotating \cup {"create"}
        /\ proc[m].at \notin Opening \cup Deleting \cup Rotating \cup {"create"}
    BY <1>0, MountProc
  <1>2. /\ \A p \in Procs : proc'[p] = proc[p] \/ p = m
        /\ UNCHANGED <<config, db, files, rows, session, opens, deleted, undisturbed, late, overlapped>>
        /\ dir' = TRUE /\ cache' = TRUE /\ remade' = (remade \/ (deleted /\ ~dir))
    BY <1>1 DEF Others, MakeCacheDir, server
  <1>3. remade' \in BOOLEAN
    <2>1. remade \in BOOLEAN /\ deleted \in BOOLEAN /\ dir \in BOOLEAN
      BY <1>1 DEF TypeOK
    <2> QED BY <1>2, <2>1, Zenon
  <1> USE <1>0, <1>1, <1>2 DEF IInv
  <1>4. TypeOK'
    BY <1>3 DEF TypeOK
  <1>5. WithinBounds'
    BY StaysWithinBounds
  <1>6. DeletedIsGone'
    BY DEF DeletedIsGone, Rotates
  <1>7. OpensLookedBefore'
    BY DEF OpensLookedBefore
  <1>8. OpensUndisturbed' /\ SessionUndisturbed' /\ SessionBacked'
    BY DEF OpensUndisturbed, SessionUndisturbed, SessionBacked, Deletes
  <1>9. FreshIsEmpty'
    BY DEF FreshIsEmpty, Fresh, At
  <1>10. RotationAlone'
    BY DEF RotationAlone, Rotates, Deletes, At, Attached
  <1>11. RotationDone' /\ RotationKeepsTrack'
    BY DEF RotationDone, RotationKeepsTrack, At, Rotating
  <1> QED BY <1>4, <1>5, <1>6, <1>7, <1>8, <1>9, <1>10, <1>11

\* A mount writes a block.
LEMMA WriteBlockInv ==
    ASSUME IInv, NEW m \in Procs, NEW b \in Blocks, WriteBlock(m, b)
    PROVE  IInv'
  <1>0. At(m, "mounted") /\ Goto(m, "put") /\ "put" \in Mounting /\ proc[m].at \in Mounting
    BY DEF WriteBlock, Mounting, At
  <1>a. CASE ~Attached(m)
    <2>1. UNCHANGED <<disk, server, history>>
      BY <1>a DEF WriteBlock, disk, history
    <2> QED BY <1>0, <2>1, MountNotFresh, MountGoesInv
  <1> SUFFICES ASSUME Attached(m) PROVE IInv'
    BY <1>a
  <1>1. /\ db.state = "ok" /\ b \notin DOMAIN rows
        /\ rows' = [x \in DOMAIN rows \cup {b} |-> IF x = b THEN 0 ELSE rows[x]]
        /\ UNCHANGED <<dir, cache, config, db, files, session, opens, deleted, undisturbed, overlapped, remade>>
    BY DEF WriteBlock, server, Attached
  <1>1a. /\ TypeOK /\ proc' \in [Procs -> Process] /\ Others(m)
         /\ proc'[m].at = "put" /\ ~proc'[m].clean /\ proc'[m].file = proc[m].file
         /\ "put" \notin Opening \cup Deleting \cup Rotating \cup {"create"}
         /\ proc[m].at \notin Opening \cup Deleting \cup Rotating \cup {"create"}
    BY <1>0, MountProc
  <1>1b. \A p \in Procs : proc'[p] = proc[p] \/ p = m
    BY <1>1a DEF Others
  <1>2. ~Fresh /\ 0 \in Epochs
    BY <1>0, MountNotFresh, VolumesAssumption DEF Epochs
  <1>3. late' \in {late \ {b}, late \cup {b}}
    BY DEF WriteBlock
  <1>4. /\ DOMAIN rows' \subseteq Blocks /\ rows' \in [DOMAIN rows' -> Epochs]
        /\ \A a \in DOMAIN rows' \ late' :
             \/ a \in DOMAIN rows \ late /\ rows'[a] = rows[a]
             \/ a = b /\ b \notin late' /\ rows'[a] = 0
    BY <1>1, <1>1a, <1>2, <1>3 DEF TypeOK
  <1>5. b \notin late' => /\ config.state = "ok" /\ config.epoch = 0
                         /\ \A c \in Procs : proc[c].at \notin {"update", "write"}
    BY DEF WriteBlock, IInv, WithinBounds, Rotates, Rotating
  <1> USE <1>1, <1>1a, <1>1b, <1>2, <1>4 DEF IInv
  <1>6. TypeOK'
    BY <1>3 DEF TypeOK
  <1>7. WithinBounds'
    BY StaysWithinBounds
  <1>8. DeletedIsGone'
    BY DEF DeletedIsGone, Rotates
  <1>9. OpensLookedBefore'
    BY DEF OpensLookedBefore
  <1>10. OpensUndisturbed' /\ SessionUndisturbed' /\ SessionBacked'
    BY DEF OpensUndisturbed, SessionUndisturbed, SessionBacked, Deletes
  <1>11. FreshIsEmpty'
    BY DEF FreshIsEmpty, Fresh, At
  <1>12. RotationAlone'
    BY DEF RotationAlone, Rotates, Deletes, At, Attached
  <1>13. RotationDone'
    BY <1>5 DEF RotationDone, At, Rotating
  <1>14. RotationKeepsTrack'
    BY <1>5 DEF RotationKeepsTrack
  <1> QED BY <1>6, <1>7, <1>8, <1>9, <1>10, <1>11, <1>12, <1>13, <1>14

\* Every step of a mount.
LEMMA MountStepInv ==
    ASSUME IInv, NEW m \in Mounts, MountStep(m)
    PROVE  IInv'
  <1>1. m \in Procs /\ {"mount db", "mounted", "put"} \subseteq Mounting /\ "mount cache" \in Points
    BY DEF Procs, Mounting, Points
  <1>2. CASE Mount(m)
    <2>1. ~Fresh /\ proc[m].at = "idle" /\ Goto(m, "mount db") /\ UNCHANGED <<disk, server, history>>
      BY <1>2 DEF Mount, IInv, FreshIsEmpty, Missing, At
    <2> QED BY <1>1, <2>1, MountGoesInv
  <1>3. CASE MountConnect(m)
    <2>1. Connect(m, "mount cache") /\ Connecting(m, "mount cache")
      BY <1>3 DEF MountConnect, Connecting
    <2> QED BY <1>1, <2>1, ConnectInv
  <1>4. CASE MountCache(m) \/ CachePut(m)
    <2>1. proc[m].at \in Mounting /\ MakeCacheDir /\ Goto(m, "mounted")
      BY <1>4 DEF MountCache, CachePut, At, Mounting
    <2> QED BY <1>1, <2>1, MakeCacheDirInv
  <1>5. CASE ReadBlock(m)
    <2>1. proc[m].at \in Mounting /\ Goto(m, "put") /\ UNCHANGED <<disk, server, history>>
      BY <1>5 DEF ReadBlock, At, Mounting
    <2> QED BY <1>1, <2>1, MountNotFresh, MountGoesInv
  <1> QED BY <1>1, <1>2, <1>3, <1>4, <1>5, WriteBlockInv, FailsInv DEF MountStep, Interrupt

-----------------------------------------------------------------------------
(* The end of the server, and every step.                                   *)

\* The server ends.
LEMMA RestartInv ==
    ASSUME IInv, Restart
    PROVE  IInv'
  <1>1. /\ TypeOK /\ session' = NoSession
        /\ UNCHANGED <<dir, cache, config, db, files, rows, opens, deleted, undisturbed, late, overlapped, remade>>
        /\ NoSession.id = 0 /\ NoSession.file = 0
    BY DEF IInv, Restart, disk, history, NoSession
  <1>2. proc' \in [Procs -> Process] /\ \A p \in Procs : proc'[p] = proc[p] \/ proc'[p] = Idle
    BY <1>1, IdleType DEF Restart, TypeOK
  <1>3. \A p \in Procs : proc'[p] = proc[p] \/ (proc'[p].at = "idle" /\ ~proc'[p].clean /\ proc'[p].file = 0)
    BY <1>2, IdleType
  <1> USE <1>1, <1>2, <1>3 DEF IInv
  <1>4. TypeOK'
    <2>1. session' \in [id: 0..opens, file: 0..files]
      BY Bounds, OneMoreFile DEF TypeOK, NoSession
    <2> QED BY <2>1 DEF TypeOK
  <1>5. WithinBounds'
    <2> SUFFICES ASSUME NEW q \in Procs
                 PROVE  proc'[q].file <= files /\ (Rotates(q)' => q \in Clis /\ proc'[q].epoch < MaxEpoch)
      BY DEF WithinBounds
    <2>1. CASE proc'[q] = proc[q]
      BY <2>1 DEF WithinBounds, Rotates
    <2>2. CASE proc'[q].at = "idle" /\ proc'[q].file = 0
      BY <2>2, Bounds DEF Rotates, Rotating
    <2> QED BY <2>1, <2>2
  <1>6. DeletedIsGone'
    BY DEF DeletedIsGone, Rotates, Rotating
  <1>7. OpensLookedBefore'
    BY DEF OpensLookedBefore, Opening, NoSession
  <1>8. OpensUndisturbed'
    BY DEF OpensUndisturbed, Deletes, Deleting, Opening
  <1>9. SessionUndisturbed'
    BY DEF SessionUndisturbed, Deletes, Deleting
  <1>10. SessionBacked'
    BY DEF SessionBacked
  <1>11. FreshIsEmpty'
    BY DEF FreshIsEmpty, Fresh, At
  <1>12. RotationAlone'
    BY DEF RotationAlone, Rotates, Rotating, Deletes, Deleting, At, Attached
  <1>13. RotationDone'
    BY DEF RotationDone, At
  <1>14. RotationKeepsTrack'
    BY DEF RotationKeepsTrack
  <1> QED BY <1>4, <1>5, <1>6, <1>7, <1>8, <1>9, <1>10, <1>11, <1>12, <1>13, <1>14 DEF IInv

-----------------------------------------------------------------------------
(* The theorems.                                                            *)

\* Before anything has happened the invariant holds.
LEMMA InitInv ==
    ASSUME Init
    PROVE  IInv
  <1>1. /\ \A p \in Procs : proc[p] = Idle
        /\ proc \in [Procs -> Process]
    BY IdleType DEF Init
  <1>2. \A p \in Procs : proc[p].at = "idle" /\ ~proc[p].clean /\ proc[p].file = 0 /\ proc[p].todo = {}
    BY <1>1, IdleType
  <1>3. /\ dir = FALSE /\ cache = FALSE /\ config.state = Missing /\ db.state = Missing /\ files = 0 /\ rows = NoRows
        /\ session = NoSession /\ opens = 0 /\ deleted = FALSE /\ undisturbed = FALSE
        /\ late = {} /\ overlapped = FALSE /\ remade = FALSE
    BY DEF Init
  <1>4. TypeOK
    <2>1. config \in [state: FileStates, epoch: Epochs]
      BY VolumesAssumption DEF Init, FileStates, Epochs
    <2>2. db \in [state: FileStates, file: 0..0] /\ session \in [id: 0..0, file: 0..0]
      BY DEF Init, FileStates, NoSession
    <2>3. 0 \in 0..MaxFiles /\ 0 \in 0..MaxOpens
      BY VolumesAssumption
    <2> QED BY <1>1, <1>3, <2>1, <2>2, <2>3, NoRowsType DEF TypeOK
  <1>5. WithinBounds
    <2>1. \A p \in Procs : ~Rotates(p)
      BY <1>2 DEF Rotates, Rotating
    <2>2. \A p \in Procs : proc[p].file = 0
      BY <1>2
    <2>3. \A p \in Procs : proc[p].file <= files
      <3>1. files = 0
        BY <1>3
      <3> QED BY <2>2, <3>1
    <2> QED BY <2>1, <2>3 DEF WithinBounds
  <1>6. DeletedIsGone /\ OpensLookedBefore /\ OpensUndisturbed
    BY <1>2, <1>3 DEF DeletedIsGone, OpensLookedBefore, OpensUndisturbed, Opening
  <1>7. SessionUndisturbed /\ SessionBacked
    BY <1>3 DEF SessionUndisturbed, SessionBacked
  <1>8. FreshIsEmpty
    BY <1>2, <1>3 DEF FreshIsEmpty, At
  <1>9. RotationAlone /\ RotationDone /\ RotationKeepsTrack
    BY <1>2, <1>3 DEF RotationAlone, RotationDone, RotationKeepsTrack, Rotates, Rotating, Missing
  <1> QED BY <1>4, <1>5, <1>6, <1>7, <1>8, <1>9 DEF IInv

\* Every step keeps the invariant.
LEMMA NextInv ==
    ASSUME IInv, [Next]_vars
    PROVE  IInv'
  <1>1. ASSUME NEW t \in Tasks, Request(t)
        PROVE  IInv'
    <2>1. t \in Procs /\ "insert" \in Points
      BY DEF Procs, Points, Opening
    <2>2. CASE OpenDatabase(t)
      <3>1. Connect(t, "insert") /\ Connecting(t, "insert")
        BY <2>2 DEF OpenDatabase, Connecting
      <3> QED BY <2>1, <3>1, ConnectInv
    <2>3. CASE Delete(t)
      <3>1. /\ At(t, "idle") /\ BeginDelete(t) /\ undisturbed' = undisturbed /\ session = NoSession
            /\ UNCHANGED <<disk, server, deleted, late, remade>>
        BY <2>3 DEF Delete
      <3> QED BY <2>1, <3>1, BeginDeleteInv
    <2> QED BY <1>1, <2>1, <2>2, <2>3, CreateInv, CreateConfigInv, OpenInv, ReadConfigInv, InsertInv,
               CloseInv DEF Request
  <1>2. ASSUME NEW c \in Clis, Command(c)
        PROVE  IInv'
    <2>1. c \in Procs /\ "rotate list" \in Points
      BY DEF Procs, Points, Rotating
    <2>2. CASE RotateConnect(c)
      <3>1. Connect(c, "rotate list") /\ Connecting(c, "rotate list")
        BY <2>2 DEF RotateConnect, Connecting
      <3> QED BY <2>1, <3>1, ConnectInv
    <2>3. CASE DeleteByCli(c)
      <3>1. /\ At(c, "idle") /\ BeginDelete(c) /\ undisturbed' = FALSE
            /\ UNCHANGED <<disk, server, deleted, late, remade>>
        BY <2>3 DEF DeleteByCli
      <3> QED BY <2>1, <3>1, BeginDeleteInv
    <2> QED BY <1>2, <2>1, <2>2, <2>3, RotateInv, RotateListInv, RotateUpdateInv, RotateTruncateInv,
               RotateWriteInv, FailsInv DEF Command, Interrupt
  <1>3. ASSUME NEW p \in Procs, DeleteStep(p)
        PROVE  IInv'
    BY <1>3, ListInv, FailsInv, RemoveRestInv, RemoveDirInv, ShredInv, ShredAgainInv, UnlinkInv
       DEF DeleteStep, ShredCache
  <1>4. CASE UNCHANGED vars
    <2>1. UNCHANGED <<dir, cache, config, db, files, rows, session, opens, proc, deleted, undisturbed, late, overlapped, remade>>
      BY <1>4 DEF vars, disk, server, history
    <2> USE <2>1 DEF IInv
    <2>2. TypeOK' /\ WithinBounds' /\ DeletedIsGone'
      BY DEF TypeOK, WithinBounds, DeletedIsGone, Rotates
    <2>3. OpensLookedBefore' /\ OpensUndisturbed' /\ SessionUndisturbed' /\ SessionBacked'
      BY DEF OpensLookedBefore, OpensUndisturbed, SessionUndisturbed, SessionBacked, Deletes
    <2>4. FreshIsEmpty'
      BY DEF FreshIsEmpty, Fresh, At
    <2>5. RotationAlone' /\ RotationDone' /\ RotationKeepsTrack'
      BY DEF RotationAlone, RotationDone, RotationKeepsTrack, At, Attached, Rotates, Deletes
    <2> QED BY <2>2, <2>3, <2>4, <2>5
  <1> QED BY <1>1, <1>2, <1>3, <1>4, MountStepInv, RestartInv DEF Next

\* The invariant holds in every state.
LEMMA Invariance == Spec => []IInv
  BY InitInv, NextInv, PTL DEF Spec

\* Every variable keeps its type: no file of a directory that is gone is there,
\* and no row outlives its database.
THEOREM VolumesTypeOK == Spec => []TypeOK
  <1>1. IInv => TypeOK
    BY DEF IInv
  <1> QED BY Invariance, <1>1, PTL

\* A volume whose delete has replied success can be opened again only if a key
\* rotation ran into a delete and a mount made the directory again, whatever the
\* requests, commands and mounts are and wherever they are interrupted.
THEOREM DestroyedStaysDestroyed == Spec => []DestroyedForGood
  <1>1. IInv => DestroyedForGood
    BY DEF IInv, DeletedIsGone, TypeOK, DestroyedForGood, Missing
  <1> QED BY Invariance, <1>1, PTL

\* The session that requests are given works on the database in the directory,
\* unless a delete overlapped its opening or came from the command line.
THEOREM SessionsStayBacked == Spec => []SessionBacked
  <1>1. IInv => SessionBacked
    BY DEF IInv
  <1> QED BY Invariance, <1>1, PTL

\* Rotations that overlap neither each other nor a delete leave every row at
\* the epoch of the configuration or at the next, for any number of rows and of
\* interrupted and repeated rotations.
THEOREM RotationsKeepTrack == Spec => []RotationKeepsTrack
  <1>1. IInv => RotationKeepsTrack
    BY DEF IInv
  <1> QED BY Invariance, <1>1, PTL

\* The only step that puts a session into the map is the last one of open.
LEMMA OnlyInsertOpens ==
    ASSUME IInv, [Next]_vars
    PROVE  \/ session' \in {session, NoSession}
           \/ \E t \in Tasks : Insert(t)
  <1>1. ASSUME NEW p, NEW point, Connect(p, point)
        PROVE  session' = session
    BY <1>1 DEF Connect, Fails, server
  <1>2. ASSUME NEW t \in Tasks, Request(t)
        PROVE  session' \in {session, NoSession} \/ Insert(t)
    BY <1>1, <1>2 DEF Request, Create, CreateConfig, Open, ReadConfig, OpenDatabase, Close, Delete, Fails, server
  <1>3. ASSUME NEW c \in Clis, Command(c)
        PROVE  session' = session
    BY <1>1, <1>3 DEF Command, DeleteByCli, Rotate, RotateConnect, RotateList, RotateUpdate, RotateTruncate,
                      RotateWrite, Interrupt, Fails, server
  <1>4. ASSUME NEW p \in Procs, DeleteStep(p)
        PROVE  session' = session
    BY <1>4 DEF DeleteStep, List, ShredCache, RemoveRest, RemoveDir, Shred, ShredAgain, Unlink, Fails, server
  <1>5. ASSUME NEW m \in Mounts, MountStep(m)
        PROVE  session' = session
    BY <1>1, <1>5 DEF MountStep, Mount, MountConnect, MountCache, WriteBlock, ReadBlock, CachePut, MakeCacheDir,
                      Interrupt, Fails, server
  <1>6. Restart \/ UNCHANGED vars => session' \in {session, NoSession}
    BY DEF Restart, vars, server
  <1> QED BY <1>2, <1>3, <1>4, <1>5, <1>6 DEF Next

\* A session that is in the map is replaced only by an open that had looked
\* for one before that session was there, for any number of requests.
THEOREM SessionsReplacedOnlyInRace == Spec => ReplacedOnlyInRace
  <1>1. ASSUME IInv, [Next]_vars, session # NoSession, session'.id > session.id
        PROVE  \E t \in Tasks : At(t, "insert") /\ proc[t].seen < session.id
    <2>1. session.id \in Nat /\ NoSession.id = 0
      BY <1>1, Bounds DEF IInv, TypeOK, NoSession
    <2>2. session' # session /\ session' # NoSession
      BY <1>1, <2>1
    <2>3. PICK t \in Tasks : Insert(t)
      BY <1>1, <2>2, OnlyInsertOpens
    <2>4. t \in Procs /\ At(t, "insert") /\ proc[t].at \in Opening
      BY <2>3 DEF Procs, Insert, At, Opening
    <2> QED BY <1>1, <2>4 DEF IInv, OpensLookedBefore
  <1> QED BY <1>1, Invariance, PTL DEF Spec, ReplacedOnlyInRace
=============================================================================
