------------------------------ MODULE Volumes ------------------------------
(***************************************************************************)
(* One volume: its directory with volume.json, metadata.db and the cache's *)
(* directory (manager), the server's session of it (SessionManager), the   *)
(* requests that create, open, close and delete it, and the command line's *)
(* delete, key rotation and mount, which run in processes of their own and *)
(* know nothing of the server's sessions.                                  *)
(*                                                                         *)
(* open checks for a session, reads the configuration and opens the        *)
(* database in steps between which every other request can run; delete     *)
(* shreds file after file; rotate updates row after row and then rewrites  *)
(* the configuration.  Processes end between any two of these steps.       *)
(***************************************************************************)
EXTENDS Naturals, FiniteSets

CONSTANTS
    Tasks,     \* requests the server works on
    Clis,      \* processes of the command line that delete or rotate
    Mounts,    \* processes of the command line that mount the volume
    Blocks,    \* rows the blocks table can have
    MaxFiles,  \* bound: on the database files ever created
    MaxOpens,  \* bound: on the sessions ever opened
    MaxEpoch   \* bound: on the epoch of the configuration

ASSUME VolumesAssumption ==
    /\ Tasks \cap Clis = {} /\ Mounts \cap (Tasks \cup Clis) = {}
    /\ MaxFiles \in Nat /\ MaxOpens \in Nat /\ MaxEpoch \in Nat

Procs == Tasks \cup Clis \cup Mounts
Epochs == 0..MaxEpoch
Missing == "missing"   \* no such file
Garbled == "garbled"   \* shredded or cut off: neither parses nor opens

FileStates == {"ok", Missing, Garbled}
NoRows == [b \in {} |-> 0]

VARIABLES
    dir,         \* the volume's directory exists
    cache,       \* ... and the cache's directory in it
    config,      \* volume.json: [state: "ok", Garbled or Missing, epoch]
    db,          \* metadata.db: [state, file: which of the files created it is]
    files,       \* how many database files have been created
    rows,        \* block -> the epoch of its row in the intact database
    session,     \* SessionManager.sessions: [id, file], id 0 when there is none
    opens,       \* how many sessions have been opened
    proc,        \* what each request or command is doing
    deleted,     \* history: a delete has replied success
    undisturbed, \* history: no delete overlapped the opening of the session, and
                 \* no command line delete has begun since
    late,        \* history: blocks written after a rotation had listed epoch 0
    overlapped,  \* history: a rotation ran together with another or with a delete
    remade       \* history: a mount has made the directory of a deleted volume again

disk == <<dir, cache, config, db, files, rows>>
server == <<session, opens>>
history == <<deleted, undisturbed, late, overlapped, remade>>
vars == <<disk, server, proc, history>>

Opening == {"config", "db", "insert"}
Deleting == {"list", "shred", "unlink config", "unlink db", "rmdir"}
Rotating == {"rotate db", "rotate list", "update", "write"}
Mounting == {"mount db", "mount cache", "mounted", "put"}
Points == {"idle", "create"} \cup Opening \cup Deleting \cup Rotating \cup Mounting

\* at: the step it takes next; seen: the sessions opened when it looked for
\* one; file: the database file it has opened; epoch: that of the configuration
\* it has read; todo: the files or the rows it has listed; clean: no delete has
\* overlapped it.
Process == [at: Points, seen: 0..MaxOpens, file: 0..MaxFiles, epoch: Epochs,
            todo: SUBSET ({"config", "db"} \cup Blocks), clean: BOOLEAN]
Idle == [at |-> "idle", seen |-> 0, file |-> 0, epoch |-> 0, todo |-> {}, clean |-> FALSE]

TypeOK ==
    /\ dir \in BOOLEAN /\ cache \in BOOLEAN
    /\ config \in [state: FileStates, epoch: Epochs]
    /\ db \in [state: FileStates, file: 0..files]
    /\ files \in 0..MaxFiles
    /\ DOMAIN rows \subseteq Blocks /\ rows \in [DOMAIN rows -> Epochs]
    /\ session \in [id: 0..opens, file: 0..files]
    /\ opens \in 0..MaxOpens
    /\ proc \in [Procs -> Process]
    /\ deleted \in BOOLEAN /\ undisturbed \in BOOLEAN /\ overlapped \in BOOLEAN /\ remade \in BOOLEAN
    /\ late \subseteq Blocks
    /\ ~dir => ~cache /\ config.state = Missing /\ db.state = Missing
    /\ db.state # "ok" => rows = NoRows

-----------------------------------------------------------------------------
(* The parts of the steps.                                                  *)

At(p, point) == proc[p].at = point
Goto(p, point) == proc' = [proc EXCEPT ![p].at = point]

\* The request or command ends, with or without an error.
Done(p) == proc' = [proc EXCEPT ![p] = Idle]

\* It ends with an error: everything else stays as it is.
Fails(p) == Done(p) /\ UNCHANGED <<disk, server, history>>

NoSession == [id |-> 0, file |-> 0]
Deletes(p) == proc[p].at \in Deleting
Rotates(p) == proc[p].at \in Rotating

\* Connection::open and initialize_database: a file that is missing is created
\* in a directory that exists.
Connect(p, point) ==
    \/ /\ db.state = "ok"
       /\ proc' = [proc EXCEPT ![p].at = point, ![p].file = db.file]
       /\ UNCHANGED <<disk, server, history>>
    \/ /\ dir /\ db.state = Missing /\ files < MaxFiles
       /\ files' = files + 1
       /\ db' = [state |-> "ok", file |-> files + 1]
       /\ rows' = NoRows
       /\ proc' = [proc EXCEPT ![p].at = point, ![p].file = files + 1]
       /\ UNCHANGED <<dir, cache, config, server, history>>
    \/ ~dir /\ Fails(p)
    \/ db.state = Garbled /\ Fails(p)

-----------------------------------------------------------------------------
(* create_volume, and SessionManager::open and close.                       *)

\* The directories are made under a new id.
Create(t) ==
    /\ At(t, "idle")
    /\ ~dir /\ ~deleted
    /\ dir' = TRUE /\ cache' = TRUE
    /\ Goto(t, "create")
    /\ UNCHANGED <<config, db, files, rows, server, history>>

\* The keys are derived and the configuration is written.
CreateConfig(t) ==
    /\ At(t, "create")
    /\ IF dir
         THEN /\ config' = [state |-> "ok", epoch |-> 0]
              /\ Done(t)
              /\ UNCHANGED <<dir, cache, db, files, rows, server, history>>
         ELSE Fails(t)

\* Mutant: open does not look for a session.
OpenUnchecked(t) ==
    /\ At(t, "idle")
    /\ opens < MaxOpens
    /\ proc' = [proc EXCEPT ![t] = [Idle EXCEPT !.at = "config", !.seen = opens,
                                                !.clean = \A p \in Procs : ~Deletes(p)]]
    /\ UNCHANGED <<disk, server, history>>

\* A volume that has a session is refused.
Open(t) ==
    /\ At(t, "idle")
    /\ opens < MaxOpens
    /\ session = NoSession
    /\ proc' = [proc EXCEPT ![t] = [Idle EXCEPT !.at = "config", !.seen = opens,
                                                !.clean = \A p \in Procs : ~Deletes(p)]]
    /\ UNCHANGED <<disk, server, history>>

\* open_volume; the password can be wrong.
ReadConfig(t) ==
    /\ At(t, "config")
    /\ \/ config.state = "ok" /\ Goto(t, "db") /\ UNCHANGED <<disk, server, history>>
       \/ Fails(t)

OpenDatabase(t) == At(t, "db") /\ Connect(t, "insert")

\* The session is put into the map, whatever is there.
Insert(t) ==
    /\ At(t, "insert")
    /\ opens < MaxOpens
    /\ opens' = opens + 1
    /\ session' = [id |-> opens + 1, file |-> proc[t].file]
    /\ undisturbed' = proc[t].clean
    /\ Done(t)
    /\ UNCHANGED <<disk, deleted, late, overlapped, remade>>

Close(t) ==
    /\ At(t, "idle")
    /\ session # NoSession
    /\ session' = NoSession
    /\ UNCHANGED <<disk, opens, proc, history>>

-----------------------------------------------------------------------------
(* delete_volume.                                                           *)

\* Every open that is under way is overlapped by the delete that begins.
BeginDelete(p) ==
    /\ proc' = [q \in Procs |-> IF q = p THEN [Idle EXCEPT !.at = "list"]
                                ELSE [proc[q] EXCEPT !.clean = FALSE]]
    /\ overlapped' = (overlapped \/ \E c \in Clis : Rotates(c))

\* Mutant: the handler does not look for a session.
DeleteUnchecked(t) ==
    At(t, "idle") /\ BeginDelete(t) /\ UNCHANGED <<disk, server, deleted, undisturbed, late, remade>>

\* The handler's check (the map of mounted volumes that VolumeService looks at
\* next is always empty).
Delete(t) ==
    /\ At(t, "idle")
    /\ session = NoSession
    /\ BeginDelete(t)
    /\ UNCHANGED <<disk, server, deleted, undisturbed, late, remade>>

\* The command line's process has no sessions to look at.
DeleteByCli(c) ==
    /\ At(c, "idle")
    /\ BeginDelete(c)
    /\ undisturbed' = FALSE
    /\ UNCHANGED <<disk, server, deleted, late, remade>>

Exists(f) == IF f = "config" THEN config.state # Missing ELSE db.state # Missing

\* shred_directory lists the directory.
List(p) ==
    /\ At(p, "list")
    /\ IF dir
         THEN /\ proc' = [proc EXCEPT ![p].at = "shred",
                                      ![p].todo = {f \in {"config", "db"} : Exists(f)}]
              /\ UNCHANGED <<disk, server, history>>
         ELSE Fails(p)

\* A file's contents become state, or the file goes away.
Leave(f, state) ==
    /\ IF f = "config" THEN config' = [config EXCEPT !.state = state] /\ UNCHANGED <<db, rows>>
       ELSE /\ db' = [db EXCEPT !.state = state]
            /\ rows' = NoRows
            /\ UNCHANGED config
    /\ UNCHANGED <<dir, cache, files>>

Unlinking(f) == IF f = "config" THEN "unlink config" ELSE "unlink db"

\* shred_file: the first pass over one of the listed files, in any order.
Shred(p, f) ==
    /\ At(p, "shred") /\ f \in proc[p].todo
    /\ IF Exists(f)
         THEN /\ Leave(f, Garbled)
              /\ proc' = [proc EXCEPT ![p].at = Unlinking(f), ![p].todo = @ \ {f}]
              /\ UNCHANGED <<server, history>>
         ELSE Fails(p)

\* The cache's directory is listed too.  Shredding the files in it changes
\* nothing here, but fails when one goes away under it.
ShredCache(p) == At(p, "shred") /\ Fails(p)

\* The later passes: each creates the file anew if it has gone meanwhile.
ShredAgain(p, f) ==
    /\ At(p, Unlinking(f))
    /\ \/ (Exists(f) \/ (dir /\ f = "config")) /\ Leave(f, Garbled) /\ UNCHANGED <<server, proc, history>>
       \/ /\ f = "db" /\ dir /\ ~Exists(f) /\ files < MaxFiles
          /\ files' = files + 1
          /\ db' = [state |-> Garbled, file |-> files + 1]
          /\ UNCHANGED <<dir, cache, config, rows, server, proc, history>>
       \/ ~dir /\ Fails(p)

\* ... and its removal.
Unlink(p, f) ==
    /\ At(p, Unlinking(f))
    /\ IF Exists(f)
         THEN Leave(f, Missing) /\ Goto(p, "shred") /\ UNCHANGED <<server, history>>
         ELSE Fails(p)

\* remove_dir_all removes what has been put into the directory since ...
RemoveRest(p) ==
    /\ At(p, "shred") /\ proc[p].todo = {}
    /\ IF dir
         THEN /\ config' = [config EXCEPT !.state = Missing]
              /\ db' = [db EXCEPT !.state = Missing]
              /\ rows' = NoRows
              /\ cache' = FALSE
              /\ Goto(p, "rmdir")
              /\ UNCHANGED <<dir, files, server, history>>
         ELSE Fails(p)

\* Mutant: a directory that cannot be removed is passed over.
RemoveDirAnyway(p) ==
    /\ At(p, "rmdir")
    /\ dir' = (dir /\ (Exists("config") \/ Exists("db") \/ cache))
    /\ deleted' = TRUE
    /\ Done(p)
    /\ UNCHANGED <<cache, config, db, files, rows, server, undisturbed, late, overlapped, remade>>

\* ... and the directory, if it is empty.
RemoveDir(p) ==
    /\ At(p, "rmdir")
    /\ IF dir /\ ~Exists("config") /\ ~Exists("db") /\ ~cache
         THEN /\ dir' = FALSE
              /\ deleted' = TRUE
              /\ Done(p)
              /\ UNCHANGED <<cache, config, db, files, rows, server, undisturbed, late, overlapped, remade>>
         ELSE Fails(p)

-----------------------------------------------------------------------------
(* key rotate.                                                              *)

\* open_volume.
Rotate(c) ==
    /\ At(c, "idle")
    /\ config.state = "ok" /\ config.epoch < MaxEpoch
    /\ proc' = [proc EXCEPT ![c] = [Idle EXCEPT !.at = "rotate db", !.epoch = config.epoch]]
    /\ overlapped' = (overlapped \/ \E p \in Procs : Rotates(p) \/ Deletes(p))
    /\ UNCHANGED <<disk, server, deleted, undisturbed, late, remade>>

RotateConnect(c) == At(c, "rotate db") /\ Connect(c, "rotate list")

\* The connection c works on is the intact database of the directory.
Attached(c) == proc[c].file = db.file /\ db.state = "ok"

\* The connection c works on is to a file that has been shredded.
Broken(c) == proc[c].file = db.file /\ db.state = Garbled

\* list_by_epoch.  A file that was unlinked in between shows no rows here.
RotateList(c) ==
    /\ At(c, "rotate list")
    /\ IF Broken(c)
         THEN Fails(c)
         ELSE /\ proc' = [proc EXCEPT ![c].at = "update", ![c].todo =
                            {b \in DOMAIN rows : Attached(c) /\ rows[b] = proc[c].epoch}]
              /\ UNCHANGED <<disk, server, history>>

\* update_block_epoch, one statement for every row.
RotateUpdate(c, b) ==
    /\ At(c, "update") /\ b \in proc[c].todo
    /\ IF Broken(c)
         THEN Fails(c)
         ELSE /\ rows' = IF Attached(c) /\ b \in DOMAIN rows
                           THEN [rows EXCEPT ![b] = proc[c].epoch + 1] ELSE rows
              /\ proc' = [proc EXCEPT ![c].todo = @ \ {b}]
              /\ UNCHANGED <<dir, cache, config, db, files, server, history>>

Cut == config' = [config EXCEPT !.state = Garbled]

\* Mutant: the configuration is rewritten before the rows are done.
RotateTruncateEarly(c) ==
    /\ At(c, "update")
    /\ IF dir
         THEN Cut /\ Goto(c, "write") /\ UNCHANGED <<dir, cache, db, files, rows, server, history>>
         ELSE Fails(c)

\* fs::write cuts the file off, or creates it, ...
RotateTruncate(c) ==
    /\ At(c, "update") /\ proc[c].todo = {}
    /\ IF dir
         THEN Cut /\ Goto(c, "write") /\ UNCHANGED <<dir, cache, db, files, rows, server, history>>
         ELSE Fails(c)

\* ... and writes the configuration with the next epoch, into a file that may
\* have been unlinked.
RotateWrite(c) ==
    /\ At(c, "write")
    /\ config' = IF config.state = Missing THEN config ELSE [state |-> "ok", epoch |-> proc[c].epoch + 1]
    /\ Done(c)
    /\ UNCHANGED <<dir, cache, db, files, rows, server, history>>

-----------------------------------------------------------------------------
(* volume mount.                                                            *)

\* open_volume, after the password has been asked for.
Mount(m) ==
    /\ At(m, "idle")
    /\ config.state = "ok"
    /\ Goto(m, "mount db")
    /\ UNCHANGED <<disk, server, history>>

MountConnect(m) == At(m, "mount db") /\ Connect(m, "mount cache")

\* create_dir_all makes the cache's directory, and the volume's if need be.
MakeCacheDir ==
    /\ dir' = TRUE /\ cache' = TRUE
    /\ remade' = (remade \/ (deleted /\ ~dir))
    /\ UNCHANGED <<config, db, files, rows, server, deleted, undisturbed, late, overlapped>>

\* BlockCache::new; then the file system is mounted.
MountCache(m) == At(m, "mount cache") /\ MakeCacheDir /\ Goto(m, "mounted")

\* flush_to_transport inserts a block's row, at its current_epoch of 0, unless
\* the database has been shredded; one that was unlinked takes it unseen.
WriteBlock(m, b) ==
    /\ At(m, "mounted") /\ ~Broken(m)
    /\ IF Attached(m)
         THEN /\ b \notin DOMAIN rows
              /\ rows' = [x \in DOMAIN rows \cup {b} |-> IF x = b THEN 0 ELSE rows[x]]
              /\ late' = IF config.state = "ok" /\ config.epoch = 0
                            /\ \A c \in Clis : ~(proc[c].at \in {"update", "write"})
                           THEN late \ {b} ELSE late \cup {b}
         ELSE UNCHANGED <<rows, late>>
    /\ Goto(m, "put")
    /\ UNCHANGED <<dir, cache, config, db, files, server, deleted, undisturbed, overlapped, remade>>

\* download_block.
ReadBlock(m) == At(m, "mounted") /\ Goto(m, "put") /\ UNCHANGED <<disk, server, history>>

\* Either ends with cache.put, whose block_path makes the directories.
CachePut(m) == At(m, "put") /\ MakeCacheDir /\ Goto(m, "mounted")

-----------------------------------------------------------------------------
\* The server ends, and all it was working on.
Restart ==
    /\ session' = NoSession
    /\ proc' = [p \in Procs |-> IF p \in Tasks THEN Idle ELSE proc[p]]
    /\ UNCHANGED <<disk, opens, history>>

\* A command is interrupted, or the file system is unmounted.
Interrupt(c) == ~At(c, "idle") /\ Fails(c)

Init ==
    /\ dir = FALSE /\ cache = FALSE /\ config = [state |-> Missing, epoch |-> 0]
    /\ db = [state |-> Missing, file |-> 0] /\ files = 0
    /\ rows = NoRows
    /\ session = NoSession /\ opens = 0
    /\ proc = [p \in Procs |-> Idle]
    /\ deleted = FALSE /\ undisturbed = FALSE /\ late = {} /\ overlapped = FALSE /\ remade = FALSE

Request(t) ==
    \/ Create(t) \/ CreateConfig(t)
    \/ Open(t) \/ ReadConfig(t) \/ OpenDatabase(t) \/ Insert(t) \/ Close(t)
    \/ Delete(t)

Command(c) ==
    \/ DeleteByCli(c)
    \/ Rotate(c) \/ RotateConnect(c) \/ RotateList(c)
    \/ \E b \in Blocks : RotateUpdate(c, b)
    \/ RotateTruncate(c) \/ RotateWrite(c)
    \/ Interrupt(c)

MountStep(m) ==
    \/ Mount(m) \/ MountConnect(m) \/ MountCache(m)
    \/ \E b \in Blocks : WriteBlock(m, b)
    \/ ReadBlock(m) \/ CachePut(m)
    \/ Interrupt(m)

DeleteStep(p) ==
    \/ List(p) \/ ShredCache(p) \/ RemoveRest(p) \/ RemoveDir(p)
    \/ \E f \in {"config", "db"} : Shred(p, f) \/ ShredAgain(p, f) \/ Unlink(p, f)

Next ==
    \/ \E t \in Tasks : Request(t)
    \/ \E c \in Clis : Command(c)
    \/ \E p \in Procs : DeleteStep(p)
    \/ \E m \in Mounts : MountStep(m)
    \/ Restart

Spec == Init /\ [][Next]_vars

-----------------------------------------------------------------------------
(* Properties.                                                              *)

\* A volume whose delete has replied success can be opened again only if a key
\* rotation ran into the delete and a mount made its directory again: a create, an
\* open or a mount that was under way cannot bring it back.
DestroyedForGood == deleted /\ config.state = "ok" => overlapped /\ remade

\* The session that requests are given works on the database in the volume's
\* directory, unless a delete overlapped its open or came from the command line.
SessionBacked ==
    session # NoSession /\ undisturbed =>
        config.state # Missing /\ db = [state |-> "ok", file |-> session.file]

\* A session is replaced only by an open that had looked for one before that
\* session was there: two requests that both found none.
ReplacedOnlyInRace ==
    [][session # NoSession /\ session'.id > session.id =>
         \E t \in Tasks : At(t, "insert") /\ proc[t].seen < session.id]_vars

\* Rotations that overlap neither each other nor a delete, interrupted and
\* repeated at any step, never lose a row: it is at the configuration's epoch
\* or already at the next one, which the rotation that is repeated passes over,
\* unless a mount wrote it after its epoch had been listed.
RotationKeepsTrack ==
    config.state = "ok" /\ ~overlapped =>
        \A b \in DOMAIN rows \ late : rows[b] \in {config.epoch, config.epoch + 1}
=============================================================================
