---------------------------- MODULE DataDirectory ----------------------------
(* One application data directory and the processes that open, upgrade, use  *)
(* and delete it: the access registry (storage/access.ts), openDatabase      *)
(* (storage/database.ts), migrate (storage/migrations.ts) and                *)
(* deleteOwnedData (storage/delete-data.ts).  Files have identities, so a    *)
(* process may go on using a file that is no longer at its path.  The        *)
(* registry's and the database's immediate transactions are atomic; every    *)
(* other file operation is a step of its own, may fail, and may be the last  *)
(* thing its process does.                                                   *)
EXTENDS FiniteSets, Naturals

CONSTANTS
  Processes,   \* ThreadPort processes; a name is used again after it ended
  Files,       \* identities of the main database file (bound)
  Items,       \* writes that a user has had acknowledged (bound)
  Backups,     \* migration backup directories (bound)
  OldVersion,  \* schema of a database left by an earlier release
  Target,      \* SCHEMA_VERSION
  Nobody, NoFile

ASSUME DirectoryAssumption ==
  /\ Nobody \notin Processes /\ NoFile \notin Files
  /\ OldVersion \in Nat /\ Target \in Nat /\ 0 < OldVersion /\ OldVersion < Target

VARIABLES
  phase,       \* where each process is in openDatabase, use, close or deletion
  registered,  \* connections rows of processes that are alive
  lost,        \* connections rows whose process is dead
  lock,        \* who holds the registry's write lock throughout exclusive()
  main,        \* the file at threadport.sqlite
  handle,      \* the file each process has open
  content,     \* of every file identity: schema version, data, upgrades run
  upgrade,     \* user_version as migrate() read it, and the backup it fills
  backup,      \* of every backup directory: absent, partial or complete
  acked        \* writes acknowledged since the data was last deleted

registry == <<registered, lost, lock>>
disk == <<main, content, backup>>
vars == <<phase, registry, disk, handle, upgrade, acked>>

Phases == {"out", "registered", "opened", "pending", "copying", "saved", "using",
           "closing", "deleting", "closed", "unlinked"}

Blank == [version |-> 0, data |-> {}, upgrades |-> 0]
NoUpgrade == [seen |-> 0, into |-> Nobody]
NoBackup == [state |-> "absent", version |-> 0, data |-> {}]

Present == {b \in Backups : backup[b].state # "absent"}
Goto(p, from, to) == phase[p] = from /\ phase' = [phase EXCEPT ![p] = to]

\* No database yet, or one of an earlier release with something in it.
Init ==
  /\ phase = [p \in Processes |-> "out"]
  /\ registered = {} /\ lost = {} /\ lock = Nobody
  /\ \/ /\ main = NoFile /\ acked = {}
        /\ content = [f \in Files |-> Blank]
     \/ \E f \in Files, i \in Items :
          /\ main = f /\ acked = {i}
          /\ content = [[g \in Files |-> Blank] EXCEPT ![f] = [@ EXCEPT !.version = OldVersion, !.data = {i}]]
  /\ handle = [p \in Processes |-> NoFile]
  /\ upgrade = [p \in Processes |-> NoUpgrade]
  /\ backup = [b \in Backups |-> NoBackup]

-----------------------------------------------------------------------------
(* openDatabase                                                              *)

\* The DatabaseAccess constructor; refused while somebody holds the lock.
\* removeLost keeps the rows of the dead whose pid answers again.
Register(p) ==
  /\ Goto(p, "out", "registered")
  /\ lock = Nobody
  /\ lost' \in SUBSET lost
  /\ registered' = registered \cup {p}
  /\ UNCHANGED <<lock, disk, handle, upgrade, acked>>

\* Weakened form: a new file is put in the place of an existing one.
Replaceable(f) == f = main \/ content[f] = Blank

\* open(path,'wx'): what is there, or a new file where there is none.
Openable(f) == f = main \/ (main = NoFile /\ content[f] = Blank)

OpenMain(p) ==
  /\ Goto(p, "registered", "opened")
  /\ \E f \in Files :
       /\ Openable(f)
       /\ main' = f
       /\ handle' = [handle EXCEPT ![p] = f]
  /\ UNCHANGED <<registry, content, backup, upgrade, acked>>

ReadVersion(p) ==
  LET version == content[handle[p]].version IN
  /\ Goto(p, "opened", IF version = Target THEN "using" ELSE "pending")
  /\ upgrade' = [upgrade EXCEPT ![p].seen = IF version = Target THEN 0 ELSE version]
  /\ UNCHANGED <<registry, disk, handle, acked>>

\* mkdtemp of a fresh backup directory.
BeginBackup(p) ==
  /\ Goto(p, "pending", "copying")
  /\ \E b \in Backups \ Present :
       /\ backup' = [backup EXCEPT ![b].state = "partial"]
       /\ upgrade' = [upgrade EXCEPT ![p].into = b]
  /\ UNCHANGED <<registry, main, content, handle, acked>>

\* Weakened form: the upgrade goes ahead on a copy that is not complete.
FinishBackupEarly(p) ==
  /\ Goto(p, "copying", "saved")
  /\ UNCHANGED <<registry, disk, handle, upgrade, acked>>

\* SQLite's online backup: what is committed when the last page is copied.
FinishBackup(p) ==
  /\ Goto(p, "copying", "saved")
  /\ backup' = [backup EXCEPT ![upgrade[p].into] =
                  [state |-> "complete", version |-> content[handle[p]].version,
                   data |-> content[handle[p]].data]]
  /\ UNCHANGED <<registry, main, content, handle, upgrade, acked>>

\* Weakened form: the version is not read again inside the transaction.
StillPending(p) == TRUE
StillAtVersion(p) == content[handle[p]].version = upgrade[p].seen

Upgraded(c) == [c EXCEPT !.version = Target, !.upgrades = @ + 1]

\* The upgrade transaction: all pending migrations, or none.
Migrate(p) ==
  /\ Goto(p, "saved", "using")
  /\ StillAtVersion(p)
  /\ content' = [content EXCEPT ![handle[p]] = Upgraded(@)]
  /\ upgrade' = [upgrade EXCEPT ![p] = NoUpgrade]
  /\ UNCHANGED <<registry, main, backup, handle, acked>>

\* Any failure on the way, a version that moved on included, closes again.
\* The backup directory stays.
OpenFails(p) ==
  /\ phase[p] \in {"registered", "opened", "pending", "copying", "saved"}
  /\ phase' = [phase EXCEPT ![p] = "closing"]
  /\ handle' = [handle EXCEPT ![p] = NoFile]
  /\ upgrade' = [upgrade EXCEPT ![p] = NoUpgrade]
  /\ UNCHANGED <<registry, disk, acked>>

-----------------------------------------------------------------------------
(* Use and close                                                             *)

Write(p, i) ==
  /\ phase[p] = "using"
  /\ i \notin acked
  /\ content' = [content EXCEPT ![handle[p]].data = @ \cup {i}]
  /\ acked' = acked \cup {i}
  /\ UNCHANGED <<phase, registry, main, backup, handle, upgrade>>

\* Weakened form: the registry row goes first.
CloseRegistryFirst(p) ==
  /\ Goto(p, "using", "closing")
  /\ lock \in {Nobody, p}
  /\ registered' = registered \ {p}
  /\ UNCHANGED <<lost, lock, disk, handle, upgrade, acked>>

\* db.close(): the connection first, the registry row afterwards.
Close(p) ==
  /\ Goto(p, "using", "closing")
  /\ handle' = [handle EXCEPT ![p] = NoFile]
  /\ UNCHANGED <<registry, disk, upgrade, acked>>

Release(p) ==
  /\ Goto(p, "closing", "out")
  /\ lock = Nobody
  /\ registered' = registered \ {p}
  /\ handle' = [handle EXCEPT ![p] = NoFile]
  /\ UNCHANGED <<lost, lock, disk, upgrade, acked>>

\* A crash, a kill, or an exit after a release that the lock refused: SQLite
\* rolls back and unlocks, files and the registry row stay as they are.
Crash(p) ==
  /\ phase[p] # "out"
  /\ phase' = [phase EXCEPT ![p] = "out"]
  /\ handle' = [handle EXCEPT ![p] = NoFile]
  /\ lock' = IF lock = p THEN Nobody ELSE lock
  /\ lost' = IF p \in registered THEN lost \cup {p} ELSE lost
  /\ registered' = registered \ {p}
  /\ upgrade' = [upgrade EXCEPT ![p] = NoUpgrade]
  /\ UNCHANGED <<disk, acked>>

-----------------------------------------------------------------------------
(* deleteOwnedData inside exclusive()                                        *)

\* Weakened form: a process that is still opening the database is overlooked.
NobodyUsing(p) == \A q \in registered \ {p} : phase[q] \notin {"using", "closing"}

\* Weakened form: the rows of dead processes count.
AloneInTable(p) == registered = {p} /\ lost = {}

\* No other row is left once removeLost has looked for dead processes.
Alone(p) == registered = {p}
MayDelete(p) == lock = Nobody /\ Alone(p)

\* A refusal leaves everything as it was: another row, an index lease, an
\* unsettled launch, a busy checkpoint, a file the preflight does not know,
\* and a row whose pid belongs to another program by now.
BeginDelete(p) ==
  /\ Goto(p, "using", "deleting")
  /\ MayDelete(p)
  /\ lock' = p
  /\ UNCHANGED <<registered, lost, disk, handle, upgrade, acked>>

DropBackup(p) ==
  /\ phase[p] = "deleting"
  /\ \E b \in Present : backup' = [backup EXCEPT ![b] = NoBackup]
  /\ UNCHANGED <<phase, registry, main, content, handle, upgrade, acked>>

BackupsDropped == Present = {}

CloseMain(p) ==
  /\ Goto(p, "deleting", "closed")
  /\ BackupsDropped
  /\ handle' = [handle EXCEPT ![p] = NoFile]
  /\ UNCHANGED <<registry, disk, upgrade, acked>>

UnlinkMain(p) ==
  /\ Goto(p, "closed", "unlinked")
  /\ main' = NoFile
  /\ acked' = {}
  /\ UNCHANGED <<registry, content, backup, handle, upgrade>>

\* Weakened form: the registry's transaction stays open.
KeepLocked == UNCHANGED lock
\* The transaction around the deletion ends, however the deletion did.
Unlock == lock' = Nobody

EndDelete(p) ==
  /\ Goto(p, "unlinked", "out")
  /\ Unlock
  /\ registered' = registered \ {p}
  /\ lost' = {}
  /\ UNCHANGED <<disk, handle, upgrade, acked>>

\* A file that cannot be removed: with the database open the service goes on,
\* with the database closed it stops.
DeleteFails(p) ==
  /\ lock = p
  /\ \/ Goto(p, "deleting", "using") /\ UNCHANGED registered
     \/ Goto(p, "closed", "out") /\ registered' = registered \ {p}
  /\ Unlock
  /\ UNCHANGED <<lost, disk, handle, upgrade, acked>>

-----------------------------------------------------------------------------
Next ==
  \E p \in Processes :
    \/ Register(p) \/ OpenMain(p) \/ ReadVersion(p) \/ BeginBackup(p)
    \/ FinishBackup(p) \/ Migrate(p) \/ OpenFails(p)
    \/ \E i \in Items : Write(p, i)
    \/ Close(p) \/ Release(p) \/ Crash(p)
    \/ BeginDelete(p) \/ DropBackup(p) \/ CloseMain(p) \/ UnlinkMain(p)
    \/ EndDelete(p) \/ DeleteFails(p)

Spec == Init /\ [][Next]_vars

-----------------------------------------------------------------------------
(* Properties                                                                *)

Contents == [version : {0, OldVersion, Target}, data : SUBSET Items, upgrades : Nat]

\* Every row, file and process variable keeps its type, and only a process
\* that is deleting holds the registry's lock.
TypeOK ==
  /\ phase \in [Processes -> Phases]
  /\ registered \subseteq Processes /\ lost \subseteq Processes
  /\ lock \in {p \in Processes : phase[p] \in {"deleting", "closed", "unlinked"}} \cup {Nobody}
  /\ main \in Files \cup {NoFile}
  /\ handle \in [Processes -> Files \cup {NoFile}]
  /\ content \in [Files -> Contents]
  /\ upgrade \in [Processes -> [seen : {0, OldVersion}, into : Backups \cup {Nobody}]]
  /\ backup \in [Backups -> [state : {"absent", "partial", "complete"},
                             version : {0, OldVersion, Target}, data : SUBSET Items]]
  /\ acked \subseteq Items

\* t17-data-lifecycle.md: no connection crosses the deletion window.  While a
\* process deletes, nobody else has the database open or is about to open it,
\* however opens, closes, crashes and failed deletions interleave.
DeletesAlone ==
  \A p, q \in Processes : lock = p /\ q # p => phase[q] = "out" /\ handle[q] = NoFile

\* Nobody works on a database file that has been removed from its path, so
\* two processes never keep two different databases.
OneDatabase == \A p \in Processes : handle[p] # NoFile => handle[p] = main

\* delete-data.ts: until the main database goes, as the last file, a failed or
\* interrupted deletion keeps every write that was acknowledged.
AcknowledgedKept == main # NoFile => acked \subseteq content[main].data

\* However many processes have died in whatever they were doing, the last one
\* may delete the data: no row and no lock of a dead process is in its way.
LastOneMayDelete ==
  \A p \in Processes :
    phase[p] = "using" /\ (\A q \in Processes \ {p} : phase[q] = "out") => MayDelete(p)

\* 07-storage-migration.md: of two processes that upgrade at once only one
\* runs the migrations, and a process uses the database only when it is done.
UpgradedOnce ==
  /\ \A f \in Files : content[f].upgrades <= 1
  /\ \A p \in Processes : phase[p] = "using" => content[handle[p]].version = Target

\* What users were told is kept survives deletions that fail and upgrades that
\* race, and the dead never stand in the way of the last process.
DataSurvives == AcknowledgedKept /\ UpgradedOnce /\ LastOneMayDelete

\* A schema is replaced only when a complete backup holds what it replaces.
BackedUp ==
  [][\A f \in Files : content'[f].version # content[f].version =>
       \E b \in Backups : backup[b] = [state |-> "complete", version |-> content[f].version,
                                       data |-> content[f].data]]_vars
=============================================================================
