---------------------------- MODULE Kept_proofs ----------------------------
(* Parts that keep things on disk.  The data directory: its deletion         *)
(* excludes everybody else, everybody who has the database open has the same *)
(* one, what was acknowledged stays, and a schema is replaced once and only  *)
(* after a backup of it, for any number of processes, files, writes and      *)
(* backup directories.  Publication: what stands under a published name is   *)
(* one whole reviewed text, and what its writer was told is true, for any    *)
(* number of writers and versions, with every race, failure, death and loss  *)
(* of power of AtomicPublish.  Evidence: what a handoff says of commands and *)
(* of claims was seen to be so, for any number of workspaces, snapshots,     *)
(* observed processes and claims, pruning and changes of the workspaces at   *)
(* any moment.                                                               *)
EXTENDS DataDirectory, AtomicPublish, Evidence, TLAPS

-----------------------------------------------------------------------------
(* The data directory.                                                       *)

HandlePhases == {"opened", "pending", "copying", "saved", "using", "deleting"}
DeletePhases == {"deleting", "closed", "unlinked"}

\* Whoever does anything has a row; whoever deletes has the lock and the only
\* row; whoever has a file open, and only in these phases, has the one at the
\* path.  The last four conjuncts are what makes it inductive.
Control ==
  /\ phase \in [Processes -> Phases]
  /\ registered \subseteq Processes /\ lost \subseteq Processes
  /\ lock \in {p \in Processes : phase[p] \in DeletePhases} \cup {Nobody}
  /\ main \in Files \cup {NoFile}
  /\ handle \in [Processes -> Files \cup {NoFile}]
  /\ \A p \in Processes : phase[p] # "out" => p \in registered
  /\ \A p \in Processes : lock = p => registered = {p}
  /\ \A p \in Processes : phase[p] \in DeletePhases => lock = p
  /\ \A p \in Processes : handle[p] # NoFile => handle[p] = main
  /\ \A p \in Processes : handle[p] # NoFile <=> phase[p] \in HandlePhases

\* The types of what files contain; Control does not depend on it.
Data ==
  /\ content \in [Files -> Contents]
  /\ upgrade \in [Processes -> [seen : {0, OldVersion}, into : Backups \cup {Nobody}]]
  /\ backup \in [Backups -> [state : {"absent", "partial", "complete"},
                             version : {0, OldVersion, Target}, data : SUBSET Items]]
  /\ acked \subseteq Items
  /\ \A p \in Processes : phase[p] = "copying" => upgrade[p].into \in Backups

\* Both hold initially, with and without a database of an earlier release.
LEMMA InitInv == Init => Control /\ Data
<1> SUFFICES ASSUME Init PROVE Control /\ Data
  OBVIOUS
<1>1. Control
  BY DirectoryAssumption
  DEF Init, Control, Phases, HandlePhases, DeletePhases
<1>2. Blank \in Contents /\ NoBackup \in [state : {"absent", "partial", "complete"},
        version : {0, OldVersion, Target}, data : SUBSET Items]
  BY DEF Blank, Contents, NoBackup
<1>3. content \in [Files -> Contents] /\ acked \subseteq Items
  <2>1. CASE main = NoFile /\ acked = {} /\ content = [f \in Files |-> Blank]
    BY <2>1, <1>2
  <2>2. CASE \E f \in Files, i \in Items :
               /\ main = f /\ acked = {i}
               /\ content = [[g \in Files |-> Blank] EXCEPT
                                ![f] = [@ EXCEPT !.version = OldVersion, !.data = {i}]]
    <3>1. PICK f \in Files, i \in Items :
               /\ main = f /\ acked = {i}
               /\ content = [[g \in Files |-> Blank] EXCEPT
                                ![f] = [@ EXCEPT !.version = OldVersion, !.data = {i}]]
      BY <2>2
    <3>2. [Blank EXCEPT !.version = OldVersion, !.data = {i}] \in Contents
      BY DEF Blank, Contents
    <3> QED BY <3>1, <3>2, <1>2
  <2> QED BY <2>1, <2>2 DEF Init
<1>4. Data
  BY <1>2, <1>3 DEF Init, Data, NoUpgrade
<1> QED BY <1>1, <1>4

\* One case per action: who holds the lock, who has a row, who has the file.
LEMMA NextControl == Control /\ [Next]_vars => Control'
<1> SUFFICES ASSUME Control, [Next]_vars PROVE Control'
  OBVIOUS
<1> USE DirectoryAssumption DEF Control, Phases, HandlePhases, DeletePhases, registry, disk
<1>1. CASE UNCHANGED vars
  BY <1>1 DEF vars
<1>2. ASSUME NEW p \in Processes, Register(p) PROVE Control'
  BY <1>2 DEF Register, Goto
<1>3. ASSUME NEW p \in Processes, OpenMain(p) PROVE Control'
  BY <1>3 DEF OpenMain, Openable, Goto
<1>4. ASSUME NEW p \in Processes, ReadVersion(p) PROVE Control'
  BY <1>4 DEF ReadVersion, Goto
<1>5. ASSUME NEW p \in Processes, BeginBackup(p) \/ FinishBackup(p) \/ Migrate(p) PROVE Control'
  BY <1>5 DEF BeginBackup, FinishBackup, Migrate, Goto
<1>6. ASSUME NEW p \in Processes, OpenFails(p) PROVE Control'
  BY <1>6 DEF OpenFails
<1>7. ASSUME NEW p \in Processes, NEW i \in Items, Write(p, i) PROVE Control'
  BY <1>7 DEF Write
<1>8. ASSUME NEW p \in Processes, Close(p) PROVE Control'
  BY <1>8 DEF Close, Goto
<1>9. ASSUME NEW p \in Processes, Release(p) PROVE Control'
  BY <1>9 DEF Release, Goto
<1>10. ASSUME NEW p \in Processes, Crash(p) PROVE Control'
  BY <1>10 DEF Crash
<1>11. ASSUME NEW p \in Processes, BeginDelete(p) PROVE Control'
  BY <1>11 DEF BeginDelete, MayDelete, Alone, Goto
<1>12. ASSUME NEW p \in Processes, DropBackup(p) PROVE Control'
  BY <1>12 DEF DropBackup
<1>13. ASSUME NEW p \in Processes, CloseMain(p) PROVE Control'
  BY <1>13 DEF CloseMain, Goto
<1>14. ASSUME NEW p \in Processes, UnlinkMain(p) PROVE Control'
  BY <1>14 DEF UnlinkMain, Goto
<1>15. ASSUME NEW p \in Processes, EndDelete(p) PROVE Control'
  BY <1>15 DEF EndDelete, Unlock, Goto
<1>16. ASSUME NEW p \in Processes, DeleteFails(p) PROVE Control'
  BY <1>16 DEF DeleteFails, Unlock, Goto
<1> QED BY <1>1, <1>2, <1>3, <1>4, <1>5, <1>6, <1>7, <1>8, <1>9, <1>10, <1>11, <1>12,
           <1>13, <1>14, <1>15, <1>16 DEF Next

\* What files contain matters to the types only.
LEMMA NextData == Control /\ Data /\ [Next]_vars => Data'
<1> SUFFICES ASSUME Control, Data, [Next]_vars PROVE Data'
  OBVIOUS
<1> USE DirectoryAssumption DEF Data, registry, disk
<1>1. CASE UNCHANGED vars
  BY <1>1 DEF vars
<1>2. ASSUME NEW p \in Processes,
             Register(p) \/ OpenMain(p) \/ Close(p) \/ Release(p) \/ BeginDelete(p)
             \/ CloseMain(p) \/ UnlinkMain(p) \/ EndDelete(p) \/ DeleteFails(p)
      PROVE Data'
  BY <1>2 DEF Control, Register, OpenMain, Close, Release, BeginDelete, CloseMain, UnlinkMain,
              EndDelete, DeleteFails, Goto
<1>3. ASSUME NEW p \in Processes, ReadVersion(p) PROVE Data'
  <2>1. handle[p] \in Files
    BY <1>3 DEF Control, HandlePhases, ReadVersion, Goto
  <2>2. content[handle[p]].version # Target => content[handle[p]].version \in {0, OldVersion}
    BY <2>1 DEF Contents
  <2>3. upgrade' \in [Processes -> [seen : {0, OldVersion}, into : Backups \cup {Nobody}]]
    BY <1>3, <2>2 DEF ReadVersion
  <2> QED BY <1>3, <2>3 DEF ReadVersion, Control, Goto
<1>4. ASSUME NEW p \in Processes, BeginBackup(p) PROVE Data'
  <2>1. PICK b \in Backups :
          /\ backup' = [backup EXCEPT ![b].state = "partial"]
          /\ upgrade' = [upgrade EXCEPT ![p].into = b]
    BY <1>4 DEF BeginBackup, Present
  <2>2. [backup[b] EXCEPT !.state = "partial"]
          \in [state : {"absent", "partial", "complete"},
               version : {0, OldVersion, Target}, data : SUBSET Items]
    OBVIOUS
  <2>3. backup' \in [Backups -> [state : {"absent", "partial", "complete"},
                                version : {0, OldVersion, Target}, data : SUBSET Items]]
    BY <2>1, <2>2
  <2>4. [upgrade[p] EXCEPT !.into = b] \in [seen : {0, OldVersion}, into : Backups \cup {Nobody}]
    OBVIOUS
  <2>5. upgrade' \in [Processes -> [seen : {0, OldVersion}, into : Backups \cup {Nobody}]]
    BY <2>1, <2>4
  <2>6. \A q \in Processes : phase'[q] = "copying" => upgrade'[q].into \in Backups
    BY <1>4, <2>1, <2>4 DEF BeginBackup, Goto, Control
  <2> QED BY <1>4, <2>3, <2>5, <2>6 DEF BeginBackup
<1>5. ASSUME NEW p \in Processes, FinishBackup(p) PROVE Data'
  <2>1. handle[p] \in Files /\ upgrade[p].into \in Backups
    BY <1>5 DEF Control, HandlePhases, FinishBackup, Goto
  <2>2. [state |-> "complete", version |-> content[handle[p]].version, data |-> content[handle[p]].data]
          \in [state : {"absent", "partial", "complete"},
               version : {0, OldVersion, Target}, data : SUBSET Items]
    BY <2>1 DEF Contents
  <2> QED BY <1>5, <2>1, <2>2 DEF FinishBackup, Control, Goto
<1>6. ASSUME NEW p \in Processes, Migrate(p) PROVE Data'
  <2>1. handle[p] \in Files
    BY <1>6 DEF Control, HandlePhases, Migrate, Goto
  <2>2. content[handle[p]].upgrades + 1 \in Nat
    BY <2>1 DEF Contents
  <2>3. Upgraded(content[handle[p]]) \in Contents
    BY <2>1, <2>2 DEF Contents, Upgraded
  <2>4. content' \in [Files -> Contents]
    BY <1>6, <2>1, <2>3 DEF Migrate
  <2>5. NoUpgrade \in [seen : {0, OldVersion}, into : Backups \cup {Nobody}]
    BY DEF NoUpgrade
  <2>6. upgrade' \in [Processes -> [seen : {0, OldVersion}, into : Backups \cup {Nobody}]]
    BY <1>6, <2>5 DEF Migrate
  <2> QED BY <1>6, <2>4, <2>6 DEF Migrate, Control, Goto
<1>7. ASSUME NEW p \in Processes, OpenFails(p) \/ Crash(p) PROVE Data'
  <2>1. NoUpgrade \in [seen : {0, OldVersion}, into : Backups \cup {Nobody}]
    BY DEF NoUpgrade
  <2>2. upgrade' \in [Processes -> [seen : {0, OldVersion}, into : Backups \cup {Nobody}]]
    BY <1>7, <2>1 DEF OpenFails, Crash
  <2>3. \A q \in Processes : phase'[q] = "copying" => upgrade'[q].into \in Backups
    BY <1>7 DEF OpenFails, Crash, Control
  <2> QED BY <1>7, <2>2, <2>3 DEF OpenFails, Crash
<1>8. ASSUME NEW p \in Processes, NEW i \in Items, Write(p, i) PROVE Data'
  <2>1. handle[p] \in Files
    BY <1>8 DEF Control, HandlePhases, Write
  <2>2. content' \in [Files -> Contents]
    BY <1>8, <2>1 DEF Write, Contents
  <2> QED BY <1>8, <2>2 DEF Write
<1>9. ASSUME NEW p \in Processes, DropBackup(p) PROVE Data'
  <2>1. NoBackup \in [state : {"absent", "partial", "complete"},
                     version : {0, OldVersion, Target}, data : SUBSET Items]
    BY DEF NoBackup
  <2> QED BY <1>9, <2>1 DEF DropBackup
<1> QED BY <1>1, <1>2, <1>3, <1>4, <1>5, <1>6, <1>7, <1>8, <1>9 DEF Next

\* The inductive invariant of access.ts and database.ts: rows, locks and file
\* handles of every process agree with the file at the path.
THEOREM Invariance == Spec => [](Control /\ Data)
<1>1. Control /\ Data /\ [Next]_vars => (Control /\ Data)'
  BY NextControl, NextData
<1> QED BY InitInv, <1>1, PTL DEF Spec

\* Rows, files and process variables keep their types (TypeOK of data_delete).
THEOREM TypeCorrect == Spec => []TypeOK
<1>1. Control /\ Data => TypeOK
  BY DEF Control, Data, TypeOK, DeletePhases
<1> QED BY Invariance, <1>1, PTL

\* access.ts, exclusive(): while one process deletes, every other process is
\* out and has no file open, for any number of processes.
THEOREM DeletionExcludesOthers == Spec => []DeletesAlone
<1>1. Control => DeletesAlone
  BY DEF Control, DeletesAlone, HandlePhases
<1> QED BY Invariance, <1>1, PTL

\* database.ts and delete-data.ts: whoever has a database file open has the one
\* at the path, so no two processes use different databases.
THEOREM OneDatabaseForAll == Spec => []OneDatabase
<1>1. Control => OneDatabase
  BY DEF Control, OneDatabase
<1> QED BY Invariance, <1>1, PTL

-----------------------------------------------------------------------------
(* What the deletion and the upgrade leave of the data                       *)

\* Rows of the living; acknowledged writes, which a directory without a
\* database has none of; files that were upgraded once; and who uses a file.
Survival ==
  /\ \A p \in Processes : p \in registered => phase[p] # "out"
  /\ main = NoFile => acked = {}
  /\ AcknowledgedKept
  /\ \A f \in Files : content[f].upgrades <= 1 /\ (content[f].upgrades = 1 => content[f].version = Target)
  /\ \A p \in Processes : phase[p] \in {"using", "deleting"} => content[handle[p]].version = Target

\* Each upgrade under way fills a backup directory of its own, and the copy of
\* a version that is still there is a copy of what is still there: nobody
\* writes to a file before it has the new schema.
Saving(p) == phase[p] \in {"copying", "saved"}
Copied(p) ==
  content[handle[p]].version = upgrade[p].seen =>
    backup[upgrade[p].into] = [state |-> "complete", version |-> content[handle[p]].version,
                               data |-> content[handle[p]].data]
Saved ==
  /\ \A p \in Processes : Saving(p) => upgrade[p].into \in Present
  /\ \A p, q \in Processes : Saving(p) /\ Saving(q) /\ upgrade[p].into = upgrade[q].into => p = q
  /\ \A p \in Processes : phase[p] = "saved" => Copied(p)

\* What each step does to the files: writes add to a file of the new schema,
\* an upgrade replaces a version that is not the new one, the rest leave them.
LEMMA ContentSteps ==
  ASSUME Control, Data, Survival, [Next]_vars
  PROVE  \/ UNCHANGED content
         \/ \E p \in Processes, i \in Items :
              /\ phase[p] = "using" /\ handle[p] = main /\ main \in Files
              /\ content' = [content EXCEPT ![main] = [content[main] EXCEPT !.data = @ \cup {i}]]
              /\ acked' = acked \cup {i}
              /\ UNCHANGED <<phase, registry, main, backup, handle, upgrade>>
         \/ \E p \in Processes : Migrate(p) /\ handle[p] = main /\ main \in Files
<1>1. ASSUME NEW p \in Processes, phase[p] \in HandlePhases PROVE handle[p] = main /\ main \in Files
  BY <1>1 DEF Control
<1>2. ASSUME NEW p \in Processes, NEW i \in Items, Write(p, i)
      PROVE  /\ phase[p] = "using" /\ handle[p] = main /\ main \in Files
             /\ content' = [content EXCEPT ![main] = [content[main] EXCEPT !.data = @ \cup {i}]]
             /\ acked' = acked \cup {i}
             /\ UNCHANGED <<phase, registry, main, backup, handle, upgrade>>
  BY <1>1, <1>2 DEF Write, HandlePhases
<1>3. ASSUME NEW p \in Processes, Migrate(p) PROVE handle[p] = main /\ main \in Files
  BY <1>1, <1>3 DEF Migrate, Goto, HandlePhases
<1>4. ASSUME NEW p \in Processes,
             \/ Register(p) \/ OpenMain(p) \/ ReadVersion(p) \/ BeginBackup(p) \/ FinishBackup(p)
             \/ OpenFails(p) \/ Close(p) \/ Release(p) \/ Crash(p) \/ BeginDelete(p) \/ DropBackup(p)
             \/ CloseMain(p) \/ UnlinkMain(p) \/ EndDelete(p) \/ DeleteFails(p)
      PROVE  UNCHANGED content
  BY <1>4 DEF Register, OpenMain, ReadVersion, BeginBackup, FinishBackup, OpenFails, Close, Release, Crash,
       BeginDelete, DropBackup, CloseMain, UnlinkMain, EndDelete, DeleteFails, disk
<1>5. CASE UNCHANGED vars
  BY <1>5 DEF vars, disk
<1> QED BY <1>2, <1>3, <1>4, <1>5 DEF Next

\* Every step keeps what was acknowledged, and the old schema unwritten.
LEMMA SurvivalKept == Control /\ Data /\ Survival /\ [Next]_vars => Survival'
<1> SUFFICES ASSUME Control, Data, Survival, [Next]_vars PROVE Survival'
  OBVIOUS
<1> USE DirectoryAssumption DEF AcknowledgedKept
<1>1. ASSUME NEW p \in Processes, NEW i \in Items, Write(p, i) PROVE Survival'
  <2>1. /\ phase[p] = "using" /\ handle[p] = main /\ main \in Files /\ acked' = acked \cup {i}
        /\ UNCHANGED <<phase, registered, main, handle>>
    BY <1>1 DEF Write, Control, HandlePhases, registry
  <2>2. /\ content'[main].data = content[main].data \cup {i}
        /\ \A f \in Files : content'[f].version = content[f].version /\ content'[f].upgrades = content[f].upgrades
    BY <1>1, <2>1 DEF Write, Data, Contents
  <2>3. AcknowledgedKept'
    BY <2>1, <2>2 DEF Survival
  <2>4. \A q \in Processes : phase[q] \in {"using", "deleting"} => handle[q] \in Files
    BY DEF Control, HandlePhases
  <2> QED BY <2>1, <2>2, <2>3, <2>4 DEF Survival, Control
<1>2. ASSUME NEW p \in Processes, Migrate(p) PROVE Survival'
  <2>1. /\ phase[p] = "saved" /\ phase'[p] = "using" /\ handle[p] = main /\ main \in Files
        /\ \A q \in Processes \ {p} : phase'[q] = phase[q]
        /\ UNCHANGED <<registered, main, handle, acked>>
    BY <1>2 DEF Migrate, Goto, Control, HandlePhases, registry
  <2>2. content[main].version # Target
    BY <1>2, <2>1 DEF Migrate, StillAtVersion, Data
  <2>3. content[main].upgrades = 0
    <3>1. content[main].upgrades \in Nat
      BY <2>1 DEF Data, Contents
    <3> QED BY <2>1, <2>2, <3>1 DEF Survival
  <2>4. /\ content'[main].version = Target /\ content'[main].upgrades = 1
        /\ content'[main].data = content[main].data
        /\ \A f \in Files \ {main} : content'[f] = content[f]
    BY <1>2, <2>1, <2>3 DEF Migrate, Upgraded, Data, Contents
  <2>5. AcknowledgedKept'
    BY <2>1, <2>4 DEF Survival
  <2>6. ASSUME NEW q \in Processes, phase'[q] \in {"using", "deleting"} PROVE handle[q] = main
    BY <2>1, <2>6 DEF Control, HandlePhases
  <2> QED BY <2>1, <2>4, <2>5, <2>6 DEF Survival
<1>3. ASSUME NEW p \in Processes, OpenMain(p) PROVE Survival'
  <2>1. /\ phase'[p] = "opened" /\ phase[p] = "registered" /\ \A q \in Processes \ {p} : phase'[q] = phase[q]
        /\ UNCHANGED <<registered, content, acked>> /\ main' \in Files
        /\ main' = main \/ (main = NoFile /\ acked = {})
        /\ \A q \in Processes \ {p} : handle'[q] = handle[q]
    BY <1>3 DEF OpenMain, Openable, Goto, registry, Control, Survival
  <2> QED BY <2>1 DEF Survival
<1>4. ASSUME NEW p \in Processes, ReadVersion(p) PROVE Survival'
  BY <1>4 DEF ReadVersion, Goto, registry, disk, Survival, Control
<1>5. ASSUME NEW p \in Processes,
             Register(p) \/ Close(p) \/ Release(p) \/ Crash(p) \/ OpenFails(p) \/ EndDelete(p)
      PROVE  Survival'
  BY <1>5 DEF Register, Close, Release, Crash, OpenFails, EndDelete, Goto, registry, disk, Survival, Control
<1>6. ASSUME NEW p \in Processes,
             \/ BeginBackup(p) \/ FinishBackup(p) \/ BeginDelete(p) \/ DropBackup(p) \/ CloseMain(p)
             \/ UnlinkMain(p) \/ DeleteFails(p)
      PROVE  Survival'
  BY <1>6 DEF BeginBackup, FinishBackup, BeginDelete, DropBackup, CloseMain, UnlinkMain, DeleteFails, Goto,
       registry, disk, Survival, Control, DeletePhases
<1>7. CASE UNCHANGED vars
  BY <1>7 DEF vars, registry, disk, Survival
<1> QED BY <1>1, <1>2, <1>3, <1>4, <1>5, <1>6, <1>7 DEF Next

\* Every step keeps the backups of upgrades under way as full as they were.
LEMMA SavedKept == Control /\ Data /\ Survival /\ Saved /\ [Next]_vars => Saved'
<1> SUFFICES ASSUME Control, Data, Survival, Saved, [Next]_vars PROVE Saved'
  OBVIOUS
<1> USE DirectoryAssumption
<1>0. ASSUME Present' = Present,
             \A q \in Processes : Saving(q)' => Saving(q) /\ upgrade'[q] = upgrade[q],
             \A q \in Processes : phase'[q] = "saved" => Copied(q)'
      PROVE  Saved'
  BY <1>0 DEF Saved
<1>1. ASSUME NEW p \in Processes, NEW i \in Items, Write(p, i) PROVE Saved'
  <2>1. /\ phase[p] = "using" /\ handle[p] = main /\ main \in Files
        /\ UNCHANGED <<phase, main, handle, upgrade, backup>> /\ \A f \in Files : content'[f].version = content[f].version
    BY <1>1 DEF Write, Control, HandlePhases, registry, Data, Contents
  <2>2. ASSUME NEW q \in Processes, phase'[q] = "saved" PROVE Copied(q)'
    <3>1. handle[q] = main /\ content[main].version = Target /\ upgrade[q].seen # Target
      BY <2>1, <2>2 DEF Control, HandlePhases, Survival, Data
    <3> QED BY <2>1, <3>1 DEF Copied
  <2> QED BY <1>0, <2>1, <2>2 DEF Present, Saving
<1>2. ASSUME NEW p \in Processes, Migrate(p) PROVE Saved'
  <2>1. /\ phase[p] = "saved" /\ phase'[p] = "using" /\ handle[p] = main /\ main \in Files
        /\ \A q \in Processes \ {p} : phase'[q] = phase[q] /\ upgrade'[q] = upgrade[q]
        /\ UNCHANGED <<backup, handle>>
    BY <1>2 DEF Migrate, Goto, Control, HandlePhases, registry, Data
  <2>2. content'[main].version = Target
    BY <1>2, <2>1 DEF Migrate, Upgraded, Data, Contents
  <2>3. ASSUME NEW q \in Processes, phase'[q] = "saved" PROVE Copied(q)'
    <3>1. handle[q] = main /\ upgrade'[q].seen # Target
      BY <2>1, <2>3 DEF Control, HandlePhases, Data
    <3> QED BY <2>1, <2>2, <3>1 DEF Copied
  <2> QED BY <1>0, <2>1, <2>3 DEF Present, Saving
<1>3. ASSUME NEW p \in Processes, BeginBackup(p) PROVE Saved'
  <2>1. PICK b \in Backups \ Present :
          /\ backup' = [backup EXCEPT ![b].state = "partial"]
          /\ upgrade' = [upgrade EXCEPT ![p].into = b]
    BY <1>3 DEF BeginBackup
  <2>2. /\ phase'[p] = "copying" /\ \A q \in Processes \ {p} : phase'[q] = phase[q] /\ upgrade'[q] = upgrade[q]
        /\ upgrade'[p].into = b /\ UNCHANGED <<content, handle>>
        /\ backup'[b].state = "partial" /\ \A c \in Backups \ {b} : backup'[c] = backup[c]
    BY <1>3, <2>1 DEF BeginBackup, Goto, Control, Data
  <2>3. Present' = Present \cup {b}
    BY <2>2 DEF Present
  <2>4. \A q \in Processes : Saving(q) => upgrade[q].into # b /\ upgrade[q].into \in Backups
    BY <2>1 DEF Saved, Present
  <2>5. \A q \in Processes \ {p} : Saving(q)' <=> Saving(q)
    BY <2>2 DEF Saving
  <2>6. ASSUME NEW q \in Processes \ {p}, phase'[q] = "saved" PROVE Copied(q)'
    BY <2>2, <2>4, <2>6 DEF Saved, Saving, Copied
  <2> QED BY <2>2, <2>3, <2>4, <2>5, <2>6 DEF Saved
<1>4. ASSUME NEW p \in Processes, FinishBackup(p) PROVE Saved'
  <2>1. /\ phase[p] = "copying" /\ phase'[p] = "saved" /\ \A q \in Processes \ {p} : phase'[q] = phase[q]
        /\ UNCHANGED <<content, handle, upgrade>> /\ upgrade[p].into \in Backups
        /\ backup'[upgrade[p].into] = [state |-> "complete", version |-> content[handle[p]].version,
                                       data |-> content[handle[p]].data]
        /\ \A c \in Backups \ {upgrade[p].into} : backup'[c] = backup[c]
    BY <1>4 DEF FinishBackup, Goto, Control, Data
  <2>2. Present \subseteq Present' /\ \A q \in Processes : Saving(q)' <=> Saving(q)
    BY <2>1 DEF Present, Saving
  <2>3. Saving(p) /\ \A q \in Processes : Saving(q) => upgrade[q].into \in Backups
    BY <2>1 DEF Saved, Saving, Present
  <2>4. ASSUME NEW q \in Processes \ {p}, phase'[q] = "saved" PROVE Copied(q)'
    <3>1. Saving(q) /\ upgrade[q].into # upgrade[p].into /\ Copied(q)
      BY <2>1, <2>3, <2>4 DEF Saved, Saving
    <3> QED BY <2>1, <2>3, <3>1 DEF Copied
  <2>5. Copied(p)'
    BY <2>1 DEF Copied
  <2> QED BY <2>1, <2>2, <2>4, <2>5 DEF Saved
<1>5. ASSUME NEW p \in Processes,
             \/ Register(p) \/ OpenMain(p) \/ ReadVersion(p) \/ Close(p) \/ Release(p) \/ Crash(p)
             \/ OpenFails(p) \/ EndDelete(p) \/ BeginDelete(p) \/ CloseMain(p) \/ UnlinkMain(p) \/ DeleteFails(p)
      PROVE  Saved'
  <2>1. /\ UNCHANGED <<content, backup>>
        /\ \A q \in Processes \ {p} : phase'[q] = phase[q] /\ upgrade'[q] = upgrade[q] /\ handle'[q] = handle[q]
    BY <1>5 DEF Register, OpenMain, ReadVersion, Close, Release, Crash, OpenFails, EndDelete, BeginDelete,
         CloseMain, UnlinkMain, DeleteFails, Goto, registry, disk, Control, Data
  <2>2. phase'[p] \notin {"copying", "saved"}
    BY <1>5 DEF Register, OpenMain, ReadVersion, Close, Release, Crash, OpenFails, EndDelete, BeginDelete,
         CloseMain, UnlinkMain, DeleteFails, Goto, Control
  <2>3. ASSUME NEW q \in Processes, phase'[q] = "saved" PROVE Copied(q)'
    BY <2>1, <2>2, <2>3 DEF Saved, Copied
  <2> QED BY <1>0, <2>1, <2>2, <2>3 DEF Present, Saving
<1>6. ASSUME NEW p \in Processes, DropBackup(p) PROVE Saved'
  <2>1. \A q \in Processes : phase'[q] # "saved" /\ ~Saving(q)'
    BY <1>6 DEF DropBackup, Control, DeletePhases, Saving
  <2> QED BY <2>1 DEF Saved
<1>7. CASE UNCHANGED vars
  <2>1. ASSUME NEW q \in Processes, phase'[q] = "saved" PROVE Copied(q)'
    BY <1>7, <2>1 DEF vars, registry, disk, Saved, Copied
  <2>2. UNCHANGED <<backup, phase, upgrade>>
    BY <1>7 DEF vars, disk
  <2>3. Present' = Present /\ \A q \in Processes : Saving(q)' <=> Saving(q)
    BY <2>2 DEF Present, Saving
  <2> QED BY <2>1, <2>2, <2>3 DEF Saved
<1> QED BY <1>1, <1>2, <1>3, <1>4, <1>5, <1>6, <1>7 DEF Next

\* The inductive invariant of migrations.ts and delete-data.ts: nobody writes
\* to a file of the old schema, and each upgrade fills its own backup.
THEOREM SurvivalInvariance == Spec => [](Survival /\ Saved)
<1>1. Init => Survival /\ Saved
  <2> SUFFICES ASSUME Init PROVE Survival /\ Saved
    OBVIOUS
  <2>1. (\A f \in Files : content[f].upgrades = 0) /\ AcknowledgedKept /\ (main = NoFile => acked = {})
    <3>1. CASE main = NoFile /\ acked = {} /\ content = [f \in Files |-> Blank]
      BY <3>1 DEF Blank, AcknowledgedKept
    <3>2. ASSUME NEW f \in Files, NEW i \in Items, main = f, acked = {i},
                 content = [[g \in Files |-> Blank] EXCEPT ![f] = [@ EXCEPT !.version = OldVersion, !.data = {i}]]
          PROVE  (\A g \in Files : content[g].upgrades = 0) /\ AcknowledgedKept /\ main # NoFile
      <4>1. content[f] = [version |-> OldVersion, data |-> {i}, upgrades |-> 0]
        BY <3>2 DEF Blank
      <4>2. \A g \in Files \ {f} : content[g] = Blank
        BY <3>2
      <4> QED BY <3>2, <4>1, <4>2, DirectoryAssumption DEF Blank, AcknowledgedKept
    <3> QED BY <3>1, <3>2 DEF Init
  <2>2. Survival
    <3>1. (\A f \in Files : content[f].upgrades <= 1 /\ content[f].upgrades # 1)
      BY <2>1
    <3> QED BY <2>1, <3>1 DEF Init, Survival
  <2>3. Saved
    BY DEF Init, Saved, Saving
  <2> QED BY <2>2, <2>3
<1>2. Control /\ Data /\ Survival /\ Saved /\ [Next]_vars => (Survival /\ Saved)'
  BY SurvivalKept, SavedKept
<1> QED BY <1>1, <1>2, Invariance, PTL DEF Spec

\* delete-data.ts and migrations.ts: acknowledged writes survive deletions that
\* fail and upgrades that race, an upgrade runs once, and neither a row nor the
\* lock of a dead process keeps the last one from deleting the data.
THEOREM DataIsKept == Spec => []DataSurvives
<1>1. Control /\ Data /\ Survival => DataSurvives
  <2> SUFFICES ASSUME Control, Survival PROVE UpgradedOnce /\ LastOneMayDelete
    BY DEF Survival, DataSurvives
  <2>1. UpgradedOnce
    BY DEF Survival, UpgradedOnce
  <2>2. LastOneMayDelete
    BY DirectoryAssumption DEF LastOneMayDelete, MayDelete, Alone, Control, Survival, DeletePhases
  <2> QED BY <2>1, <2>2
<1> QED BY <1>1, Invariance, SurvivalInvariance, PTL

\* migrations.ts: no file changes its schema before a complete backup holds
\* the version and all the data that the file has at that moment.
THEOREM BackupPrecedesUpgrade == Spec => BackedUp
<1>1. Control /\ Data /\ Survival /\ Saved /\ [Next]_vars
        => [\A f \in Files : content'[f].version # content[f].version =>
              \E b \in Backups : backup[b] = [state |-> "complete", version |-> content[f].version,
                                              data |-> content[f].data]]_vars
  <2> SUFFICES ASSUME Control, Data, Survival, Saved, [Next]_vars,
                      NEW f \in Files, content'[f].version # content[f].version
               PROVE  \E b \in Backups : backup[b] = [state |-> "complete", version |-> content[f].version,
                                                      data |-> content[f].data]
    OBVIOUS
  <2>1. PICK p \in Processes : Migrate(p) /\ handle[p] = main /\ main \in Files
    BY ContentSteps DEF Data, Contents
  <2>2. f = main
    BY <2>1 DEF Migrate, Data
  <2>3. phase[p] = "saved" /\ content[handle[p]].version = upgrade[p].seen
    BY <2>1 DEF Migrate, Goto, StillAtVersion
  <2> QED BY <2>1, <2>2, <2>3 DEF Saved, Saving, Copied, Present
<1> QED BY <1>1, Invariance, SurvivalInvariance, PTL DEF Spec, BackedUp

-----------------------------------------------------------------------------
(* Publication.                                                              *)

Positions == {"start", "shown", "assert", "check", "create", "write", "sync", "publish", "unlink", "out"}
Preparing == {"start", "shown", "assert"}
Writing == {"check", "create", "write", "sync", "publish"}
WorkRows == [at : Positions, file : {1, 2}, outcome : {"ok", "refused", "failed"}]
Texts == [text : Versions \cup {0}, disk : {"none", "partial", "cached", "synced", "torn"}]
Answers == {"none", "ok", "refused", "changed", "failed", "ok without cache", "inspect the directory"}

PublishTypes ==
  /\ kind \in [Writers -> Kinds] /\ data \in Versions
  /\ work \in [Writers -> WorkRows]
  /\ \A w \in Writers : kind[w] = "export" => work[w].file = 1
  /\ reviewed \in [Writers -> Versions \cup {0}]
  /\ inode \in [Inodes -> Texts]
  /\ entry \in [Names -> Inodes \cup {NoInode}]
  /\ earlier \in [Names -> SUBSET Inodes]
  /\ answer \in [Writers -> Answers]

\* The names that ever showed the text of w, and those of the files w is past.
Published(w) == {n \in Names : <<w, n>> \in earlier[n]}
Past(w) == IF work[w].file = 1 THEN {} ELSE {"document"}

\* How far a writer has come decides what it has published.
Progress(w) ==
  /\ work[w].at \in Preparing => Published(w) = {}
  /\ work[w].at \in {"start", "shown"} => work[w].file = 1
  /\ work[w].at \notin {"unlink", "out"} => work[w].outcome = "ok"
  /\ work[w].at \in Writing => Published(w) = Past(w)
  /\ work[w].at = "unlink" => Published(w) = Past(w) \cup (IF work[w].outcome = "ok" THEN {Name(w)} ELSE {})

\* What it published is whole, is on the disk for good and is what was reviewed.
Whole(w) ==
  /\ \A n \in Published(w) : inode[<<w, n>>] = [text |-> reviewed[w], disk |-> "synced"]
  /\ work[w].at = "sync" => inode[Temp(w)] = [text |-> reviewed[w], disk |-> "cached"]
  /\ work[w].at = "publish" => inode[Temp(w)] = [text |-> reviewed[w], disk |-> "synced"]

Told(w) ==
  /\ answer[w] # "none" => work[w].at = "out"
  /\ answer[w] = "ok" => Published(w) = IF kind[w] = "export" THEN {"document"} ELSE Names
  /\ answer[w] \in {"refused", "changed", "failed"} => Published(w) = {}

WriterInv(w) == Progress(w) /\ Whole(w) /\ Told(w)

\* A name shows what a writer published under it, or nothing; and as long as
\* anybody may publish, a name that was ever taken is still taken.
Directory ==
  /\ \A n \in Names : entry[n] \in earlier[n] \cup {NoInode} /\ earlier[n] \subseteq Writers \X {n}
  /\ (\E w \in Writers : work[w].at # "out") => \A n \in Names : earlier[n] # {} => entry[n] # NoInode

\* Only a writer with --force ever joins another one under a name.
OneUnforced ==
  \A w \in Writers, n \in Names : kind[w] # "forced" /\ <<w, n>> \in earlier[n] =>
    \A v \in Writers \ {w} : <<v, n>> \in earlier[n] => kind[v] = "forced"

PublishInv == PublishTypes /\ (\A w \in Writers : WriterInv(w)) /\ Directory /\ OneUnforced

-----------------------------------------------------------------------------
\* A writer works on the document first and, unless it exports, on the cache.
LEMMA NameOf ==
  ASSUME PublishTypes, NEW w \in Writers
  PROVE  /\ Name(w) = IF work[w].file = 1 THEN "document" ELSE "cache"
         /\ Name(w) \in Names /\ Temp(w) \in Inodes /\ Temp(w) = <<w, Name(w)>>
<1>1. work[w].file \in {1, 2} /\ (kind[w] = "export" => work[w].file = 1)
  BY DEF PublishTypes, WorkRows
<1> QED BY <1>1 DEF Name, Targets, Names, Temp, Inodes

LEMMA FilesLeft ==
  ASSUME PublishTypes, NEW w \in Writers
  PROVE  work[w].file < Len(Targets(w)) <=> kind[w] # "export" /\ work[w].file = 1
<1>1. work[w].file \in {1, 2} /\ (kind[w] = "export" => work[w].file = 1)
  BY DEF PublishTypes, WorkRows
<1>2. Len(Targets(w)) = IF kind[w] = "export" THEN 1 ELSE 2
  <2>1. Len(<<"document">>) = 1 /\ Len(<<"document", "cache">>) = 2
    OBVIOUS
  <2> QED BY <2>1 DEF Targets
<1> QED BY <1>1, <1>2

\* The updates of a writer's row keep its type.
LEMMA RowUpdates ==
  ASSUME NEW r \in WorkRows, NEW at \in Positions
  PROVE  /\ [r EXCEPT !.at = at] \in WorkRows
         /\ \A f \in {1, 2} : [r EXCEPT !.file = f, !.at = at] \in WorkRows
         /\ \A f \in {1, 2} : [r EXCEPT !.file = f] \in WorkRows
         /\ \A o \in {"ok", "refused", "failed"} : [r EXCEPT !.at = at, !.outcome = o] \in WorkRows
         /\ [r EXCEPT !.at = at].file = r.file
         /\ [r EXCEPT !.at = at].at = at
  BY DEF WorkRows

\* What an answer changes.
LEMMA AnswerEffect ==
  ASSUME PublishTypes, NEW w \in Writers, NEW a \in Answers, Answer(w, a)
  PROVE  /\ work' \in [Writers -> WorkRows] /\ work'[w] = [work[w] EXCEPT !.at = "out"]
         /\ work'[w].at = "out" /\ work'[w].file = work[w].file
         /\ \A v \in Writers \ {w} : work'[v] = work[v] /\ answer'[v] = answer[v]
         /\ answer' \in [Writers -> Answers] /\ answer'[w] = a
<1>1. "out" \in Positions /\ work[w] \in WorkRows
  BY DEF Positions, PublishTypes
<1> QED BY <1>1, RowUpdates DEF Answer, PublishTypes

\* What moving on changes.
LEMMA ReachEffect ==
  ASSUME PublishTypes, NEW w \in Writers, NEW at \in Positions, Reach(w, at)
  PROVE  /\ work' \in [Writers -> WorkRows] /\ work'[w] = [work[w] EXCEPT !.at = at]
         /\ work'[w].at = at /\ work'[w].file = work[w].file /\ work'[w].outcome = work[w].outcome
         /\ \A v \in Writers \ {w} : work'[v] = work[v]
<1>1. work[w] \in WorkRows
  BY DEF PublishTypes
<1>2. work' = [work EXCEPT ![w] = [work[w] EXCEPT !.at = at]]
  BY DEF Reach, PublishTypes
<1>3. work'[w].outcome = work[w].outcome
  BY <1>1, <1>2 DEF PublishTypes, WorkRows
<1> QED BY <1>1, <1>2, <1>3, RowUpdates DEF PublishTypes

LEMMA PublishInitial == PublishInit => PublishInv
<1> SUFFICES ASSUME PublishInit PROVE PublishInv
  OBVIOUS
<1>1. PublishTypes
  BY PublishAssumption DEF PublishInit, PublishTypes, WorkRows, Positions, Answers, Texts, NoText
<1>2. \A w \in Writers : WriterInv(w)
  BY DEF PublishInit, WriterInv, Progress, Published, Past, Preparing, Writing, Whole, Told
<1>3. Directory /\ OneUnforced
  BY DEF PublishInit, Directory, OneUnforced
<1> QED BY <1>1, <1>2, <1>3 DEF PublishInv

\* How a publication moves its writer.
LEMMA PublishMoves ==
  ASSUME PublishTypes, NEW w \in Writers, Publish(w)
  PROVE  /\ work' \in [Writers -> WorkRows] /\ work'[w].at = "unlink"
         /\ \A v \in Writers : work'[v].file = work[v].file
         /\ work'[w].outcome = IF Replaces(w) \/ entry[Name(w)] = NoInode THEN work[w].outcome ELSE "refused"
         /\ \A v \in Writers \ {w} : work'[v] = work[v]
<1>1. "unlink" \in Positions /\ work[w] \in WorkRows
  BY DEF Positions, PublishTypes
<1>2. CASE Replaces(w) \/ entry[Name(w)] = NoInode
  <2>1. Reach(w, "unlink")
    BY <1>2 DEF Publish
  <2> QED BY <1>1, <1>2, <2>1, ReachEffect
<1>3. CASE ~(Replaces(w) \/ entry[Name(w)] = NoInode)
  <2>1. work' = [work EXCEPT ![w] = [work[w] EXCEPT !.at = "unlink", !.outcome = "refused"]]
    BY <1>3 DEF Publish, PublishTypes
  <2>2. [work[w] EXCEPT !.at = "unlink", !.outcome = "refused"] \in WorkRows
        /\ [work[w] EXCEPT !.at = "unlink", !.outcome = "refused"].at = "unlink"
        /\ [work[w] EXCEPT !.at = "unlink", !.outcome = "refused"].file = work[w].file
        /\ [work[w] EXCEPT !.at = "unlink", !.outcome = "refused"].outcome = "refused"
    BY <1>1 DEF WorkRows
  <2> QED BY <1>3, <2>1, <2>2 DEF PublishTypes
<1> QED BY <1>2, <1>3

LEMMA NextTypes == PublishTypes /\ [PublishNext]_publishVars => PublishTypes'
<1> SUFFICES ASSUME PublishTypes, [PublishNext]_publishVars PROVE PublishTypes'
  OBVIOUS
<1> USE DEF files
<1>1. CASE UNCHANGED publishVars
  BY <1>1 DEF PublishTypes, publishVars
<1>2. CASE Edit
  BY <1>2 DEF PublishTypes, Edit
<1>3. CASE PowerLoss
  <2>1. work' \in [Writers -> WorkRows] /\ \A w \in Writers : work'[w].file = work[w].file
    <3>1. "out" \in Positions /\ \A w \in Writers : work[w] \in WorkRows
      BY DEF Positions, PublishTypes
    <3>2. work' = [w \in Writers |-> [work[w] EXCEPT !.at = "out"]]
      BY <1>3 DEF PowerLoss
    <3> QED BY <3>1, <3>2, RowUpdates
  <2>2. inode' \in [Inodes -> Texts]
    BY <1>3 DEF PublishTypes, PowerLoss, Texts
  <2> QED BY <1>3, <2>1, <2>2 DEF PublishTypes, PowerLoss
<1>4. ASSUME NEW w \in Writers, Prepare(w) PROVE PublishTypes'
  <2>1. PICK at \in {"shown", "assert"} : Reach(w, at)
    BY <1>4 DEF Prepare
  <2>2. at \in Positions
    BY DEF Positions
  <2> QED BY <1>4, <2>1, <2>2, ReachEffect DEF PublishTypes, Prepare
<1>5. ASSUME NEW w \in Writers, RequestExport(w) PROVE PublishTypes'
  <2>1. "create" \in Positions /\ "changed" \in Answers
    BY DEF Positions, Answers
  <2>2. work' \in [Writers -> WorkRows] /\ answer' \in [Writers -> Answers]
        /\ \A v \in Writers : work'[v].file = work[v].file
    <3>1. CASE SameDigest(w)
      BY <1>5, <2>1, <3>1, ReachEffect DEF RequestExport, PublishTypes
    <3>2. CASE ~SameDigest(w)
      BY <1>5, <2>1, <3>2, AnswerEffect DEF RequestExport
    <3> QED BY <3>1, <3>2
  <2>3. UNCHANGED <<kind, data, reviewed, files>>
    BY <1>5 DEF RequestExport
  <2> QED BY <2>2, <2>3 DEF PublishTypes
<1>6. ASSUME NEW w \in Writers, AssertDestination(w) PROVE PublishTypes'
  <2>1. "check" \in Positions /\ "refused" \in Answers
    BY DEF Positions, Answers
  <2>2. CASE Answer(w, "refused")
    <3>1. work' \in [Writers -> WorkRows] /\ answer' \in [Writers -> Answers]
          /\ \A v \in Writers : work'[v].file = work[v].file
      BY <2>1, <2>2, AnswerEffect
    <3>2. UNCHANGED <<kind, data, reviewed, files>>
      BY <1>6 DEF AssertDestination
    <3> QED BY <3>1, <3>2 DEF PublishTypes
  <2>3. CASE ~Answer(w, "refused")
    <3>2. work[w] \in WorkRows /\ work[w].file \in {1, 2}
      BY DEF PublishTypes, WorkRows
    <3>3. CASE work[w].file < Len(Targets(w))
      <4>1. kind[w] # "export" /\ work[w].file = 1
        BY <3>2, <3>3, FilesLeft
      <4>2. work' = [work EXCEPT ![w] = [work[w] EXCEPT !.file = 2]]
        <5>1. work[w].file + 1 = 2
          BY <4>1
        <5>2. work' = [work EXCEPT ![w] = [work[w] EXCEPT !.file = work[w].file + 1]]
          BY <1>6, <2>3, <3>3 DEF AssertDestination
        <5> QED BY <5>1, <5>2
      <4>3. work' \in [Writers -> WorkRows]
        BY <3>2, <4>2, RowUpdates, <2>1 DEF PublishTypes
      <4> QED BY <1>6, <2>3, <4>1, <4>2, <4>3 DEF PublishTypes, AssertDestination
    <3>4. CASE ~(work[w].file < Len(Targets(w)))
      <4>1. work' = [work EXCEPT ![w] = [work[w] EXCEPT !.file = 1, !.at = "check"]]
        BY <1>6, <2>3, <3>4 DEF AssertDestination
      <4>2. [work[w] EXCEPT !.file = 1, !.at = "check"] \in WorkRows
            /\ [work[w] EXCEPT !.file = 1, !.at = "check"].file = 1
        BY <3>2, <2>1 DEF WorkRows
      <4>3. work' \in [Writers -> WorkRows] /\ work'[w].file = 1 /\ \A v \in Writers \ {w} : work'[v] = work[v]
        BY <4>1, <4>2 DEF PublishTypes
      <4> QED BY <1>6, <2>3, <4>3 DEF PublishTypes, AssertDestination
    <3> QED BY <3>3, <3>4
  <2> QED BY <2>2, <2>3
<1>7. ASSUME NEW w \in Writers, CheckAgain(w) PROVE PublishTypes'
  <2>1. "create" \in Positions /\ Report(w, "refused") \in Answers
    BY DEF Positions, Answers, Report
  <2>2. work' \in [Writers -> WorkRows] /\ answer' \in [Writers -> Answers]
        /\ \A v \in Writers : work'[v].file = work[v].file
    <3>1. CASE Reach(w, "create") /\ UNCHANGED answer
      BY <2>1, <3>1, ReachEffect DEF PublishTypes
    <3>2. CASE Answer(w, Report(w, "refused"))
      BY <2>1, <3>2, AnswerEffect
    <3> QED BY <1>7, <3>1, <3>2 DEF CheckAgain
  <2>3. UNCHANGED <<kind, data, reviewed, files>>
    BY <1>7 DEF CheckAgain
  <2> QED BY <2>2, <2>3 DEF PublishTypes
<1>8. ASSUME NEW w \in Writers, CreateTemp(w) PROVE PublishTypes'
  <2>1. inode' \in [Inodes -> Texts]
    BY <1>8, NameOf DEF PublishTypes, CreateTemp, Texts
  <2>2. "write" \in Positions
    BY DEF Positions
  <2> QED BY <1>8, <2>1, <2>2, ReachEffect DEF PublishTypes, CreateTemp
<1>9. ASSUME NEW w \in Writers, WriteText(w) PROVE PublishTypes'
  <2>1. inode' \in [Inodes -> Texts]
    BY <1>9, NameOf DEF PublishTypes, WriteText, Texts
  <2>2. "sync" \in Positions
    BY DEF Positions
  <2> QED BY <1>9, <2>1, <2>2, ReachEffect DEF PublishTypes, WriteText
<1>10. ASSUME NEW w \in Writers, Sync(w) PROVE PublishTypes'
  <2>1. inode' \in [Inodes -> Texts]
    BY <1>10, NameOf DEF PublishTypes, Sync, Texts
  <2>2. "publish" \in Positions
    BY DEF Positions
  <2> QED BY <1>10, <2>1, <2>2, ReachEffect DEF PublishTypes, Sync
<1>11. ASSUME NEW w \in Writers, Publish(w) PROVE PublishTypes'
  <2>1. work' \in [Writers -> WorkRows] /\ \A v \in Writers : work'[v].file = work[v].file
    BY <1>11, PublishMoves
  <2>2. entry' \in [Names -> Inodes \cup {NoInode}] /\ earlier' \in [Names -> SUBSET Inodes]
    BY <1>11, NameOf DEF PublishTypes, Publish
  <2> QED BY <1>11, <2>1, <2>2 DEF PublishTypes, Publish
<1>12. ASSUME NEW w \in Writers, IoError(w) PROVE PublishTypes'
  <2>1. "unlink" \in Positions /\ work[w] \in WorkRows
    BY DEF Positions, PublishTypes
  <2>2. work' = [work EXCEPT ![w] = [work[w] EXCEPT !.at = "unlink", !.outcome = "failed"]]
    BY <1>12 DEF IoError, PublishTypes
  <2>3. work' \in [Writers -> WorkRows] /\ \A v \in Writers : work'[v].file = work[v].file
    <3>1. [work[w] EXCEPT !.at = "unlink", !.outcome = "failed"] \in WorkRows
          /\ [work[w] EXCEPT !.at = "unlink", !.outcome = "failed"].file = work[w].file
      BY <2>1 DEF WorkRows
    <3> QED BY <2>2, <3>1 DEF PublishTypes
  <2> QED BY <1>12, <2>3 DEF PublishTypes, IoError
<1>13. ASSUME NEW w \in Writers, Unlink(w) PROVE PublishTypes'
  <2>1. work[w] \in WorkRows /\ work[w].file \in {1, 2} /\ work[w].outcome \in {"ok", "refused", "failed"}
    BY DEF PublishTypes, WorkRows
  <2>2. CASE work[w].outcome = "ok" /\ work[w].file < Len(Targets(w))
    <3>1. kind[w] # "export" /\ work[w].file = 1
      BY <2>1, <2>2, FilesLeft
    <3>2. work' = [work EXCEPT ![w] = [work[w] EXCEPT !.file = 2, !.at = "check"]]
      <4>1. work[w].file + 1 = 2
        BY <3>1
      <4>2. work' = [work EXCEPT ![w] = [work[w] EXCEPT !.file = work[w].file + 1, !.at = "check"]]
        BY <1>13, <2>2 DEF Unlink
      <4> QED BY <4>1, <4>2
    <3>3. work' \in [Writers -> WorkRows]
      BY <2>1, <3>2, RowUpdates DEF PublishTypes, Positions
    <3> QED BY <1>13, <2>2, <3>1, <3>2, <3>3 DEF PublishTypes, Unlink
  <2>3. CASE ~(work[w].outcome = "ok" /\ work[w].file < Len(Targets(w)))
    <3>1. PICK a : Answer(w, a) /\ a = IF work[w].outcome = "ok" THEN "ok" ELSE Report(w, work[w].outcome)
      BY <1>13, <2>3 DEF Unlink
    <3>2. a \in Answers
      BY <2>1, <3>1 DEF Report, Answers
    <3> QED BY <1>13, <3>1, <3>2, AnswerEffect DEF PublishTypes, Unlink
  <2> QED BY <2>2, <2>3
<1>14. ASSUME NEW w \in Writers, UnlinkFails(w) PROVE PublishTypes'
  <2>1. Report(w, "inspect the directory") \in Answers
    BY DEF Answers, Report
  <2> QED BY <1>14, <2>1, AnswerEffect DEF PublishTypes, UnlinkFails
<1>15. ASSUME NEW w \in Writers, Killed(w) PROVE PublishTypes'
  <2>1. "out" \in Positions
    BY DEF Positions
  <2> QED BY <1>15, <2>1, ReachEffect DEF PublishTypes, Killed
<1> QED
  BY <1>1, <1>2, <1>3, <1>4, <1>5, <1>6, <1>7, <1>8, <1>9, <1>10, <1>11, <1>12, <1>13, <1>14, <1>15
  DEF PublishNext, Step

-----------------------------------------------------------------------------
\* A step of one writer leaves the others as they are.
LEMMA Elsewhere ==
  ASSUME PublishTypes, NEW w \in Writers, Step(w), NEW v \in Writers \ {w}
  PROVE  /\ work'[v] = work[v] /\ reviewed'[v] = reviewed[v] /\ answer'[v] = answer[v] /\ kind'[v] = kind[v]
         /\ \A n \in Names : inode'[<<v, n>>] = inode[<<v, n>>]
         /\ \A n \in Names : <<v, n>> \in earlier'[n] <=> <<v, n>> \in earlier[n]
<1>1. Temp(w) = <<w, Name(w)>> /\ Name(w) \in Names /\ Temp(w) \in Inodes
  BY NameOf
<1>2. work'[v] = work[v] /\ answer'[v] = answer[v]
  BY DEF Step, PublishTypes, Prepare, RequestExport, AssertDestination, CheckAgain, CreateTemp, WriteText,
         Sync, Publish, IoError, Unlink, UnlinkFails, Killed, Reach, Answer, files
<1>3. reviewed'[v] = reviewed[v] /\ kind'[v] = kind[v]
  BY DEF Step, PublishTypes, Prepare, RequestExport, AssertDestination, CheckAgain, CreateTemp, WriteText,
         Sync, Publish, IoError, Unlink, UnlinkFails, Killed
<1>4. \A n \in Names : inode'[<<v, n>>] = inode[<<v, n>>]
  <2>1. \A n \in Names : <<v, n>> # Temp(w) /\ <<v, n>> \in Inodes
    BY <1>1 DEF Inodes
  <2>2. CASE CreateTemp(w)
    BY <2>1, <2>2 DEF CreateTemp, PublishTypes
  <2>3. CASE WriteText(w)
    BY <2>1, <2>3 DEF WriteText, PublishTypes
  <2>4. CASE Sync(w)
    BY <2>1, <2>4 DEF Sync, PublishTypes
  <2>5. CASE ~(CreateTemp(w) \/ WriteText(w) \/ Sync(w))
    <3>1. inode' = inode
      BY <2>5 DEF Step, Prepare, RequestExport, AssertDestination, CheckAgain, Publish, IoError, Unlink,
                  UnlinkFails, Killed, files
    <3> QED BY <3>1
  <2> QED BY <2>2, <2>3, <2>4, <2>5
<1>5. \A n \in Names : <<v, n>> \in earlier'[n] <=> <<v, n>> \in earlier[n]
  <2>1. CASE Publish(w)
    <3>1. earlier' = [earlier EXCEPT ![Name(w)] = @ \cup {Temp(w)}] \/ earlier' = earlier
      BY <2>1 DEF Publish
    <3>2. \A n \in Names : <<v, n>> # Temp(w)
      BY <1>1
    <3> QED BY <3>1, <3>2 DEF PublishTypes
  <2>2. CASE ~Publish(w)
    <3>1. earlier' = earlier
      BY <2>2 DEF Step, Prepare, RequestExport, AssertDestination, CheckAgain, CreateTemp, WriteText, Sync, IoError,
                  Unlink, UnlinkFails, Killed, files
    <3> QED BY <3>1
  <2> QED BY <2>1, <2>2
<1> QED BY <1>2, <1>3, <1>4, <1>5

\* Hence what is invariant of a writer is so when another one moves.
LEMMA OthersInv ==
  ASSUME PublishTypes, NEW w \in Writers, Step(w), NEW v \in Writers \ {w}, WriterInv(v)
  PROVE  WriterInv(v)'
<1>1. Published(v)' = Published(v)
  BY Elsewhere DEF Published
<1>2. Name(v)' = Name(v) /\ Temp(v)' = Temp(v) /\ Name(v) \in Names
  BY Elsewhere, NameOf DEF Name, Temp, Targets
<1>3. Progress(v)'
  BY <1>1, <1>2, Elsewhere DEF WriterInv, Progress, Past
<1>4. Whole(v)'
  BY <1>1, <1>2, Elsewhere, NameOf DEF WriterInv, Whole, Published
<1>5. Told(v)'
  BY <1>1, Elsewhere DEF WriterInv, Told
<1> QED BY <1>3, <1>4, <1>5 DEF WriterInv

-----------------------------------------------------------------------------
\* What a publication adds to the names.
LEMMA PublishAdds ==
  ASSUME PublishTypes, NEW w \in Writers, Publish(w)
  PROVE  LET taken == Replaces(w) \/ entry[Name(w)] = NoInode IN
         /\ \A n \in Names : earlier'[n] = IF taken /\ n = Name(w) THEN earlier[n] \cup {<<w, n>>} ELSE earlier[n]
         /\ \A n \in Names : entry'[n] = IF taken /\ n = Name(w) THEN <<w, n>> ELSE entry[n]
         /\ Published(w)' = IF taken THEN Published(w) \cup {Name(w)} ELSE Published(w)
<1>1. Name(w) \in Names /\ Temp(w) = <<w, Name(w)>>
  BY NameOf
<1> DEFINE taken == Replaces(w) \/ entry[Name(w)] = NoInode
<1>2. CASE taken
  <2>1. earlier' = [earlier EXCEPT ![Name(w)] = @ \cup {Temp(w)}] /\ entry' = [entry EXCEPT ![Name(w)] = Temp(w)]
    BY <1>2 DEF Publish
  <2>2. /\ \A n \in Names : earlier'[n] = IF n = Name(w) THEN earlier[n] \cup {<<w, n>>} ELSE earlier[n]
        /\ \A n \in Names : entry'[n] = IF n = Name(w) THEN <<w, n>> ELSE entry[n]
    BY <1>1, <2>1 DEF PublishTypes
  <2>3. Published(w)' = Published(w) \cup {Name(w)}
    BY <1>1, <2>2 DEF Published
  <2> QED BY <1>2, <2>2, <2>3
<1>3. CASE ~taken
  <2>1. UNCHANGED <<earlier, entry>>
    BY <1>3 DEF Publish
  <2> QED BY <1>3, <2>1 DEF Published
<1> QED BY <1>2, <1>3

\* What an answer needs, when nothing is published by giving it.
LEMMA Answered ==
  ASSUME PublishTypes, NEW w \in Writers, NEW a \in Answers, Answer(w, a), WriterInv(w),
         UNCHANGED <<kind, reviewed, inode, earlier>>,
         a = "ok" => Published(w) = IF kind[w] = "export" THEN {"document"} ELSE Names,
         a \in {"refused", "changed", "failed"} => Published(w) = {}
  PROVE  WriterInv(w)'
<1>1. work'[w].at = "out" /\ answer'[w] = a /\ Published(w)' = Published(w)
  BY AnswerEffect DEF Published
<1> QED BY <1>1 DEF WriterInv, Progress, Whole, Told, Preparing, Writing

\* The step of a writer keeps what is invariant of it.
LEMMA OwnInv ==
  ASSUME PublishTypes, NEW w \in Writers, Step(w), WriterInv(w)
  PROVE  WriterInv(w)'
<1> USE DEF At, files
<1>1. /\ work[w].at # "out" /\ answer[w] = "none"
      /\ work[w].at # "unlink" => work[w].outcome = "ok"
  <2>1. work[w].at # "out"
    BY DEF Step, Prepare, RequestExport, AssertDestination, CheckAgain, CreateTemp, WriteText, Sync, Publish,
           IoError, Unlink, UnlinkFails, Killed
  <2> QED BY <2>1 DEF WriterInv, Told, Progress
<1>2. Name(w) \in Names /\ Temp(w) = <<w, Name(w)>> /\ Temp(w) \in Inodes
      /\ Name(w) = IF work[w].file = 1 THEN "document" ELSE "cache"
  BY NameOf
<1>3. CASE Prepare(w)
  <2>1. Published(w) = {} /\ Published(w)' = {}
    BY <1>3 DEF Prepare, WriterInv, Progress, Preparing, Published
  <2>2. PICK at \in {"shown", "assert"} : Reach(w, at)
    BY <1>3 DEF Prepare
  <2>3. /\ work'[w].at = at /\ work'[w].file = work[w].file /\ work'[w].outcome = work[w].outcome
        /\ at \in Preparing /\ at \notin Writing /\ work[w].file = 1 /\ work[w].at # "unlink"
    BY <2>2, <1>3, ReachEffect DEF Positions, Preparing, Writing, Prepare, WriterInv, Progress
  <2>4. answer' = answer
    BY <1>3 DEF Prepare
  <2> QED BY <1>1, <1>3, <2>1, <2>2, <2>3, <2>4 DEF WriterInv, Progress, Whole, Told, Prepare
<1>4. CASE RequestExport(w)
  <2>1. Published(w) = {} /\ Published(w)' = {} /\ work[w].file = 1
    BY <1>4 DEF RequestExport, WriterInv, Progress, Preparing, Published
  <2>2. CASE SameDigest(w)
    <3>1. work'[w].at = "create" /\ work'[w].file = 1 /\ work'[w].outcome = "ok"
      BY <1>1, <1>4, <2>1, <2>2, ReachEffect DEF RequestExport, Positions
    <3>2. answer' = answer
      BY <1>4, <2>2 DEF RequestExport
    <3> QED BY <1>1, <2>1, <3>1, <3>2 DEF WriterInv, Progress, Preparing, Writing, Past, Whole, Told
  <2>3. CASE ~SameDigest(w)
    <3>1. Answer(w, "changed") /\ UNCHANGED <<kind, reviewed, inode, earlier>>
      BY <1>4, <2>3 DEF RequestExport
    <3> QED BY <2>1, <3>1, Answered DEF Answers
  <2> QED BY <2>2, <2>3
<1>5. CASE AssertDestination(w)
  <2>1. Published(w) = {} /\ Published(w)' = {}
    BY <1>5 DEF AssertDestination, WriterInv, Progress, Preparing, Published
  <2>2. CASE Answer(w, "refused")
    <3>1. UNCHANGED <<kind, reviewed, inode, earlier>>
      BY <1>5 DEF AssertDestination
    <3> QED BY <2>1, <2>2, <3>1, Answered DEF Answers
  <2>3. CASE ~Answer(w, "refused")
    <3>1. work[w] \in WorkRows /\ answer' = answer /\ work[w].at = "assert"
      BY <1>5, <2>3 DEF AssertDestination, PublishTypes
    <3>2. /\ work'[w].at = "assert" \/ (work'[w].at = "check" /\ work'[w].file = 1)
          /\ work'[w].outcome = "ok"
      BY <1>1, <1>5, <2>3, <3>1 DEF AssertDestination, PublishTypes, WorkRows
    <3> QED BY <1>1, <2>1, <3>1, <3>2 DEF WriterInv, Progress, Preparing, Writing, Past, Whole, Told
  <2> QED BY <2>2, <2>3
<1>6. CASE CheckAgain(w)
  <2>1. Published(w)' = Published(w) /\ Published(w) = Past(w)
    BY <1>6 DEF CheckAgain, Published, WriterInv, Progress, Writing
  <2>2. CASE Answer(w, Report(w, "refused"))
    <3>1. UNCHANGED <<kind, reviewed, inode, earlier>>
      BY <1>6 DEF CheckAgain
    <3>2. Report(w, "refused") \in {"refused", "ok without cache"}
          /\ (Report(w, "refused") = "refused" => Published(w) = {})
      BY <2>1, <1>2 DEF Report, Past, PublishTypes, WorkRows
    <3> QED BY <2>2, <3>1, <3>2, Answered DEF Answers
  <2>3. CASE ~Answer(w, Report(w, "refused"))
    <3>1. Reach(w, "create") /\ answer' = answer
      BY <1>6, <2>3 DEF CheckAgain
    <3>2. work'[w].at = "create" /\ work'[w].file = work[w].file /\ work'[w].outcome = "ok"
      BY <1>1, <1>6, <3>1, ReachEffect DEF Positions, CheckAgain
    <3>3. UNCHANGED <<reviewed, inode, earlier>>
      BY <1>6 DEF CheckAgain
    <3> QED BY <1>1, <2>1, <3>1, <3>2, <3>3 DEF WriterInv, Progress, Preparing, Writing, Past, Whole, Told
  <2> QED BY <2>2, <2>3
<1>7. CASE CreateTemp(w) \/ WriteText(w) \/ Sync(w)
  <2>1. Published(w)' = Published(w) /\ Published(w) = Past(w) /\ Name(w) \notin Published(w)
    BY <1>2, <1>7 DEF CreateTemp, WriteText, Sync, Published, WriterInv, Progress, Writing, Past
  <2>2. PICK at \in {"write", "sync", "publish"} : Reach(w, at) /\
          (CreateTemp(w) => at = "write") /\ (WriteText(w) => at = "sync") /\ (Sync(w) => at = "publish")
    BY <1>7 DEF CreateTemp, WriteText, Sync
  <2>3. /\ work'[w].at = at /\ work'[w].file = work[w].file /\ work'[w].outcome = "ok"
        /\ Past(w)' = Past(w) /\ Temp(w)' = Temp(w)
    BY <1>1, <2>2, ReachEffect, <1>7 DEF Positions, Past, Temp, Name, Targets, CreateTemp, WriteText, Sync
  <2>4. \A n \in Published(w) : inode'[<<w, n>>] = inode[<<w, n>>]
    BY <1>2, <1>7, <2>1 DEF CreateTemp, WriteText, Sync, PublishTypes, Published, Inodes
  <2>5. at = "sync" => inode'[Temp(w)] = [text |-> reviewed[w], disk |-> "cached"]
    BY <1>2, <1>7, <2>2 DEF CreateTemp, WriteText, Sync, PublishTypes
  <2>6. at = "publish" => inode'[Temp(w)] = [text |-> reviewed[w], disk |-> "synced"]
    BY <1>2, <1>7, <2>2 DEF CreateTemp, WriteText, Sync, PublishTypes, WriterInv, Whole
  <2>7. answer' = answer /\ reviewed' = reviewed
    BY <1>7 DEF CreateTemp, WriteText, Sync
  <2> QED BY <1>1, <2>1, <2>3, <2>4, <2>5, <2>6, <2>7 DEF WriterInv, Progress, Preparing, Writing, Whole, Told
<1>8. CASE Publish(w)
  <2>1. Published(w) = Past(w) /\ inode[Temp(w)] = [text |-> reviewed[w], disk |-> "synced"]
    BY <1>8 DEF Publish, WriterInv, Progress, Writing, Whole
  <2>2. work'[w].at = "unlink" /\ Past(w)' = Past(w) /\ Name(w)' = Name(w)
    BY <1>8, PublishMoves DEF Past, Name, Targets, Publish
  <2>3. Published(w)' = Past(w) \cup (IF work'[w].outcome = "ok" THEN {Name(w)} ELSE {})
    <3>1. CASE ~(Replaces(w) \/ entry[Name(w)] = NoInode)
      BY <1>8, <2>1, <3>1, PublishMoves, PublishAdds
    <3>2. CASE Replaces(w) \/ entry[Name(w)] = NoInode
      BY <1>1, <1>8, <2>1, <3>2, PublishMoves, PublishAdds DEF Publish
    <3> QED BY <3>1, <3>2
  <2>4. UNCHANGED <<reviewed, inode, answer>>
    BY <1>8 DEF Publish
  <2>5. Whole(w)'
    BY <1>2, <2>1, <2>2, <2>3, <2>4 DEF WriterInv, Whole
  <2>6. Progress(w)' /\ Told(w)'
    BY <1>1, <2>2, <2>3, <2>4 DEF Progress, Told, Preparing, Writing
  <2> QED BY <2>5, <2>6 DEF WriterInv
<1>9. CASE IoError(w)
  <2>1. Published(w)' = Published(w) /\ Published(w) = Past(w)
    BY <1>9 DEF IoError, Published, WriterInv, Progress, Writing
  <2>2. work'[w].at = "unlink" /\ work'[w].file = work[w].file /\ work'[w].outcome = "failed"
    BY <1>9 DEF IoError, PublishTypes, WorkRows
  <2>3. UNCHANGED <<reviewed, inode, answer>>
    BY <1>9 DEF IoError
  <2> QED BY <1>1, <2>1, <2>2, <2>3 DEF WriterInv, Progress, Preparing, Writing, Past, Whole, Told
<1>10. CASE Unlink(w)
  <2>1. Published(w)' = Published(w)
        /\ Published(w) = Past(w) \cup (IF work[w].outcome = "ok" THEN {Name(w)} ELSE {})
    BY <1>10 DEF Unlink, Published, WriterInv, Progress
  <2>2. CASE work[w].outcome = "ok" /\ work[w].file < Len(Targets(w))
    <3>1. work[w].file = 1 /\ work[w].file + 1 = 2
      BY <2>2, FilesLeft
    <3>2. work' = [work EXCEPT ![w] = [work[w] EXCEPT !.file = work[w].file + 1, !.at = "check"]] /\ answer' = answer
      BY <1>10, <2>2 DEF Unlink
    <3>3. work'[w].at = "check" /\ work'[w].file = 2 /\ work'[w].outcome = "ok"
      BY <2>2, <3>1, <3>2 DEF PublishTypes, WorkRows
    <3>4. UNCHANGED <<reviewed, inode>>
      BY <1>10 DEF Unlink
    <3> QED BY <1>1, <1>2, <2>1, <2>2, <3>1, <3>2, <3>3, <3>4
        DEF WriterInv, Progress, Preparing, Writing, Past, Whole, Told
  <2>3. CASE ~(work[w].outcome = "ok" /\ work[w].file < Len(Targets(w)))
    <3>1. PICK a : Answer(w, a) /\ a = IF work[w].outcome = "ok" THEN "ok" ELSE Report(w, work[w].outcome)
      BY <1>10, <2>3 DEF Unlink
    <3>2. work[w].file \in {1, 2} /\ work[w].outcome \in {"ok", "refused", "failed"} /\ kind[w] \in Kinds
      BY DEF PublishTypes, WorkRows
    <3>3. a \in Answers
      BY <3>1, <3>2 DEF Report, Answers
    <3>4. a = "ok" => Published(w) = IF kind[w] = "export" THEN {"document"} ELSE Names
      <4>1. a = "ok" => work[w].outcome = "ok"
        BY <3>1, <3>2 DEF Report
      <4>2. work[w].outcome = "ok" => (kind[w] = "export" \/ work[w].file = 2)
        BY <2>3, <3>2, FilesLeft
      <4>3. kind[w] = "export" => work[w].file = 1
        BY DEF PublishTypes
      <4> QED BY <1>2, <2>1, <4>1, <4>2, <4>3 DEF Past, Names
    <3>5. a \in {"refused", "changed", "failed"} => Published(w) = {}
      BY <2>1, <3>1, <3>2 DEF Report, Past
    <3>6. UNCHANGED <<kind, reviewed, inode, earlier>>
      BY <1>10 DEF Unlink
    <3> QED BY <3>1, <3>3, <3>4, <3>5, <3>6, Answered
  <2> QED BY <2>2, <2>3
<1>11. CASE UnlinkFails(w)
  <2>1. Answer(w, Report(w, "inspect the directory")) /\ UNCHANGED <<kind, reviewed, inode, earlier>>
    BY <1>11 DEF UnlinkFails
  <2>2. Report(w, "inspect the directory") \in {"inspect the directory", "ok without cache"}
    BY DEF Report
  <2> QED BY <2>1, <2>2, Answered DEF Answers
<1>12. CASE Killed(w)
  <2>1. work'[w].at = "out"
    BY <1>12, ReachEffect DEF Killed, Positions
  <2>2. Published(w)' = Published(w) /\ UNCHANGED <<reviewed, inode, answer, kind>>
    BY <1>12 DEF Killed, Published
  <2> QED BY <2>1, <2>2 DEF WriterInv, Progress, Preparing, Writing, Whole, Told
<1> QED BY <1>3, <1>4, <1>5, <1>6, <1>7, <1>8, <1>9, <1>10, <1>11, <1>12 DEF Step

-----------------------------------------------------------------------------
\* The machine stops: what was published is on the disk, and nobody goes on.
LEMMA PowerLossInv ==
  ASSUME PublishTypes, Directory, PowerLoss, NEW w \in Writers, WriterInv(w)
  PROVE  WriterInv(w)' /\ Directory'
<1>1. work'[w].at = "out" /\ work'[w].file = work[w].file /\ \A v \in Writers : work'[v].at = "out"
  BY DEF PowerLoss, PublishTypes, WorkRows
<1>2. Published(w)' = Published(w) /\ UNCHANGED <<kind, reviewed, answer, earlier>>
  BY DEF PowerLoss, Published
<1>3. \A n \in Published(w) : inode'[<<w, n>>] = inode[<<w, n>>]
  BY DEF PowerLoss, Published, PublishTypes, WriterInv, Whole, Inodes
<1>4. \A n \in Names : entry'[n] \in earlier[n] \cup {NoInode}
  BY DEF PowerLoss
<1>5. WriterInv(w)'
  BY <1>1, <1>2, <1>3 DEF WriterInv, Progress, Whole, Told, Preparing, Writing
<1> QED BY <1>1, <1>2, <1>4, <1>5 DEF Directory

\* Steps that do not publish leave the directory alone, and a publication
\* without --force finds a name that was never taken.
LEMMA StepDirectory ==
  ASSUME PublishTypes, Directory, OneUnforced, NEW w \in Writers, Step(w), WriterInv(w)
  PROVE  Directory' /\ OneUnforced'
<1>1. work[w].at # "out"
  BY DEF Step, At, Prepare, RequestExport, AssertDestination, CheckAgain, CreateTemp, WriteText, Sync, Publish,
         IoError, Unlink, UnlinkFails, Killed
<1>2. kind' = kind
  BY DEF Step, Prepare, RequestExport, AssertDestination, CheckAgain, CreateTemp, WriteText, Sync, Publish,
         IoError, Unlink, UnlinkFails, Killed
<1>3. CASE ~Publish(w)
  <2>1. UNCHANGED <<entry, earlier>>
    BY <1>3 DEF Step, Prepare, RequestExport, AssertDestination, CheckAgain, CreateTemp, WriteText, Sync,
                IoError, Unlink, UnlinkFails, Killed, files
  <2> QED BY <1>1, <1>2, <2>1 DEF Directory, OneUnforced
<1>4. CASE Publish(w)
  <2> DEFINE taken == Replaces(w) \/ entry[Name(w)] = NoInode
  <2>1. /\ \A n \in Names : earlier'[n] = IF taken /\ n = Name(w) THEN earlier[n] \cup {<<w, n>>} ELSE earlier[n]
        /\ \A n \in Names : entry'[n] = IF taken /\ n = Name(w) THEN <<w, n>> ELSE entry[n]
    BY <1>4, PublishAdds
  <2>2. \A n \in Names : <<w, n>> # NoInode
    BY PublishAssumption DEF Names
  <2>3. Name(w) \in Names
    BY NameOf
  <2> HIDE DEF taken
  <2>4. Directory'
    <3>1. ASSUME NEW n \in Names
          PROVE  entry'[n] \in earlier'[n] \cup {NoInode} /\ earlier'[n] \subseteq Writers \X {n}
      <4>1. CASE taken /\ n = Name(w)
        <5>1. entry'[n] = <<w, n>> /\ earlier'[n] = earlier[n] \cup {<<w, n>>}
          BY <2>1, <4>1
        <5>2. earlier[n] \subseteq Writers \X {n} /\ <<w, n>> \in Writers \X {n}
          BY DEF Directory
        <5> QED BY <5>1, <5>2
      <4>2. CASE ~(taken /\ n = Name(w))
        BY <2>1, <4>2 DEF Directory
      <4> QED BY <4>1, <4>2
    <3>2. ASSUME NEW n \in Names, earlier'[n] # {} PROVE entry'[n] # NoInode
      <4>1. CASE taken /\ n = Name(w)
        BY <2>1, <2>2, <4>1
      <4>2. CASE ~(taken /\ n = Name(w))
        BY <1>1, <2>1, <3>2, <4>2 DEF Directory
      <4> QED BY <4>1, <4>2
    <3> QED BY <3>1, <3>2 DEF Directory
  <2>5. kind[w] # "forced" /\ taken => earlier[Name(w)] = {}
    BY <1>1, <2>3 DEF Directory, Replaces, taken
  <2>6. OneUnforced'
    <3> SUFFICES ASSUME NEW u \in Writers, NEW n \in Names, kind[u] # "forced", <<u, n>> \in earlier'[n],
                        NEW v \in Writers \ {u}, <<v, n>> \in earlier'[n]
                 PROVE  kind[v] = "forced"
      BY <1>2 DEF OneUnforced
    <3>1. CASE ~(taken /\ n = Name(w))
      BY <2>1, <3>1 DEF OneUnforced
    <3>2. CASE taken /\ n = Name(w) /\ kind[w] # "forced"
      <4>1. <<u, n>> \in {<<w, n>>} /\ <<v, n>> \in {<<w, n>>}
        BY <2>1, <2>5, <3>2
      <4> QED BY <4>1
    <3>3. CASE taken /\ n = Name(w) /\ kind[w] = "forced"
      <4>1. earlier'[n] = earlier[n] \cup {<<w, n>>}
        BY <2>1, <3>3
      <4>2. u # w /\ <<u, n>> \in earlier[n]
        BY <3>3, <4>1
      <4>3. v = w \/ <<v, n>> \in earlier[n]
        BY <4>1
      <4> QED BY <3>3, <4>2, <4>3 DEF OneUnforced
    <3> QED BY <3>1, <3>2, <3>3
  <2> QED BY <2>4, <2>6
<1> QED BY <1>3, <1>4

\* Every step of the machine, of the user and of the writers.
LEMMA PublishInductive == PublishInv /\ [PublishNext]_publishVars => PublishInv'
<1> SUFFICES ASSUME PublishInv, [PublishNext]_publishVars PROVE PublishInv'
  OBVIOUS
<1>1. PublishTypes'
  BY NextTypes DEF PublishInv
<1>2. CASE UNCHANGED publishVars \/ Edit
  <2>1. UNCHANGED <<kind, work, reviewed, inode, entry, earlier, answer>>
    BY <1>2 DEF publishVars, Edit, files
  <2>2. \A w \in Writers : WriterInv(w)'
    BY <2>1 DEF PublishInv, WriterInv, Progress, Whole, Told, Published, Past, Name, Temp, Targets
  <2>3. Directory' /\ OneUnforced'
    BY <2>1 DEF PublishInv, Directory, OneUnforced
  <2> QED BY <1>1, <2>2, <2>3 DEF PublishInv
<1>3. CASE PowerLoss
  <2>1. \A w \in Writers : WriterInv(w)' /\ Directory'
    BY <1>3, PowerLossInv DEF PublishInv
  <2>2. \E w \in Writers : TRUE
    BY <1>3 DEF PowerLoss
  <2>3. OneUnforced'
    BY <1>3 DEF PowerLoss, PublishInv, OneUnforced
  <2> QED BY <1>1, <2>1, <2>2, <2>3 DEF PublishInv
<1>4. ASSUME NEW w \in Writers, Step(w) PROVE PublishInv'
  <2>1. \A v \in Writers : WriterInv(v)'
    BY <1>4, OwnInv, OthersInv DEF PublishInv
  <2>2. Directory' /\ OneUnforced'
    BY <1>4, StepDirectory DEF PublishInv
  <2> QED BY <1>1, <2>1, <2>2 DEF PublishInv
<1> QED BY <1>2, <1>3, <1>4 DEF PublishNext

\* atomicWrite() and writeArtifact(), any number at once: the invariant that
\* ties what a writer has published to how far it has come.
THEOREM PublishInvariance == PublishSpec => []PublishInv
  BY PublishInitial, PublishInductive, PTL DEF PublishSpec

\* What the invariant says of the names and of the answers.
LEMMA PublishInvSound == PublishInv => PublicationSound
<1> SUFFICES ASSUME PublishInv PROVE PublishedWhole /\ AnswersTrue
  BY DEF PublicationSound
<1>1. PublishedWhole
  <2> SUFFICES ASSUME NEW n \in Names, entry[n] # NoInode
               PROVE  /\ inode[entry[n]].disk \in {"cached", "synced"}
                      /\ inode[entry[n]].text = reviewed[entry[n][1]]
    BY DEF PublishedWhole
  <2>1. PICK w \in Writers : entry[n] = <<w, n>> /\ <<w, n>> \in earlier[n]
    BY DEF PublishInv, Directory
  <2>2. inode[<<w, n>>] = [text |-> reviewed[w], disk |-> "synced"]
    BY <2>1 DEF PublishInv, WriterInv, Whole, Published
  <2> QED BY <2>1, <2>2
<1>2. AnswersTrue
  <2> SUFFICES ASSUME NEW w \in Writers
               PROVE  /\ answer[w] = "ok" => \A k \in DOMAIN Targets(w) :
                           /\ <<w, Targets(w)[k]>> \in earlier[Targets(w)[k]]
                           /\ inode[<<w, Targets(w)[k]>>].text = reviewed[w]
                      /\ answer[w] \in {"refused", "changed", "failed"} => <<w, Targets(w)[1]>> \notin earlier["document"]
    BY DEF AnswersTrue, PublishInv, OneUnforced
  <2>1. Targets(w)[1] = "document"
    BY DEF Targets
  <2>2. \A k \in DOMAIN Targets(w) : Targets(w)[k] \in IF kind[w] = "export" THEN {"document"} ELSE Names
    BY DEF Targets, Names
  <2>3. \A n \in Published(w) : n \in Names /\ <<w, n>> \in earlier[n] /\ inode[<<w, n>>].text = reviewed[w]
    <3> SUFFICES ASSUME NEW n \in Published(w)
                 PROVE  n \in Names /\ <<w, n>> \in earlier[n] /\ inode[<<w, n>>].text = reviewed[w]
      OBVIOUS
    <3>1. inode[<<w, n>>] = [text |-> reviewed[w], disk |-> "synced"]
      BY DEF PublishInv, WriterInv, Whole
    <3>2. n \in Names /\ <<w, n>> \in earlier[n]
      BY DEF Published
    <3> QED BY <3>1, <3>2
  <2>4. answer[w] = "ok" => Published(w) = IF kind[w] = "export" THEN {"document"} ELSE Names
    BY DEF PublishInv, WriterInv, Told
  <2>5. answer[w] \in {"refused", "changed", "failed"} => "document" \notin Published(w)
    BY DEF PublishInv, WriterInv, Told
  <2> QED BY <2>1, <2>2, <2>3, <2>4, <2>5 DEF Published, Names
<1> QED BY <1>1, <1>2

\* Whatever stands under a published name is one whole text that its user
\* reviewed, a file is replaced with --force only, and the answers are true,
\* whichever writers race, fail, die or lose power.
THEOREM PublicationIsSound == PublishSpec => []PublicationSound
  BY PublishInvariance, PublishInvSound, PTL

-----------------------------------------------------------------------------
(* Evidence.                                                                 *)

Statuses == {"running", "exited", "interrupted", "unknown"}
SnapshotRows == [workspace : Workspaces, content : Subjects, whole : BOOLEAN, kept : BOOLEAN]
RunRows ==
  [before : Nat, after : Nat \cup {None}, workspace : Workspaces, started : BOOLEAN, finished : BOOLEAN,
   status : Statuses, exit : {None, "code"}, began : Subjects, ended : Subjects \cup {None}]

EvidenceTypes ==
  /\ subject \in [Workspaces -> Subjects]
  /\ snapshots \in Seq(SnapshotRows) /\ runs \in Seq(RunRows)

\* The snapshots of a run are of its workspace as it was when the process began
\* and when it ended; only a process that is over has the second.
Bound(run, stored) ==
  /\ run.before \in DOMAIN stored
  /\ stored[run.before].workspace = run.workspace /\ stored[run.before].content = run.began
  /\ run.after # None =>
       /\ run.after \in DOMAIN stored
       /\ stored[run.after].workspace = run.workspace /\ stored[run.after].content = run.ended
  /\ run.finished <=> run.status # "running"

RunsBound == \A r \in DOMAIN runs : Bound(runs[r], snapshots)

\* What may be said of a run in a report on workspace w in state seen.
Observed(run, w) ==
  run.started /\ run.finished /\ run.exit # None /\ run.workspace = w /\ run.ended = run.began

Earned(said, run, w, seen) ==
  /\ said.applicability = "stale" => Observed(run, w) /\ run.began # seen
  /\ said.workspace = "matched" =>
       /\ run.workspace = w /\ run.began = seen
       /\ said.applicability = "unknown" => Observed(run, w)

ReportEarned(report, w, seen, observed) ==
  /\ \A r \in DOMAIN report.commands :
       r \in DOMAIN observed /\ Earned(report.commands[r], observed[r], w, seen)
  /\ report.verification = "matched" => \A r \in DOMAIN report.commands : report.commands[r].workspace = "matched"

\* The property speaks of handoffs; the report that becomes one is sound from
\* the moment it is made, although the runs go on until it is saved.
ReviewEarned ==
  /\ review.step = "reading" => review.workspace \in Workspaces
  /\ review.step \in {"captured", "verifying"} => review.current \in SnapshotRows
  /\ review.step = "verifying" => ReportEarned(review.report, review.current.workspace, review.current.content, runs)

HandoffEarned ==
  handoff # None =>
    /\ handoff.workspace \in Workspaces /\ handoff.snapshot \in DOMAIN snapshots
    /\ ReportEarned(handoff.report, handoff.workspace, handoff.seen, runs)

EvidenceInv == EvidenceTypes /\ RunsBound /\ ReviewEarned /\ HandoffEarned

-----------------------------------------------------------------------------
(* The operators.                                                            *)

\* compareWorkspaceSnapshots: what its three answers say of the two snapshots.
LEMMA CompareMeans ==
  ASSUME NEW s, NEW t
  PROVE  /\ Compare(s, t) \in {"matched", "drifted", "unverifiable"}
         /\ Compare(s, t) = "matched" <=>
              s.workspace = t.workspace /\ s.whole /\ t.whole /\ s.content = t.content
         /\ Compare(s, t) = "drifted" <=>
              s.workspace = t.workspace /\ s.whole /\ t.whole /\ s.content # t.content
BY DEF Compare

LEMMA StoredMeans ==
  ASSUME NEW id
  PROVE  Stored(id) # None => id \in DOMAIN snapshots /\ snapshots[id].kept /\ Stored(id) = snapshots[id]
BY DEF Stored

\* The worst of some answers is "matched" only if none of them is another.
LEMMA WorstMatched ==
  ASSUME NEW S \in SUBSET {"matched", "drifted", "unverifiable"}, "matched" \in S, Worst(S) = "matched"
  PROVE  S = {"matched"}
<1> DEFINE IsWorst(s) == \A t \in S : Severity(t) <= Severity(s)
<1>0. Severity("matched") = 0 /\ Severity("drifted") = 1 /\ Severity("unverifiable") = 2
  BY DEF Severity
<1>1. \E s \in S : IsWorst(s)
  <2>1. CASE "unverifiable" \in S  BY <1>0, <2>1
  <2>2. CASE "unverifiable" \notin S /\ "drifted" \in S  BY <1>0, <2>2
  <2>3. CASE S = {"matched"}  BY <1>0, <2>3
  <2> QED  BY <2>1, <2>2, <2>3
<1>2. Worst(S) = CHOOSE s \in S : IsWorst(s)
  BY DEF Worst
<1>3. IsWorst(Worst(S))
  <2> HIDE DEF IsWorst
  <2> QED  BY <1>1, <1>2
<1>4. \A t \in S : Severity(t) <= 0
  BY <1>0, <1>3
<1>5. "drifted" \notin S /\ "unverifiable" \notin S
  BY <1>0, <1>4
<1> QED  BY <1>5

\* evaluateCommandEvidence: what it says of a run whose snapshots are its own.
LEMMA CommandEarned ==
  ASSUME NEW run, NEW current, Bound(run, snapshots), EvidenceTypes
  PROVE  /\ Earned(CommandEvidence(run, current), run, current.workspace, current.content)
         /\ CommandEvidence(run, current).workspace \in {"matched", "drifted", "unverifiable"}
<1> DEFINE said == CommandEvidence(run, current)
           historical == Stored(run.before)
           after == Stored(run.after)
<1>1. /\ said.workspace = WorkspaceOf(run, current)
      /\ said.applicability = "stale" => run.exit # None /\ ~Incomplete(run) /\ said.workspace = "drifted"
      /\ said.applicability = "unknown" => run.exit # None /\ ~Incomplete(run)
  BY DEF CommandEvidence
<1>2. said.workspace \in {"matched", "drifted"} =>
        historical # None /\ said.workspace = Compare(historical, current)
  BY <1>1 DEF WorkspaceOf
<1>3. historical # None => historical.workspace = run.workspace /\ historical.content = run.began
  BY StoredMeans DEF Bound
<1>4. after # None => after.workspace = run.workspace /\ after.content = run.ended
  BY StoredMeans, EvidenceAssumption DEF Bound, EvidenceTypes
<1>5. ~Incomplete(run) =>
        /\ run.started /\ run.finished /\ after # None
        /\ historical # None => Compare(historical, after) = "matched"
  BY DEF Incomplete
<1>6. ~Incomplete(run) /\ historical # None => run.started /\ run.finished /\ run.ended = run.began
  BY <1>3, <1>4, <1>5, CompareMeans
<1>7. said.workspace = "matched" => run.workspace = current.workspace /\ run.began = current.content
  BY <1>2, <1>3, CompareMeans
<1>8. said.workspace = "drifted" => run.workspace = current.workspace /\ run.began # current.content
  BY <1>2, <1>3, CompareMeans
<1>9. said.workspace \in {"matched", "drifted", "unverifiable"}
  BY <1>1, CompareMeans DEF WorkspaceOf
<1>10. Earned(said, run, current.workspace, current.content)
  BY <1>1, <1>2, <1>6, <1>7, <1>8 DEF Earned, Observed
<1> QED  BY <1>9, <1>10

\* evaluateInnerObservation: when each of the reasons that count here is given.
SnapshotOf(id) == IF id = None THEN None ELSE Stored(id)
Foreign(s, current) == s # None /\ s.workspace # current.workspace
Now(before, current) == IF before = None \/ Foreign(before, current) THEN "matched" ELSE Compare(before, current)
During(before, after, current) ==
  IF before = None \/ after = None \/ Foreign(before, current) \/ Foreign(after, current) THEN "matched"
  ELSE Compare(before, after)

LEMMA ReasonsGiven ==
  ASSUME NEW c, NEW current
  PROVE  LET before == SnapshotOf(c.before)
             after == SnapshotOf(c.after)
             reasons == Reasons(c, current)
         IN /\ "SNAPSHOT_WORKSPACE_MISMATCH" \in reasons <=> Foreign(before, current) \/ Foreign(after, current)
            /\ "PARTIAL_LOG" \in reasons <=> ~c.finished \/ c.after = None
            /\ before = None => reasons # {}
            /\ "WORKSPACE_CHANGED" \in reasons <=> Now(before, current) = "drifted"
            /\ "SNAPSHOT_UNVERIFIABLE" \in reasons <=>
                 \/ "unverifiable" \in {Now(before, current), During(before, after, current)}
                 \/ c.after # None /\ after = None
            /\ "EXECUTION_WORKSPACE_CHANGED" \in reasons <=> During(before, after, current) = "drifted"
            /\ "ENVIRONMENT_UNKNOWN" \in reasons <=> ~c.environment
<1> DEFINE before == SnapshotOf(c.before)
           after == SnapshotOf(c.after)
           reasons == Reasons(c, current)
           reason(condition, name) == IF condition THEN {name} ELSE {}
           all == {reason(Foreign(before, current) \/ Foreign(after, current), "SNAPSHOT_WORKSPACE_MISMATCH"),
             reason(~c.finished \/ c.after = None, "PARTIAL_LOG"),
             reason(before = None, IF c.origin = "native-import" THEN "NATIVE_IMPORT_UNBOUND" ELSE "SNAPSHOT_MISSING"),
             reason(Now(before, current) = "drifted", "WORKSPACE_CHANGED"),
             reason("unverifiable" \in {Now(before, current), During(before, after, current)}
                    \/ (c.after # None /\ after = None), "SNAPSHOT_UNVERIFIABLE"),
             reason(During(before, after, current) = "drifted", "EXECUTION_WORKSPACE_CHANGED"),
             reason(~c.environment, "ENVIRONMENT_UNKNOWN")}
<1>1. reasons = UNION all
  BY DEF Reasons, SnapshotOf, Foreign, Now, During
<1> HIDE DEF before, after, reasons
<1>2. \A x : x \in reasons <=> \E set \in all : x \in set
  BY <1>1
<1> QED  BY <1>2 DEF before, after, reasons

\* What makes a claim current or stale, whatever was pruned.
LEMMA ClaimEarned ==
  ASSUME NEW c, NEW current
  PROVE  LET verdict == Applicability(Reasons(c, current))
             same(id) == snapshots[id].workspace = current.workspace /\ snapshots[id].content = current.content
         IN /\ verdict = "current" =>
                 /\ c.finished /\ c.environment /\ c.before # None /\ c.after # None
                 /\ \A id \in {c.before, c.after} : snapshots[id].kept /\ snapshots[id].whole /\ same(id)
            /\ verdict = "stale" =>
                 /\ c.finished /\ snapshots[c.before].workspace = current.workspace
                 /\ ~same(c.before) \/ ~same(c.after)
<1> DEFINE before == SnapshotOf(c.before)
           after == SnapshotOf(c.after)
           reasons == Reasons(c, current)
           verdict == Applicability(reasons)
           same(id) == snapshots[id].workspace = current.workspace /\ snapshots[id].content = current.content
<1>1. before # None => c.before # None /\ snapshots[c.before].kept /\ before = snapshots[c.before]
  BY StoredMeans DEF SnapshotOf
<1>2. after # None => c.after # None /\ snapshots[c.after].kept /\ after = snapshots[c.after]
  BY StoredMeans DEF SnapshotOf
<1>3. /\ verdict = "current" => reasons = {}
      /\ verdict = "stale" =>
           "PARTIAL_LOG" \notin reasons /\ reasons \cap {"WORKSPACE_CHANGED", "EXECUTION_WORKSPACE_CHANGED"} # {}
  BY DEF Applicability
<1>4. ASSUME reasons = {}
      PROVE  /\ c.finished /\ c.environment /\ c.before # None /\ c.after # None
             /\ \A id \in {c.before, c.after} : snapshots[id].kept /\ snapshots[id].whole /\ same(id)
  <2>1. /\ c.finished /\ c.environment /\ before # None /\ after # None
        /\ ~Foreign(before, current) /\ ~Foreign(after, current)
        /\ Now(before, current) \notin {"drifted", "unverifiable"}
        /\ During(before, after, current) \notin {"drifted", "unverifiable"}
    BY <1>4, ReasonsGiven
  <2>2. Compare(before, current) = "matched" /\ Compare(before, after) = "matched"
    BY <2>1, CompareMeans DEF Now, During
  <2> QED  BY <1>1, <1>2, <2>1, <2>2, CompareMeans
<1>5. ASSUME "PARTIAL_LOG" \notin reasons, reasons \cap {"WORKSPACE_CHANGED", "EXECUTION_WORKSPACE_CHANGED"} # {}
      PROVE  /\ c.finished /\ snapshots[c.before].workspace = current.workspace
             /\ ~same(c.before) \/ ~same(c.after)
  <2>1. c.finished /\ (Now(before, current) = "drifted" \/ During(before, after, current) = "drifted")
    BY <1>5, ReasonsGiven
  <2>2. CASE Now(before, current) = "drifted"
    <3>1. before # None /\ Compare(before, current) = "drifted"
      BY <2>2 DEF Now
    <3> QED  BY <1>1, <2>1, <3>1, CompareMeans
  <2>3. CASE During(before, after, current) = "drifted"
    <3>1. before # None /\ after # None /\ ~Foreign(before, current) /\ Compare(before, after) = "drifted"
      BY <2>3 DEF During
    <3> QED  BY <1>1, <1>2, <2>1, <3>1, CompareMeans DEF Foreign
  <2> QED  BY <2>1, <2>2, <2>3
<1> QED  BY <1>3, <1>4, <1>5

-----------------------------------------------------------------------------
(* The invariant.                                                            *)

LEMMA EvidenceInitially == EvidenceInit => EvidenceInv
<1> SUFFICES ASSUME EvidenceInit PROVE EvidenceInv
  OBVIOUS
<1>1. subject \in [Workspaces -> Subjects] /\ snapshots = <<>> /\ runs = <<>>
  BY DEF EvidenceInit
<1>2. review.step = "idle" /\ handoff = None
  BY DEF EvidenceInit, Idle
<1> QED  BY <1>1, <1>2 DEF EvidenceInv, EvidenceTypes, RunsBound, ReviewEarned, HandoffEarned

\* A stored snapshot never says anything else later, whether or not it is kept.
SnapshotsStay ==
  \A id \in DOMAIN snapshots :
    /\ id \in DOMAIN snapshots'
    /\ snapshots'[id].workspace = snapshots[id].workspace /\ snapshots'[id].content = snapshots[id].content

\* A run is about the workspace it was started in, and is settled when it ends.
RunsStay ==
  \A r \in DOMAIN runs :
    /\ r \in DOMAIN runs'
    /\ runs'[r].workspace = runs[r].workspace /\ runs'[r].began = runs[r].began
    /\ runs[r].finished => runs'[r] = runs[r]

\* A report that was earned stays so while the runs go on.
LEMMA ReportStays ==
  ASSUME NEW report, NEW w, NEW seen, ReportEarned(report, w, seen, runs), RunsStay
  PROVE  ReportEarned(report, w, seen, runs')
<1>1. ASSUME NEW r \in DOMAIN report.commands
      PROVE  r \in DOMAIN runs' /\ Earned(report.commands[r], runs'[r], w, seen)
  <2>1. r \in DOMAIN runs /\ Earned(report.commands[r], runs[r], w, seen)
    BY <1>1 DEF ReportEarned
  <2>2. Observed(runs[r], w) => Observed(runs'[r], w)
    BY <2>1 DEF RunsStay, Observed
  <2> QED  BY <2>1, <2>2 DEF RunsStay, Earned
<1> QED  BY <1>1 DEF ReportEarned

\* What happens to snapshots and runs in a step, and that it keeps RunsBound.
LEMMA AppendedSnapshot ==
  ASSUME EvidenceTypes, RunsBound, NEW s \in SnapshotRows, snapshots' = Append(snapshots, s)
  PROVE  /\ snapshots' \in Seq(SnapshotRows) /\ SnapshotsStay
         /\ Len(snapshots') = Len(snapshots) + 1 /\ Len(snapshots') \in DOMAIN snapshots'
         /\ snapshots'[Len(snapshots')] = s /\ Len(snapshots') \notin DOMAIN snapshots
BY DEF EvidenceTypes, SnapshotsStay

LEMMA StartStep ==
  ASSUME EvidenceInv, Start
  PROVE  runs' \in Seq(RunRows) /\ RunsStay /\ RunsBound'
<1> DEFINE run == [before |-> handoff.snapshot, after |-> None, workspace |-> handoff.workspace,
                   started |-> FALSE, finished |-> FALSE, status |-> "running", exit |-> None,
                   began |-> subject[handoff.workspace], ended |-> None]
<1> USE DEF EvidenceInv, EvidenceTypes
<1>1. handoff # None /\ handoff.workspace \in Workspaces /\ handoff.snapshot \in DOMAIN snapshots
  BY DEF Start, HandoffEarned
<1>2. run \in RunRows
  BY <1>1 DEF RunRows, Statuses
<1>3. /\ snapshots[handoff.snapshot].workspace = handoff.workspace
      /\ snapshots[handoff.snapshot].content = subject[handoff.workspace]
  BY CompareMeans DEF Start, Taken
<1>4. runs' = Append(runs, run) /\ snapshots' = snapshots
  BY DEF Start
<1>5. /\ runs' \in Seq(RunRows) /\ runs'[Len(runs) + 1] = run
      /\ DOMAIN runs' = DOMAIN runs \cup {Len(runs) + 1}
      /\ \A r \in DOMAIN runs : runs'[r] = runs[r]
  BY <1>2, <1>4
<1>6. Bound(run, snapshots)
  BY <1>1, <1>3 DEF Bound
<1> HIDE DEF run
<1>7. RunsBound'
  BY <1>4, <1>5, <1>6 DEF RunsBound
<1> QED  BY <1>5, <1>7 DEF RunsStay

LEMMA SpawnedStep ==
  ASSUME EvidenceInv, NEW r \in DOMAIN runs, Spawned(r)
  PROVE  runs' \in Seq(RunRows) /\ RunsStay /\ RunsBound'
<1> USE DEF EvidenceInv, EvidenceTypes
<1>1. runs[r].status = "running" /\ ~runs[r].finished /\ snapshots' = snapshots
  BY DEF Spawned, RunsBound, Bound
<1>2. runs' = [runs EXCEPT ![r] = [runs[r] EXCEPT !.started = TRUE]]
  BY DEF Spawned
<1>3. runs[r] \in RunRows
  OBVIOUS
<1>4. [runs[r] EXCEPT !.started = TRUE] \in RunRows
  BY <1>3 DEF RunRows
<1>5. runs' \in Seq(RunRows) /\ DOMAIN runs' = DOMAIN runs
  BY <1>2, <1>4
<1>6. \A q \in DOMAIN runs : runs'[q] = IF q = r THEN [runs[r] EXCEPT !.started = TRUE] ELSE runs[q]
  BY <1>2
<1>7. RunsStay
  BY <1>1, <1>3, <1>5, <1>6 DEF RunsStay, RunRows
<1>8. \A q \in DOMAIN runs' : Bound(runs'[q], snapshots)
  <2> DEFINE started == [runs[r] EXCEPT !.started = TRUE]
  <2>1. /\ started.before = runs[r].before /\ started.after = runs[r].after
        /\ started.workspace = runs[r].workspace /\ started.began = runs[r].began
        /\ started.ended = runs[r].ended /\ started.finished = runs[r].finished /\ started.status = runs[r].status
    BY <1>3 DEF RunRows
  <2> HIDE DEF started
  <2>2. Bound(started, snapshots)
    BY <2>1 DEF RunsBound, Bound
  <2> QED  BY <1>5, <1>6, <2>2 DEF RunsBound, started
<1> QED  BY <1>1, <1>5, <1>7, <1>8 DEF RunsBound

LEMMA FinishStep ==
  ASSUME EvidenceInv, NEW r \in DOMAIN runs, Finish(r)
  PROVE  /\ runs' \in Seq(RunRows) /\ snapshots' \in Seq(SnapshotRows)
         /\ RunsStay /\ SnapshotsStay /\ RunsBound'
<1> USE DEF EvidenceInv, EvidenceTypes
<1>1. PICK status \in {"exited", "interrupted", "unknown"}, captured \in {"whole", "incomplete", "failed"} :
        /\ snapshots' = IF captured = "failed" THEN snapshots
                        ELSE Append(snapshots, Taken(runs[r].workspace, captured = "whole"))
        /\ runs' = [runs EXCEPT ![r] =
             [@ EXCEPT !.status = status, !.finished = TRUE, !.ended = subject[runs[r].workspace],
                       !.exit = ExitOf(runs[r].started, status),
                       !.after = IF captured = "failed" THEN None ELSE Len(snapshots')]]
  BY DEF Finish
<1> DEFINE snapshot == Taken(runs[r].workspace, captured = "whole")
           run == [runs[r] EXCEPT !.status = status, !.finished = TRUE, !.ended = subject[runs[r].workspace],
                                  !.exit = ExitOf(runs[r].started, status),
                                  !.after = IF captured = "failed" THEN None ELSE Len(snapshots')]
<1>2. runs[r] \in RunRows /\ runs[r].workspace \in Workspaces
  <2>1. runs[r] \in RunRows
    OBVIOUS
  <2> QED  BY <2>1 DEF RunRows
<1>3. snapshot \in SnapshotRows
  BY <1>2 DEF Taken, SnapshotRows
<1>4. /\ snapshots' \in Seq(SnapshotRows) /\ SnapshotsStay
      /\ captured # "failed" =>
           /\ Len(snapshots') \in DOMAIN snapshots' /\ snapshots'[Len(snapshots')] = snapshot
           /\ DOMAIN snapshots' = DOMAIN snapshots \cup {Len(snapshots')}
      /\ captured = "failed" => snapshots' = snapshots
  <2>1. CASE captured = "failed"
    BY <1>1, <2>1 DEF SnapshotsStay
  <2>2. CASE captured # "failed"
    <3>1. snapshots' = Append(snapshots, snapshot)
      BY <1>1, <2>2
    <3> HIDE DEF snapshot
    <3> QED  BY <1>3, <2>2, <3>1, AppendedSnapshot
  <2> QED  BY <2>1, <2>2
<1>5. run \in RunRows
  <2>1. Len(snapshots') \in Nat /\ ExitOf(runs[r].started, status) \in {None, "code"}
        /\ subject[runs[r].workspace] \in Subjects
    BY <1>2, <1>4 DEF ExitOf
  <2> QED  BY <1>2, <2>1 DEF RunRows, Statuses
<1>6. runs' = [runs EXCEPT ![r] = run]
  BY <1>1
<1>7. /\ runs' \in Seq(RunRows) /\ DOMAIN runs' = DOMAIN runs
      /\ \A q \in DOMAIN runs : runs'[q] = IF q = r THEN run ELSE runs[q]
  <2> HIDE DEF run
  <2> QED  BY <1>5, <1>6
<1>8. /\ run.before = runs[r].before /\ run.workspace = runs[r].workspace /\ run.began = runs[r].began
      /\ run.finished /\ run.status # "running" /\ run.ended = subject[runs[r].workspace]
      /\ run.after = IF captured = "failed" THEN None ELSE Len(snapshots')
  BY <1>2 DEF RunRows
<1>9. ~runs[r].finished
  BY DEF Finish, RunsBound, Bound
<1> HIDE DEF run
<1>10. RunsStay
  BY <1>7, <1>8, <1>9 DEF RunsStay
<1>11. ASSUME NEW q \in DOMAIN runs, q # r PROVE Bound(runs'[q], snapshots')
  <2>1. runs'[q] = runs[q] /\ Bound(runs[q], snapshots)
    BY <1>7, <1>11 DEF RunsBound
  <2> QED  BY <1>4, <2>1 DEF Bound, SnapshotsStay
<1>12. Bound(runs'[r], snapshots')
  <2>1. Bound(runs[r], snapshots) /\ runs'[r] = run
    BY <1>7 DEF RunsBound
  <2>2. snapshot.workspace = runs[r].workspace /\ snapshot.content = subject[runs[r].workspace]
    BY DEF Taken
  <2> HIDE DEF snapshot
  <2> QED  BY <1>4, <1>8, <2>1, <2>2 DEF Bound, SnapshotsStay
<1> QED  BY <1>4, <1>7, <1>10, <1>11, <1>12 DEF RunsBound

\* What is under review and what was handed off outlives the steps of the runs
\* and of retention.
LEMMA ReviewStays ==
  ASSUME ReviewEarned, RunsStay, review' = review
  PROVE  ReviewEarned'
<1>1. CASE review.step = "verifying"
  <2>1. ReportEarned(review.report, review.current.workspace, review.current.content, runs)
    BY <1>1 DEF ReviewEarned
  <2>2. ReportEarned(review.report, review.current.workspace, review.current.content, runs')
    BY <2>1, ReportStays
  <2> QED  BY <1>1, <2>2 DEF ReviewEarned
<1>2. CASE review.step # "verifying"
  BY <1>2 DEF ReviewEarned
<1> QED  BY <1>1, <1>2

LEMMA HandoffStays ==
  ASSUME HandoffEarned, RunsStay, SnapshotsStay, handoff' = handoff
  PROVE  HandoffEarned'
<1>1. CASE handoff # None
  <2>1. ReportEarned(handoff.report, handoff.workspace, handoff.seen, runs)
    BY <1>1 DEF HandoffEarned
  <2>2. ReportEarned(handoff.report, handoff.workspace, handoff.seen, runs')
    BY <2>1, ReportStays
  <2> QED  BY <1>1, <2>2 DEF HandoffEarned, SnapshotsStay
<1>2. CASE handoff = None
  BY <1>2 DEF HandoffEarned
<1> QED  BY <1>1, <1>2

LEMMA BoundStay ==
  ASSUME RunsBound, SnapshotsStay, runs' = runs
  PROVE  RunsBound'
BY DEF RunsBound, Bound, SnapshotsStay

LEMMA NothingMoves ==
  /\ snapshots' = snapshots => SnapshotsStay
  /\ runs' = runs => RunsStay
BY DEF SnapshotsStay, RunsStay

LEMMA PruneStep ==
  ASSUME EvidenceTypes, NEW id \in DOMAIN snapshots, Prune(id)
  PROVE  snapshots' \in Seq(SnapshotRows) /\ SnapshotsStay
<1> DEFINE pruned == [snapshots[id] EXCEPT !.kept = FALSE]
<1>1. snapshots[id] \in SnapshotRows
  BY DEF EvidenceTypes
<1>2. /\ pruned \in SnapshotRows /\ pruned.workspace = snapshots[id].workspace
      /\ pruned.content = snapshots[id].content
  BY <1>1 DEF SnapshotRows
<1>3. snapshots' = [snapshots EXCEPT ![id] = pruned]
  BY DEF Prune
<1> HIDE DEF pruned
<1> QED  BY <1>2, <1>3 DEF EvidenceTypes, SnapshotsStay

\* prepareCommandEvidence: the report over all runs is earned when it is made.
LEMMA ReportMade ==
  ASSUME EvidenceTypes, RunsBound, NEW current, NEW stored
  PROVE  ReportEarned(HandoffReport(current, stored), current.workspace, current.content, runs)
<1> DEFINE report == HandoffReport(current, stored)
           answers == {report.commands[r].workspace : r \in DOMAIN runs}
           every == answers \cup {"matched"} \cup (IF logged THEN {NativeEvidence.workspace} ELSE {})
<1>1. /\ report.commands = [r \in DOMAIN runs |-> CommandEvidence(runs[r], current)]
      /\ report.verification = Worst(every)
  BY DEF HandoffReport
<1> HIDE DEF report
<1>2. \A r \in DOMAIN runs :
        /\ Earned(report.commands[r], runs[r], current.workspace, current.content)
        /\ report.commands[r].workspace \in {"matched", "drifted", "unverifiable"}
  BY <1>1, CommandEarned DEF RunsBound
<1>3. every \in SUBSET {"matched", "drifted", "unverifiable"} /\ "matched" \in every
  BY <1>2 DEF NativeEvidence
<1>4. report.verification = "matched" => \A r \in DOMAIN runs : report.commands[r].workspace = "matched"
  <2>1. Worst(every) = "matched" => every = {"matched"}
    <3> HIDE DEF every
    <3> QED  BY <1>3, WorstMatched
  <2>2. \A r \in DOMAIN runs : report.commands[r].workspace \in every
    OBVIOUS
  <2> HIDE DEF every
  <2> QED  BY <1>1, <2>1, <2>2
<1> QED  BY <1>1, <1>2, <1>4 DEF ReportEarned, report

LEMMA EvaluateStep ==
  ASSUME EvidenceInv, Evaluate
  PROVE  ReviewEarned'
<1> DEFINE report == HandoffReport(review.current, review.claim)
<1>1. review.current \in SnapshotRows
  BY DEF Evaluate, Reviewing, EvidenceInv, ReviewEarned
<1>2. ReportEarned(report, review.current.workspace, review.current.content, runs)
  BY ReportMade DEF EvidenceInv
<1>3. /\ review'.step = "verifying" /\ review'.current = review.current /\ review'.report = report
      /\ runs' = runs
  BY DEF Evaluate
<1> HIDE DEF report
<1> QED  BY <1>1, <1>2, <1>3 DEF ReviewEarned

LEMMA SaveStep ==
  ASSUME EvidenceInv, Save
  PROVE  EvidenceInv'
<1> USE DEF EvidenceInv
<1>1. CASE Refuse
  <2>1. UNCHANGED <<subject, snapshots, runs, handoff>> /\ review'.step = "idle"
    BY <1>1 DEF Refuse, Idle
  <2> QED  BY <2>1 DEF EvidenceTypes, RunsBound, ReviewEarned, HandoffEarned
<1>2. CASE ~Refuse
  <2>1. PICK whole \in BOOLEAN :
          /\ Compare(review.current, Taken(review.current.workspace, whole)) = "matched"
          /\ snapshots' = Append(snapshots, review.current)
          /\ handoff'.workspace = review.current.workspace /\ handoff'.snapshot = Len(snapshots')
          /\ handoff'.seen = subject[review.current.workspace] /\ handoff'.report = review.report
          /\ review' = Idle /\ UNCHANGED <<subject, runs>>
    BY <1>2 DEF Save
  <2>2. /\ review.current \in SnapshotRows
        /\ ReportEarned(review.report, review.current.workspace, review.current.content, runs)
    BY DEF Save, Reviewing, ReviewEarned
  <2>3. review.current.content = subject[review.current.workspace] /\ review.current.workspace \in Workspaces
    BY <2>1, <2>2, CompareMeans DEF Taken, SnapshotRows
  <2>4. /\ snapshots' \in Seq(SnapshotRows) /\ SnapshotsStay /\ Len(snapshots') \in DOMAIN snapshots'
    BY <2>1, <2>2, AppendedSnapshot
  <2>5. EvidenceTypes' /\ RunsBound'
    BY <2>1, <2>4, BoundStay DEF EvidenceTypes
  <2>6. ReviewEarned' /\ HandoffEarned'
    BY <2>1, <2>2, <2>3, <2>4 DEF ReviewEarned, HandoffEarned, Idle
  <2> QED  BY <2>5, <2>6
<1> QED  BY <1>1, <1>2

LEMMA EvidenceInductive == EvidenceInv /\ [EvidenceNext]_evidenceVars => EvidenceInv'
<1> SUFFICES ASSUME EvidenceInv, [EvidenceNext]_evidenceVars PROVE EvidenceInv'
  OBVIOUS
<1> USE DEF EvidenceInv
<1>1. ASSUME NEW w \in Workspaces, Work(w) PROVE EvidenceInv'
  <2>1. subject' \in [Workspaces -> Subjects] /\ UNCHANGED <<snapshots, runs, review, handoff>>
    BY <1>1 DEF Work, EvidenceTypes
  <2> QED  BY <2>1 DEF EvidenceTypes, RunsBound, ReviewEarned, HandoffEarned
<1>2. ASSUME NEW w \in Workspaces, Begin(w) PROVE EvidenceInv'
  <2>1. review'.step = "reading" /\ review'.workspace = w /\ UNCHANGED <<subject, snapshots, runs, handoff>>
    BY <1>2 DEF Begin
  <2> QED  BY <2>1 DEF EvidenceTypes, RunsBound, ReviewEarned, HandoffEarned
<1>3. ASSUME NEW r \in DOMAIN runs, Spawned(r) PROVE EvidenceInv'
  <2>1. UNCHANGED <<subject, snapshots, review, handoff>>
    BY <1>3 DEF Spawned
  <2> QED  BY <1>3, <2>1, SpawnedStep, NothingMoves, ReviewStays, HandoffStays DEF EvidenceTypes
<1>4. ASSUME NEW r \in DOMAIN runs, Finish(r) PROVE EvidenceInv'
  <2>1. UNCHANGED <<subject, review, handoff>>
    BY <1>4 DEF Finish
  <2> QED  BY <1>4, <2>1, FinishStep, ReviewStays, HandoffStays DEF EvidenceTypes
<1>5. ASSUME NEW id \in DOMAIN snapshots, Prune(id) PROVE EvidenceInv'
  <2>1. UNCHANGED <<subject, runs, review, handoff>>
    BY <1>5 DEF Prune
  <2> QED  BY <1>5, <2>1, PruneStep, BoundStay, NothingMoves, ReviewStays, HandoffStays DEF EvidenceTypes
<1>6. ASSUME NEW c \in Claims, Import(c) PROVE EvidenceInv'
  <2>1. UNCHANGED <<subject, snapshots, runs, review, handoff>>
    BY <1>6 DEF Import
  <2> QED  BY <2>1 DEF EvidenceTypes, RunsBound, ReviewEarned, HandoffEarned
<1>7. ASSUME Start PROVE EvidenceInv'
  <2>1. UNCHANGED <<subject, snapshots, review, handoff>>
    BY <1>7 DEF Start
  <2> QED  BY <1>7, <2>1, StartStep, NothingMoves, ReviewStays, HandoffStays DEF EvidenceTypes
<1>8. ASSUME Retain PROVE EvidenceInv'
  <2>1. handoff' = None /\ UNCHANGED <<subject, snapshots, runs, review>>
    BY <1>8 DEF Retain
  <2> QED  BY <2>1 DEF EvidenceTypes, RunsBound, ReviewEarned, HandoffEarned
<1>9. ASSUME Capture PROVE EvidenceInv'
  <2>1. UNCHANGED <<subject, snapshots, runs, handoff>>
    BY <1>9 DEF Capture, Refuse
  <2>2. review.workspace \in Workspaces
    BY <1>9 DEF Capture, Reviewing, ReviewEarned
  <2>3. Taken(review.workspace, TRUE) \in SnapshotRows
    BY <2>2 DEF Taken, SnapshotRows, EvidenceTypes
  <2>4. \/ review'.step = "idle"
        \/ review'.step = "captured" /\ review'.current = Taken(review.workspace, TRUE)
    <3>1. CASE Refuse
      BY <3>1 DEF Refuse, Idle
    <3>2. CASE review' = [step |-> "captured", claim |-> review.claim, current |-> Taken(review.workspace, TRUE)]
      BY <3>2
    <3> QED  BY <1>9, <3>1, <3>2 DEF Capture
  <2>5. ReviewEarned'
    BY <2>3, <2>4 DEF ReviewEarned
  <2> QED  BY <2>1, <2>5 DEF EvidenceTypes, RunsBound, HandoffEarned
<1>10. ASSUME Evaluate PROVE EvidenceInv'
  <2>1. UNCHANGED <<subject, snapshots, runs, handoff>>
    BY <1>10 DEF Evaluate
  <2> QED  BY <1>10, <2>1, EvaluateStep DEF EvidenceTypes, RunsBound, HandoffEarned
<1>11. ASSUME Save PROVE EvidenceInv'
  BY <1>11, SaveStep
<1>12. ASSUME UNCHANGED evidenceVars PROVE EvidenceInv'
  <2>1. UNCHANGED <<subject, snapshots, runs, review, handoff>>
    BY <1>12 DEF evidenceVars
  <2> QED  BY <2>1 DEF EvidenceTypes, RunsBound, ReviewEarned, HandoffEarned
<1> QED
  BY <1>1, <1>2, <1>3, <1>4, <1>5, <1>6, <1>7, <1>8, <1>9, <1>10, <1>11, <1>12 DEF EvidenceNext

\* In every reachable state the snapshots of a run are of its own workspace as
\* it was, and the reports under review and in handoffs say only what the runs
\* have earned (prepareCommandEvidence, verifyWorkspace).
THEOREM EvidenceInvariance == EvidenceSpec => []EvidenceInv
<1>1. EvidenceInit => EvidenceInv
  BY EvidenceInitially
<1>2. EvidenceInv /\ [EvidenceNext]_evidenceVars => EvidenceInv'
  BY EvidenceInductive
<1> QED  BY <1>1, <1>2, PTL DEF EvidenceSpec

\* A prepared handoff says of commands, and the evaluation of claims, only what
\* was seen to be so: every run reported as stale or matched was, and a claim is
\* current only if complete and about the workspace as it is.
THEOREM EvidenceIsEarned == EvidenceSpec => []EvidenceEarned
<1>1. EvidenceInv => CommandsAreEarned
  BY DEF EvidenceInv, HandoffEarned, ReportEarned, Earned, Observed, CommandsAreEarned
<1>2. ClaimsAreEarned
  BY ClaimEarned DEF ClaimsAreEarned
<1>3. EvidenceInv => EvidenceEarned
  BY <1>1, <1>2 DEF EvidenceEarned
<1> QED  BY <1>3, EvidenceInvariance, PTL
=============================================================================
