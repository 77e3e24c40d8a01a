------------------------------ MODULE ModStore ------------------------------
(***************************************************************************)
(* The packages of the client, characters/mod_store.py: one directory per  *)
(* package under installed/, replaced by two renames with a backup beside  *)
(* it.  Every step of the file system may fail, and the process may die    *)
(* between two of them; removing a tree that fails half-way leaves it      *)
(* torn.  An installation and a removal exclude each other as operations   *)
(* of AppState do.                                                         *)
(***************************************************************************)
EXTENDS Naturals

CONSTANTS
  Mods,            \* ids of packages
  MaxVersion       \* bound on their versions

ASSUME ModAssumption == MaxVersion \in Nat \ {0}

Versions == 1..MaxVersion
Absent == 0                   \* no directory
Torn == MaxVersion + 1        \* a directory part of which has been removed
Contents == 0..Torn
Whole(content) == content \in Versions

Archives == [id: Mods, version: Versions]
NoArchive == [id |-> "none", version |-> Absent]

Steps == {"idle", "stage", "clear_backup", "set_aside", "move_in", "drop_backup", "done"}

VARIABLES
  target, backup,  \* installed/<id> and installed/.<id>.backup
  step, archive,   \* where install_selected_archive is, and the candidate
  kept,            \* history: installed, and not removed since
  interrupted      \* history: an installation ended between the two renames

vars == <<target, backup, step, archive, kept, interrupted>>

TypeOK ==
  /\ target \in [Mods -> Contents]
  /\ backup \in [Mods -> Contents]
  /\ step \in Steps
  /\ archive \in Archives \cup {NoArchive}
  /\ (step = "idle") <=> (archive = NoArchive)
  /\ kept \in SUBSET Mods
  /\ interrupted \in SUBSET Mods

Init ==
  /\ target = [m \in Mods |-> Absent]
  /\ backup = [m \in Mods |-> Absent]
  /\ step = "idle"
  /\ archive = NoArchive
  /\ kept = {}
  /\ interrupted = {}

-----------------------------------------------------------------------------
\* What installed_manifests may find of a package: a torn directory may have
\* kept its manifest, and a backup has one of the same id, read first.
ManifestIn(content) ==
  IF content = Torn THEN {Absent} \cup Versions ELSE {content}

Listed(m) ==
  UNION {IF v = Absent THEN ManifestIn(backup[m]) ELSE {v} : v \in ManifestIn(target[m])}

\* install_selected_archive, up to the unpacked candidate.
BeginInstall(a) ==
  /\ step = "idle"
  /\ step' = "stage"
  /\ archive' = a
  /\ UNCHANGED <<target, backup, kept, interrupted>>

\* _stage_archive and the version check.  An archive that is invalid, or has
\* a bundled id, is refused.
Stage ==
  /\ step = "stage"
  /\ \/ step' = "done"
     \/ \E installed \in Listed(archive.id) :
          step' = IF archive.version < installed THEN "done" ELSE "clear_backup"
  /\ UNCHANGED <<target, backup, archive, kept, interrupted>>

\* shutil.rmtree of the backup, if there is one.
RemoveBackup(before, after) ==
  /\ step = before
  /\ \/ /\ backup' = [backup EXCEPT ![archive.id] = Absent]
        /\ step' = after
     \/ /\ backup[archive.id] # Absent
        /\ backup' = [backup EXCEPT ![archive.id] = Torn]
        /\ step' = "done"
  /\ UNCHANGED <<target, archive, kept, interrupted>>

\* _activate, first lines: a backup left by an earlier installation goes.
ClearBackup == RemoveBackup("clear_backup", "set_aside")

\* _activate: the live directory becomes the backup.
SetAside ==
  /\ step = "set_aside"
  /\ LET m == archive.id
         moved == target[m] # Absent
     IN  \/ /\ moved
            /\ backup' = [backup EXCEPT ![m] = target[m]]
            /\ target' = [target EXCEPT ![m] = Absent]
            /\ step' = "move_in"
         \/ /\ step' = IF moved THEN "done" ELSE "move_in"
            /\ UNCHANGED <<target, backup>>
  /\ UNCHANGED <<archive, kept, interrupted>>

\* Mutant: the error is reported, the backup left where it is.
LeaveBackup(m) == UNCHANGED <<target, backup, kept, interrupted>>

\* _activate, when the candidate cannot be moved: the backup is live again.
Restore(m) ==
  \/ /\ target' = [target EXCEPT ![m] = backup[m]]
     /\ backup' = [backup EXCEPT ![m] = Absent]
     /\ UNCHANGED <<kept, interrupted>>
  \/ /\ backup[m] # Absent
     /\ interrupted' = interrupted \cup {m}
     /\ UNCHANGED <<target, backup, kept>>

\* _activate: the candidate becomes live.
MoveIn ==
  /\ step = "move_in"
  /\ LET m == archive.id
     IN  \/ /\ target' = [target EXCEPT ![m] = archive.version]
            /\ kept' = kept \cup {m}
            /\ interrupted' = interrupted \ {m}
            /\ step' = "drop_backup"
            /\ UNCHANGED backup
         \/ Restore(m) /\ step' = "done"
  /\ UNCHANGED archive

DropBackup == RemoveBackup("drop_backup", "done")

\* Mutant: the candidate outlives its installation.
EndKeepingCandidate ==
  /\ step = "done"
  /\ step' = "idle"
  /\ UNCHANGED <<target, backup, archive, kept, interrupted>>

\* install_selected_archive returns, its staging directory cleared or not.
EndInstall ==
  /\ step = "done"
  /\ step' = "idle"
  /\ archive' = NoArchive
  /\ UNCHANGED <<target, backup, kept, interrupted>>

\* remove: rmtree of the live directory.
Remove(m, content) ==
  /\ step = "idle"
  /\ target[m] # Absent
  /\ target' = [target EXCEPT ![m] = content]
  /\ kept' = kept \ {m}
  /\ interrupted' = interrupted \ {m}
  /\ UNCHANGED <<backup, step, archive>>

\* The process dies, possibly within the rmtree of a backup.
Crash ==
  /\ step' = "idle"
  /\ archive' = NoArchive
  /\ interrupted' = IF step = "move_in" THEN interrupted \cup {archive.id} ELSE interrupted
  /\ \/ UNCHANGED backup
     \/ /\ step \in {"clear_backup", "drop_backup"}
        /\ backup[archive.id] # Absent
        /\ backup' = [backup EXCEPT ![archive.id] = Torn]
  /\ UNCHANGED <<target, kept>>

Next ==
  \/ \E a \in Archives : BeginInstall(a)
  \/ Stage \/ ClearBackup \/ SetAside \/ MoveIn \/ DropBackup \/ EndInstall
  \/ \E m \in Mods, content \in {Absent, Torn} : Remove(m, content)
  \/ Crash

Spec == Init /\ [][Next]_vars

-----------------------------------------------------------------------------
\* A package that was installed and not removed stays installed, whatever
\* fails of a later installation of it: the old version or the new one is
\* live, or set aside for as long as the installation has not moved the new
\* one in.  Only a crash right there, or a backup that cannot be moved back
\* either, leaves it without (mod_store.py:316 then deletes the backup).
PackageKept ==
  \A m \in kept \ interrupted :
    \/ Whole(target[m])
    \/ step = "move_in" /\ archive.id = m /\ Whole(backup[m])
=============================================================================
