---------------------------- MODULE TrialBackup ----------------------------
(***************************************************************************)
(* Backups of the operational trial (operations/trial_backup.py): a copy of*)
(* a ledger that its observer keeps committing to, published by its        *)
(* manifest, verified and restored into an isolated directory.  A ledger is*)
(* its version; a torn or damaged file is Torn; the digest of a file stands*)
(* for its content.  Crashes, failing calls and power losses come between  *)
(* any two steps; after a power loss every directory entry that was not    *)
(* synced may be the old one or the new one.  Paths, schema and space      *)
(* checks only refuse a backup.                                            *)
(***************************************************************************)
EXTENDS Integers, FiniteSets

CONSTANT MaxVersion
ASSUME BackupAssumption == MaxVersion \in Nat \ {0}

VARIABLES ledger,      \* the live database
          maker,       \* what create_backup has done last
          begunAt,     \* the ledger's version when it began
          digest,      \* of the building file
          folder,      \* the destination directory as processes see it
          disk,        \* and what of it survives a power loss
          flushed,     \* files whose content is durable
          returned,    \* the manifest create_backup has returned, or NoVersion
          exercise,    \* what restore_backup has done last
          copy,        \* restored.sqlite3
          verified     \* restore-verification.json: the digest it names, or NoVersion

backupVars == <<ledger, maker, begunAt, digest, folder, disk, flushed, returned, exercise, copy, verified>>

NoVersion == -1
Torn == 0
Files == {"building", "snapshot", "manifest"}
Empty == [f \in Files |-> NoVersion]

BackupInit ==
    /\ ledger = 1 /\ maker = "idle" /\ begunAt = 0 /\ digest = NoVersion /\ folder = Empty /\ disk = Empty
    /\ flushed = {} /\ returned = NoVersion /\ exercise = "idle" /\ copy = NoVersion /\ verified = NoVersion

ObserverCommits ==
    /\ ledger < MaxVersion /\ ledger' = ledger + 1
    /\ UNCHANGED <<maker, begunAt, digest, folder, disk, flushed, returned, exercise, copy, verified>>

\* Only a new destination is used.
NewDestination ==
    /\ maker = "idle" /\ folder = Empty /\ disk = Empty /\ exercise = "idle"
    /\ maker' = "copying" /\ begunAt' = ledger /\ folder' = [Empty EXCEPT !["building"] = Torn]
    /\ UNCHANGED <<ledger, digest, disk, flushed, returned, exercise, copy, verified>>

\* The online backup ends with one committed version, the last one it saw: it
\* starts over when the ledger changes.
CopyLedger ==
    /\ maker = "copying" /\ maker' = "copied" /\ folder' = [folder EXCEPT !["building"] = ledger]
    /\ UNCHANGED <<ledger, begunAt, digest, disk, flushed, returned, exercise, copy, verified>>

Flush ==
    /\ maker = "copied" /\ maker' = "flushed" /\ flushed' = flushed \cup {"building"}
    /\ UNCHANGED <<ledger, begunAt, digest, folder, disk, returned, exercise, copy, verified>>

Renamed(names) == (names \ {"building"}) \cup (IF "building" \in names THEN {"snapshot"} ELSE {})
NameSnapshot ==
    /\ maker = "flushed" /\ maker' = "named" /\ digest' = folder["building"]
    /\ folder' = [folder EXCEPT !["building"] = NoVersion, !["snapshot"] = folder["building"]]
    /\ flushed' = Renamed(flushed)
    /\ UNCHANGED <<ledger, begunAt, disk, returned, exercise, copy, verified>>

\* The manifest is written exclusively and its content synced.
WriteManifest ==
    /\ maker = "named" /\ maker' = "listed"
    /\ folder' = [folder EXCEPT !["manifest"] = digest] /\ flushed' = flushed \cup {"manifest"}
    /\ UNCHANGED <<ledger, begunAt, digest, disk, returned, exercise, copy, verified>>

SyncedNames == [f \in Files |-> IF f \in flushed THEN folder[f] ELSE IF folder[f] = NoVersion THEN NoVersion ELSE Torn]
Publish ==
    /\ maker = "listed" /\ maker' = "idle" /\ disk' = SyncedNames /\ returned' = folder["manifest"]
    /\ UNCHANGED <<ledger, begunAt, digest, folder, flushed, exercise, copy, verified>>

\* An exception or a timeout removes the destination; a crash leaves it.
MakerFails ==
    /\ maker \notin {"idle"} /\ maker' = "idle" /\ folder' = Empty /\ disk' = Empty /\ flushed' = {}
    /\ UNCHANGED <<ledger, begunAt, digest, returned, exercise, copy, verified>>
Crash ==
    /\ maker # "idle" \/ exercise # "idle"
    /\ maker' = "idle" /\ exercise' = "idle"
    /\ UNCHANGED <<ledger, begunAt, digest, folder, disk, flushed, returned, copy, verified>>
BackupPowerLoss(kept) ==
    /\ folder' = [f \in Files |-> IF f \in kept THEN SyncedNames[f] ELSE disk[f]]
    /\ disk' = folder' /\ flushed' = {f \in Files : folder'[f] # NoVersion}
    /\ maker' = "idle" /\ exercise' = "idle" /\ copy' = IF verified = NoVersion THEN NoVersion ELSE copy
    /\ UNCHANGED <<ledger, begunAt, digest, returned, verified>>

\* A stored file decays.
Decay(f) ==
    /\ maker = "idle" /\ folder[f] \notin {NoVersion, Torn}
    /\ folder' = [folder EXCEPT ![f] = Torn] /\ disk' = [disk EXCEPT ![f] = Torn]
    /\ returned' = NoVersion
    /\ UNCHANGED <<ledger, maker, begunAt, digest, flushed, exercise, copy, verified>>

\* verify_backup: a manifest, a snapshot, and one digest for both.
Verifies(at) == at["manifest"] \notin {NoVersion, Torn} /\ at["snapshot"] = at["manifest"]

\* restore_backup: verify, copy into a new directory, compare, then say so.
BeginRestore ==
    /\ exercise = "idle" /\ copy = NoVersion /\ Verifies(folder)
    /\ exercise' = "copying"
    /\ UNCHANGED <<ledger, maker, begunAt, digest, folder, disk, flushed, returned, copy, verified>>
CopyRestore ==
    /\ exercise = "copying" /\ exercise' = "copied"
    /\ copy' = folder["snapshot"]
    /\ UNCHANGED <<ledger, maker, begunAt, digest, folder, disk, flushed, returned, verified>>
\* The digest compared with is the one of the manifest that was verified.
ConfirmRestore ==
    /\ exercise = "copied" /\ exercise' = "idle"
    /\ IF copy \notin {NoVersion, Torn} /\ copy = digest
       THEN verified' = digest /\ UNCHANGED copy
       ELSE copy' = NoVersion /\ UNCHANGED verified
    /\ UNCHANGED <<ledger, maker, begunAt, digest, folder, disk, flushed, returned>>

BackupNext ==
    \/ ObserverCommits \/ NewDestination \/ CopyLedger \/ Flush \/ NameSnapshot \/ WriteManifest \/ Publish
    \/ MakerFails \/ Crash \/ BeginRestore \/ CopyRestore \/ ConfirmRestore
    \/ \E kept \in SUBSET Files : BackupPowerLoss(kept)
    \/ \E f \in Files : Decay(f)

BackupSpec == BackupInit /\ [][BackupNext]_backupVars

-----------------------------------------------------------------------------
BackupTypeOK ==
    /\ ledger \in 1..MaxVersion /\ maker \in {"idle", "copying", "copied", "flushed", "named", "listed"}
    /\ \A f \in Files : folder[f] \in NoVersion..MaxVersion /\ disk[f] \in NoVersion..MaxVersion

\* Whatever failed, crashed, lost power or decayed: what verifies is a version
\* the ledger committed at or after the backup began, and so is what a restore
\* confirms.
VerifiedBackupsAreReal ==
    /\ Verifies(folder) => folder["snapshot"] \in begunAt..ledger
    /\ verified # NoVersion => copy = verified

\* A backup that was reported as made verifies after a power loss too.
ReportedBackupsSurvive == returned # NoVersion /\ folder # Empty => Verifies(disk)

BackupsAreSound == VerifiedBackupsAreReal /\ ReportedBackupsSurvive
=============================================================================
