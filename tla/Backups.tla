------------------------------ MODULE Backups ------------------------------
(***************************************************************************)
(* Backups of the database and the media (infra/ops/backup.py, locking.py) *)
(* and their restoration to new targets (infra/ops/restore.py).            *)
(*                                                                         *)
(* The scheduler and operators start backups, one at a time behind a file  *)
(* lock that the kernel gives back when its holder is killed; restores     *)
(* take no lock and may read a backup while it is pruned.                  *)
(***************************************************************************)
EXTENDS Integers

CONSTANTS
  Runs,       \* processes of backup.py
  Restores,   \* processes of restore.py
  DbTargets,  \* names given to new databases
  MaxNow,     \* bound: days; a backup's timestamp is the day it is given
  Retention,  \* BACKUP_RETENTION_DAYS, at least one (validate_env.py)
  NoRun       \* the lock is free

ASSUME BackupsAssumption ==
  /\ MaxNow \in Nat /\ Retention \in Nat \ {0}
  /\ NoRun \notin Runs /\ DbTargets # {}

Stamps == 0..MaxNow
NoStamp == -1

VARIABLES
  now,      \* the day
  target,   \* files in the directory of each backup
  partial,  \* files in its staging directory
  lock,     \* holder of .backup.lock
  run,      \* where each backup is
  kept,     \* backups that were reported as completed
  restore,  \* where each restore is
  database, \* what each new database was restored from
  media     \* what the new media directory was restored from

bakVars == <<now, target, partial, lock, run, kept, restore, database, media>>
diskVars == <<target, partial, lock, run, kept>>
restoreVars == <<restore, database, media>>

(* A directory that is not there, one that is, and what a backup holds.    *)
NoDir == {"absent"}
Files == {"database", "media", "manifest"}
Dirs == {NoDir} \cup SUBSET Files
Whole(s) == target[s] = Files

RunIdle == [at |-> "idle", stamp |-> NoStamp, cutoff |-> 0, pruned |-> NoStamp]
RestoreIdle == [at |-> "idle", stamp |-> NoStamp, db |-> CHOOSE d \in DbTargets : TRUE]
NoCopy == [from |-> NoStamp, whole |-> FALSE]

BackupsInit ==
  /\ now = 0
  /\ target = [s \in Stamps |-> NoDir]
  /\ partial = [s \in Stamps |-> NoDir]
  /\ lock = NoRun
  /\ run = [p \in Runs |-> RunIdle]
  /\ kept = {}
  /\ restore = [r \in Restores |-> RestoreIdle]
  /\ database = [d \in DbTargets |-> NoCopy]
  /\ media = NoStamp

-----------------------------------------------------------------------------
Goes(p, step) == run' = [run EXCEPT ![p].at = step]

(* The timestamp is today's, or any the operator gives.                    *)
StartBackup(p) ==
  /\ run[p].at = "idle" /\ lock = NoRun
  /\ \E s \in Stamps : run' = [run EXCEPT ![p] = [RunIdle EXCEPT !.at = "dump", !.stamp = s]]
  /\ lock' = p
  /\ UNCHANGED <<now, target, partial, kept, restoreVars>>

(* The handler of every error, which removes whatever staging directory    *)
(* has the timestamp.                                                      *)
BackupFails(p) ==
  LET s == run[p].stamp IN
  /\ run[p].at # "idle"
  /\ partial' = [partial EXCEPT ![s] = NoDir]
  /\ lock' = NoRun
  /\ run' = [run EXCEPT ![p] = RunIdle]
  /\ UNCHANGED <<now, target, kept, restoreVars>>

Dump(p) ==
  LET s == run[p].stamp IN
  /\ run[p].at = "dump"
  /\ target[s] = NoDir /\ partial[s] = NoDir
  /\ partial' = [partial EXCEPT ![s] = {"database"}]
  /\ Goes(p, "archive")
  /\ UNCHANGED <<now, target, lock, kept, restoreVars>>

ArchiveMedia(p) ==
  /\ run[p].at = "archive"
  /\ partial' = [partial EXCEPT ![run[p].stamp] = @ \cup {"media"}]
  /\ Goes(p, "manifest")
  /\ UNCHANGED <<now, target, lock, kept, restoreVars>>

WriteManifest(p) ==
  /\ run[p].at = "manifest"
  /\ partial' = [partial EXCEPT ![run[p].stamp] = @ \cup {"manifest"}]
  /\ Goes(p, "rename")
  /\ UNCHANGED <<now, target, lock, kept, restoreVars>>

(* The backup appears under its name at once; then restic, if it is set.   *)
Rename(p) ==
  LET s == run[p].stamp IN
  /\ run[p].at = "rename"
  /\ target' = [target EXCEPT ![s] = partial[s]]
  /\ partial' = [partial EXCEPT ![s] = NoDir]
  /\ run' = [run EXCEPT ![p].at = "prune", ![p].cutoff = now - Retention]
  /\ UNCHANGED <<now, lock, kept, restoreVars>>

(* prune_local: what is old enough to go; the other form spares nothing    *)
(* but the newest day.                                                     *)
OldEnoughToday(p, s) == s < now
OldEnough(p, s) == s < run[p].cutoff

PruneNext(p) ==
  \E s \in Stamps :
    /\ run[p].at = "prune" /\ run[p].pruned = NoStamp
    /\ "manifest" \in target[s] /\ OldEnough(p, s)
    /\ run' = [run EXCEPT ![p].pruned = s]
    /\ UNCHANGED <<now, target, partial, lock, kept, restoreVars>>

(* rmtree goes file by file, in any order.                                 *)
PruneFile(p) ==
  LET s == run[p].pruned IN
  /\ run[p].at = "prune" /\ s # NoStamp
  /\ IF target[s] = {}
     THEN target' = [target EXCEPT ![s] = NoDir] /\ run' = [run EXCEPT ![p].pruned = NoStamp]
     ELSE /\ \E f \in target[s] : target' = [target EXCEPT ![s] = @ \ {f}]
          /\ UNCHANGED run
  /\ UNCHANGED <<now, partial, lock, kept, restoreVars>>

PruneEnds(p) ==
  /\ run[p].at = "prune" /\ run[p].pruned = NoStamp
  /\ \A s \in Stamps : ~("manifest" \in target[s] /\ OldEnough(p, s))
  /\ Goes(p, "verify")
  /\ UNCHANGED <<now, target, partial, lock, kept, restoreVars>>

(* Both files are read again and must have the manifest's checksums.       *)
Verified(s) == Whole(s)

BackupEnds(p) ==
  /\ run[p].at = "verify" /\ Verified(run[p].stamp)
  /\ kept' = kept \cup {run[p].stamp}
  /\ lock' = NoRun
  /\ run' = [run EXCEPT ![p] = RunIdle]
  /\ UNCHANGED <<now, target, partial, restoreVars>>

(* Killed: the kernel frees the lock and the directories stay.             *)
BackupIsKilled(p) ==
  /\ run[p].at # "idle"
  /\ lock' = NoRun
  /\ run' = [run EXCEPT ![p] = RunIdle]
  /\ UNCHANGED <<now, target, partial, kept, restoreVars>>

-----------------------------------------------------------------------------
RestoreGoes(r, step) == restore' = [restore EXCEPT ![r].at = step]

(* The backup is verified and neither target is there.                     *)
StartRestore(r) ==
  /\ restore[r].at = "idle"
  /\ \E s \in Stamps, d \in DbTargets :
       /\ Whole(s) /\ media = NoStamp /\ database[d] = NoCopy
       /\ restore' = [restore EXCEPT ![r] = [at |-> "create", stamp |-> s, db |-> d]]
  /\ UNCHANGED <<now, diskVars, database, media>>

(* createdb refuses a name that has been taken meanwhile, and then there   *)
(* is nothing to drop; the other form drops whatever has the name.         *)
CreateDb(r) ==
  LET d == restore[r].db IN
  /\ restore[r].at = "create" /\ database[d] = NoCopy
  /\ database' = [database EXCEPT ![d].from = restore[r].stamp]
  /\ RestoreGoes(r, "load")
  /\ UNCHANGED <<now, diskVars, media>>

LoadDb(r) ==
  LET s == restore[r].stamp IN
  /\ restore[r].at = "load" /\ "database" \in target[s]
  /\ database' = [database EXCEPT ![restore[r].db].whole = TRUE]
  /\ RestoreGoes(r, "extract")
  /\ UNCHANGED <<now, diskVars, media>>

(* The archive is extracted beside the target and renamed, which another   *)
(* restore may have done first.                                            *)
ExtractMedia(r) ==
  /\ restore[r].at = "extract" /\ "media" \in target[restore[r].stamp]
  /\ media = NoStamp
  /\ media' = restore[r].stamp
  /\ restore' = [restore EXCEPT ![r] = RestoreIdle]
  /\ UNCHANGED <<now, diskVars, database>>

DropsDb(r) == restore[r].at # "create"

RestoreFails(r) ==
  /\ restore[r].at # "idle"
  /\ restore' = [restore EXCEPT ![r] = RestoreIdle]
  /\ database' = IF DropsDb(r) THEN [database EXCEPT ![restore[r].db] = NoCopy] ELSE database
  /\ UNCHANGED <<now, diskVars, media>>

RestoreIsKilled(r) ==
  /\ restore[r].at # "idle"
  /\ restore' = [restore EXCEPT ![r] = RestoreIdle]
  /\ UNCHANGED <<now, diskVars, database, media>>

NextDay ==
  /\ now < MaxNow
  /\ now' = now + 1
  /\ UNCHANGED <<diskVars, restoreVars>>

BackupsNext ==
  \/ \E p \in Runs :
       \/ StartBackup(p) \/ Dump(p) \/ ArchiveMedia(p) \/ WriteManifest(p) \/ Rename(p)
       \/ PruneNext(p) \/ PruneFile(p) \/ PruneEnds(p) \/ BackupEnds(p)
       \/ BackupFails(p) \/ BackupIsKilled(p)
  \/ \E r \in Restores :
       \/ StartRestore(r) \/ CreateDb(r) \/ LoadDb(r) \/ ExtractMedia(r)
       \/ RestoreFails(r) \/ RestoreIsKilled(r)
  \/ NextDay

BackupsSpec == BackupsInit /\ [][BackupsNext]_bakVars

-----------------------------------------------------------------------------
BackupsTypeOK ==
  /\ now \in Stamps
  /\ target \in [Stamps -> Dirs] /\ partial \in [Stamps -> Dirs]
  /\ lock \in Runs \cup {NoRun}
  /\ run \in [Runs -> [at : {"idle", "dump", "archive", "manifest", "rename", "prune", "verify"},
                       stamp : Stamps \cup {NoStamp}, cutoff : Int,
                       pruned : Stamps \cup {NoStamp}]]
  /\ kept \subseteq Stamps
  /\ restore \in [Restores -> [at : {"idle", "create", "load", "extract"},
                               stamp : Stamps \cup {NoStamp}, db : DbTargets]]
  /\ database \in [DbTargets -> [from : Stamps \cup {NoStamp}, whole : BOOLEAN]]
  /\ media \in Stamps \cup {NoStamp}

(* A backup that was reported as completed is there and whole as long as   *)
(* it is to be retained, whatever runs fail, are killed half way through   *)
(* pruning, or are given a timestamp of another day (backup.py:29-37, 130, *)
(* 155-160).                                                               *)
CompletedIsKept == \A s \in kept : s >= now - Retention => Whole(s)

(* Where the media of a backup have been restored there is a database      *)
(* restored from the same backup, though restores race for the same        *)
(* targets, fail and drop what they made, or lose their backup to pruning  *)
(* (restore.py:117-160).                                                   *)
RestoredIsWhole ==
  media # NoStamp => \E d \in DbTargets : database[d] = [from |-> media, whole |-> TRUE]
=============================================================================
