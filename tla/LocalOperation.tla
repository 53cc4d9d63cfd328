--------------------------- MODULE LocalOperation ---------------------------
(***************************************************************************)
(* The application with the scripts of scripts/local around it: Start and  *)
(* Stop keep a file that names the processes; Backup dumps the database    *)
(* and copies the PDF directory of the running application into a bundle,  *)
(* and prunes; Restore puts a bundle in their place.  None of them locks   *)
(* anything, and each can be cut short at any step.  One operator runs at  *)
(* most one instance of each script at a time.                             *)
(***************************************************************************)
EXTENDS PdfReports, BackupRetention, Sequences

CONSTANT MaxBackup \* bound: backups begun

ASSUME BackupAssumption == MaxBackup \in Nat

VARIABLES
  processes, \* lvfi-processes.json: "none", naming the "serving" processes or "gone" ones
  starting,  \* the Start in progress: "no", "checked", "spawned" or, its port taken, "refused"
  orphaned,  \* the serving processes were left by a Start that was killed
  taken,     \* timestamp of the last backup
  stage,     \* place of the backup in progress in Stages, or 0
  disk,      \* directories under BackupRoot that have a manifest: staged or published
  draft,     \* the staging directory of the backup in progress, before its manifest
  restore,   \* the restore in progress
  sound      \* no restore has been cut short, mixed, or run against a live application

scripts == <<processes, starting, orphaned, taken, stage, disk, draft, restore, sound>>
allVars == <<vars, scripts>>

NoFiles == [s \in Snapshot |-> Absent]
NoDraft == [snapshots |-> {}, rows |-> NoFiles, files |-> NoFiles, copied |-> {}, sound |-> FALSE]
NoRestore == [step |-> "none"]
Launcher == <<processes, starting, orphaned>>
Backups == <<taken, stage, disk, draft>>
Database == <<snapshots, rows>>
Application == <<renderer, pc, target, content, answer>>

LocalInit ==
  /\ Init
  /\ processes = "none"
  /\ starting = "no"
  /\ orphaned = FALSE
  /\ taken = 0
  /\ stage = 0
  /\ disk = {}
  /\ draft = NoDraft
  /\ restore = NoRestore
  /\ sound = TRUE

-----------------------------------------------------------------------------
(* Start-Lvfi.ps1 and Stop-Lvfi.ps1. *)

\* Refused when the file exists.  The migration may fail, with nothing started.
StartCheck ==
  /\ starting = "no"
  /\ processes = "none"
  /\ starting' = "checked"
  /\ UNCHANGED <<vars, processes, orphaned, Backups, restore, sound>>

\* A restore that an application runs against is no longer sound.
Spoil == IF restore.step = "none" THEN UNCHANGED restore
         ELSE restore' = [restore EXCEPT !.offline = FALSE]

\* The port may be taken by an instance that the file does not name.
StartSpawn ==
  /\ starting = "checked"
  /\ \/ Run /\ starting' = "spawned" /\ Spoil
     \/ api = "up" /\ starting' = "refused" /\ UNCHANGED <<vars, restore>>
  /\ UNCHANGED <<processes, orphaned, Backups, sound>>

\* The probe answers, whichever instance it comes from.
StartReady ==
  /\ starting \in {"spawned", "refused"}
  /\ api = "up"
  /\ processes' = IF starting = "spawned" THEN "serving" ELSE "gone"
  /\ starting' = "no"
  /\ UNCHANGED <<vars, orphaned, Backups, restore, sound>>

\* Mutant: the started processes are not stopped when Start gives up.
StartGivesUpQuietly ==
  /\ starting # "no"
  /\ starting' = "no"
  /\ UNCHANGED <<vars, processes, orphaned, Backups, restore, sound>>

\* The migration fails or the deadline passes: what was started is killed.
StartGivesUp ==
  /\ starting # "no"
  /\ IF starting = "spawned" /\ api = "up" THEN Kill ELSE UNCHANGED vars
  /\ starting' = "no"
  /\ UNCHANGED <<processes, orphaned, Backups, restore, sound>>

\* The console is closed: the processes go on, and no file names them.
StartKilled ==
  /\ starting \in {"spawned", "refused"}
  /\ orphaned' = (orphaned \/ (starting = "spawned" /\ api = "up"))
  /\ starting' = "no"
  /\ UNCHANGED <<vars, processes, Backups, restore, sound>>

\* The recorded processes by identifier and start time.  An identifier that another
\* process has by now makes Stop refuse before it has changed anything: this step and
\* the next are not taken then, and nothing says that they ever are.
StopKill ==
  /\ processes = "serving"
  /\ Kill
  /\ processes' = "gone"
  /\ UNCHANGED <<starting, orphaned, Backups, restore, sound>>

StopRemove ==
  /\ processes = "gone"
  /\ processes' = "none"
  /\ UNCHANGED <<vars, starting, orphaned, Backups, restore, sound>>

Crash ==
  /\ Kill
  /\ processes' = IF processes = "serving" THEN "gone" ELSE processes
  /\ orphaned' = FALSE
  /\ UNCHANGED <<starting, Backups, restore, sound>>

-----------------------------------------------------------------------------
(* Backup-Lvfi.ps1. *)

\* Mutant: the PDF directory is copied before the database is dumped.
StagesFilesFirst == <<"copy", "dump", "manifest", "publish", "prune">>

Stages == <<"dump", "copy", "manifest", "publish", "prune">>

At(name) == stage > 0 /\ Stages[stage] = name

BackupBegin ==
  /\ stage = 0
  /\ taken < MaxBackup
  /\ taken' = taken + 1
  /\ stage' = 1
  /\ draft' = [NoDraft EXCEPT !.sound = sound]
  /\ UNCHANGED <<vars, Launcher, disk, restore, sound>>

\* pg_dump reads the database as of one moment.
BackupDump ==
  /\ At("dump")
  /\ draft' = [draft EXCEPT !.snapshots = snapshots, !.rows = rows]
  /\ stage' = stage + 1
  /\ UNCHANGED <<vars, Launcher, taken, disk, restore, sound>>

\* One file after the other, as each is at that moment.
BackupCopy(s) ==
  /\ At("copy")
  /\ s \notin draft.copied
  /\ draft' = [draft EXCEPT !.files[s] = files[s], !.copied = @ \cup {s}]
  /\ stage' = IF draft'.copied = Snapshot THEN stage + 1 ELSE stage
  /\ UNCHANGED <<vars, Launcher, taken, disk, restore, sound>>

\* The manifest makes the directory one that Restore accepts and pruning counts.
BackupManifest ==
  /\ At("manifest")
  /\ disk' = disk \cup
       {[at |-> taken, classes |-> RetentionClasses(taken), published |-> FALSE,
         snapshots |-> draft.snapshots, rows |-> draft.rows, files |-> draft.files,
         sound |-> draft.sound]}
  /\ draft' = NoDraft
  /\ stage' = stage + 1
  /\ UNCHANGED <<vars, Launcher, taken, restore, sound>>

BackupPublish ==
  /\ At("publish")
  /\ disk' = {IF b.at = taken THEN [b EXCEPT !.published = TRUE] ELSE b : b \in disk}
  /\ stage' = stage + 1
  /\ UNCHANGED <<vars, Launcher, taken, draft, restore, sound>>

\* -NoPrune skips it.
BackupPrune ==
  /\ At("prune")
  /\ disk' \in {disk, Retained(disk)}
  /\ stage' = 0
  /\ UNCHANGED <<vars, Launcher, taken, draft, restore, sound>>

\* An error removes the staging directory; a script that is killed leaves it.
BackupFails ==
  /\ stage > 0
  /\ \/ disk' = {b \in disk : b.published \/ b.at # taken}
     \/ UNCHANGED disk
  /\ draft' = NoDraft
  /\ stage' = 0
  /\ UNCHANGED <<vars, Launcher, taken, restore, sound>>

-----------------------------------------------------------------------------
(* Restore-Lvfi.ps1. *)

Restoring(name) == restore.step = name

\* The directory of the bundle is where it was.  One that was pruned, or that its backup
\* has renamed or removed since, leaves only RestoreFails.
BundleIsThere == restore.bundle \in disk

\* A backup in progress while a restore is may mix the two states.
Disturb == draft' = IF stage > 0 THEN [draft EXCEPT !.sound = FALSE] ELSE draft

\* The manifest and every hash have been verified; nothing has been written.
RestoreBegin(b, replace) ==
  /\ Restoring("none")
  /\ restore' = [step |-> "clean", bundle |-> b, replace |-> replace, offline |-> api = "down"]
  /\ UNCHANGED <<vars, Launcher, Backups, sound>>

\* pg_restore --clean drops the tables, and is not one transaction.
RestoreClean ==
  /\ Restoring("clean")
  /\ BundleIsThere
  /\ rows' = NoFiles
  /\ snapshots' = {}
  /\ restore' = [restore EXCEPT !.step = "load"]
  /\ sound' = FALSE
  /\ Disturb
  /\ UNCHANGED <<Application, api, files, Launcher, taken, stage, disk>>

\* pg_restore has the dump open and goes on without its directory.  Without
\* -ReplacePdfArtifacts the files stay as they are.
RestoreLoad ==
  /\ Restoring("load")
  /\ rows' = restore.bundle.rows
  /\ snapshots' = restore.bundle.snapshots
  /\ restore' = IF restore.replace THEN [restore EXCEPT !.step = "remove"] ELSE NoRestore
  /\ UNCHANGED <<Application, api, files, Launcher, Backups, sound>>

RestoreRemove ==
  /\ Restoring("remove")
  /\ files' = NoFiles
  /\ restore' = [restore EXCEPT !.step = "copy"]
  /\ UNCHANGED <<Application, api, Database, Launcher, Backups, sound>>

\* The files one after the other.
RestoreCopy(s) ==
  /\ Restoring("copy")
  /\ BundleIsThere
  /\ files[s] # restore.bundle.files[s]
  /\ restore.bundle.files[s] # Absent
  /\ files' = [files EXCEPT ![s] = restore.bundle.files[s]]
  /\ UNCHANGED <<Application, api, Database, Launcher, Backups, restore, sound>>

\* The last line reads the manifest of the bundle once more.
RestoreEnd ==
  /\ Restoring("copy")
  /\ BundleIsThere
  /\ \A s \in Snapshot : restore.bundle.files[s] \in {Absent, files[s]}
  /\ sound' = (restore.bundle.sound /\ restore.offline)
  /\ restore' = NoRestore
  /\ UNCHANGED <<vars, Launcher, Backups>>

RestoreFails ==
  /\ restore.step # "none"
  /\ restore' = NoRestore
  /\ UNCHANGED <<vars, Launcher, Backups, sound>>

-----------------------------------------------------------------------------
LocalNext ==
  \/ \E r \in Request : Generation(r) /\ UNCHANGED scripts
  \/ \E s \in Snapshot : Approve(s) /\ UNCHANGED scripts
  \/ Upgrade /\ UNCHANGED scripts
  \/ StartCheck
  \/ StartSpawn
  \/ StartReady
  \/ StartGivesUp
  \/ StartKilled
  \/ StopKill
  \/ StopRemove
  \/ Crash
  \/ BackupBegin
  \/ BackupDump
  \/ \E s \in Snapshot : BackupCopy(s)
  \/ BackupManifest
  \/ BackupPublish
  \/ BackupPrune
  \/ BackupFails
  \/ \E b \in disk, replace \in BOOLEAN : RestoreBegin(b, replace)
  \/ RestoreClean
  \/ RestoreLoad
  \/ RestoreRemove
  \/ \E s \in Snapshot : RestoreCopy(s)
  \/ RestoreEnd
  \/ RestoreFails

LocalSpec == LocalInit /\ [][LocalNext]_allVars

-----------------------------------------------------------------------------
(* Properties. *)

Bundle == [at : 1..MaxBackup, classes : SUBSET Class, published : BOOLEAN,
           snapshots : SUBSET Snapshot, rows : [Snapshot -> Bytes \cup {Absent}],
           files : [Snapshot -> Bytes \cup {Absent, Torn}], sound : BOOLEAN]

TypeOK ==
  /\ PdfTypeOK
  /\ processes \in {"none", "serving", "gone"}
  /\ starting \in {"no", "checked", "spawned", "refused"}
  /\ orphaned \in BOOLEAN
  /\ taken \in 0..MaxBackup
  /\ stage \in 0..Len(Stages)
  /\ disk \subseteq Bundle
  /\ draft.copied \subseteq Snapshot
  /\ restore.step \in {"none", "clean", "load", "remove", "copy"}
  /\ sound \in BOOLEAN

\* An artifact that has a row can be downloaded, unless a restore is under way, was cut
\* short, left the files as they were, or ran with the application up: no crash, full
\* disk, repeated request, new renderer, stop, backup or restore that went through
\* leaves a row whose file is missing, cut short or of other bytes.  generate would
\* return such a row for ever and never write its file again.
ArtifactsCanBeDownloaded == sound => RowsHaveTheirFile

\* A bundle taken from a sound application has the file of every row in its dump, with
\* the bytes of the hash: requests that write files and rows between the dump and the
\* copies, and requests killed between the two, never leave it with a row alone.
BundlesAreConsistent ==
  \A b \in disk : b.sound =>
    \A s \in Snapshot : b.rows[s] # Absent => b.files[s] = b.rows[s] /\ s \in b.snapshots

\* What serves is what the file of Start names or a Start in progress is about to write
\* into it, so that Stop ends it, unless a Start was killed before it wrote the file.
ServingIsKnown ==
  api = "up" => orphaned \/ processes = "serving" \/ starting = "spawned"

\* A request that answers with an artifact answers with the one that is stored.
AnswerIsStored ==
  [][\A r \in Request : answer'[r] # answer[r] /\ answer'[r] # Absent =>
       answer'[r] = rows'[target[r]]]_allVars
=============================================================================
