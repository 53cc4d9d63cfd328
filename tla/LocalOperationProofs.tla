------------------------ MODULE LocalOperationProofs ------------------------
(***************************************************************************)
(* Proofs about LocalOperation, for every number of requests, snapshots,   *)
(* renderers and backups.  That an artifact keeps its file rests on the    *)
(* lock of a snapshot, and on what a request knows of the row it is about  *)
(* to write; that a bundle has every file of its dump rests on rows never  *)
(* changing, which makes the dump a lower bound of what is copied after    *)
(* it; that both outlive a restore rests on no application running during  *)
(* it, and on a backup that overlaps with it counting for nothing.         *)
(***************************************************************************)
EXTENDS LocalOperation, TLAPS

Row == Bytes \cup {Absent}
File == Bytes \cup {Absent, Torn}

Draft == [snapshots : SUBSET Snapshot, rows : [Snapshot -> Row], files : [Snapshot -> File],
          copied : SUBSET Snapshot, sound : BOOLEAN]

Restore == [step : {"clean", "load", "remove", "copy"}, bundle : Bundle,
            replace : BOOLEAN, offline : BOOLEAN]

Typed ==
  /\ PdfTypeOK
  /\ processes \in {"none", "serving", "gone"}
  /\ starting \in {"no", "checked", "spawned", "refused"}
  /\ orphaned \in BOOLEAN
  /\ taken \in 0..MaxBackup
  /\ stage \in 0..5
  /\ stage > 0 => taken > 0
  /\ disk \subseteq Bundle
  /\ draft \in Draft
  /\ restore \in Restore \cup {NoRestore}
  /\ sound \in BOOLEAN

\* The requests: one holds the lock of a snapshot, none outlives the process, and what a
\* request has rendered is what it writes.
OneHolder ==
  \A q, r \in Request : pc[q] \in Locked /\ pc[r] \in Locked /\ target[q] = target[r] => q = r

DownIsIdle == api = "down" => \A r \in Request : pc[r] = "idle"

Making == {"rendering", "rendered", "writing", "written"}

Rendered ==
  \A r \in Request : pc[r] \in {"rendered", "writing", "written"} => content[r] \in Bytes

\* A request that is making an artifact has found none, and there still is none.
NoneYet ==
  \A r \in Request : pc[r] \in Making =>
    /\ rows[target[r]] = Absent
    /\ pc[r] = "written" => files[target[r]] = content[r]

RowsAreFiled ==
  \A s \in Snapshot : rows[s] # Absent => files[s] = rows[s] /\ s \in snapshots

Sound == sound => NoneYet /\ RowsAreFiled /\ restore.step \in {"none", "clean"}

\* The backup and what is on the disk.
Consistent(b) ==
  b.sound => \A s \in Snapshot : b.rows[s] # Absent => b.files[s] = b.rows[s] /\ s \in b.snapshots

DraftFollows ==
  /\ stage \in {0, 4, 5} => ~draft.sound
  /\ stage = 1 => draft.copied = {}
  /\ stage = 3 => draft.copied = Snapshot
  /\ draft.sound =>
       /\ sound
       /\ \A s \in Snapshot : draft.rows[s] # Absent =>
            /\ rows[s] = draft.rows[s]
            /\ s \in draft.snapshots
            /\ s \in draft.copied => draft.files[s] = draft.rows[s]

\* The restore: with the application down nothing changes what it has written.
RestoreHolds ==
  restore # NoRestore =>
    /\ Consistent(restore.bundle)
    /\ restore.offline =>
         /\ api = "down"
         /\ restore.step \in {"remove", "copy"} =>
              rows = restore.bundle.rows /\ snapshots = restore.bundle.snapshots

StartFindsNoFile == starting # "no" => processes = "none"

IInv ==
  /\ Typed
  /\ OneHolder
  /\ DownIsIdle
  /\ Rendered
  /\ Sound
  /\ DraftFollows
  /\ \A b \in disk : Consistent(b)
  /\ RestoreHolds
  /\ StartFindsNoFile
  /\ ServingIsKnown
-----------------------------------------------------------------------------
\* Nothing is stored and nothing runs at first.
LEMMA InitIInv == LocalInit => IInv
<1> SUFFICES ASSUME LocalInit PROVE IInv
  OBVIOUS
<1> USE PdfAssumption, BackupAssumption DEF LocalInit, Init
<1>1. Typed
  <2>1. PdfTypeOK
    BY DEF PdfTypeOK, Bytes, Locked
  <2>2. draft \in Draft /\ restore \in Restore \cup {NoRestore}
    BY DEF Draft, NoDraft, NoFiles, Row, File
  <2>3. taken \in 0..MaxBackup /\ stage \in 0..5 /\ ~(stage > 0)
    OBVIOUS
  <2>4. disk \subseteq Bundle
    OBVIOUS
  <2>5. orphaned \in BOOLEAN /\ sound \in BOOLEAN
    BY Zenon
  <2>6. QED
    BY <2>1, <2>2, <2>3, <2>4, <2>5 DEF Typed
<1>2. OneHolder /\ DownIsIdle /\ Rendered
  BY DEF OneHolder, DownIsIdle, Rendered, Locked
<1>3. Sound
  BY DEF Sound, NoneYet, RowsAreFiled, Making, NoRestore
<1>4. DraftFollows
  BY DEF DraftFollows, NoDraft
<1>5. RestoreHolds /\ StartFindsNoFile /\ ServingIsKnown
  BY DEF RestoreHolds, StartFindsNoFile, ServingIsKnown
<1>6. QED
  BY <1>1, <1>2, <1>3, <1>4, <1>5 DEF IInv

-----------------------------------------------------------------------------
(* The requests. *)

OthersStay(r) ==
  \A q \in Request \ {r} :
    pc'[q] = pc[q] /\ target'[q] = target[q] /\ content'[q] = content[q]

KeepsOrTakesLock(r) ==
  pc'[r] \in Locked =>
    \/ pc[r] \in Locked /\ target'[r] = target[r]
    \/ \A q \in Request \ {r} : ~(pc[q] \in Locked /\ target[q] = target'[r])

\* A step of one request keeps the invariant if it takes the lock of a snapshot only
\* when that is free, knows what it writes, and changes no row that is there.
LEMMA RequestKeepsIInv ==
  ASSUME NEW r \in Request, IInv, PdfTypeOK',
         api = "up", UNCHANGED <<api, renderer, snapshots, scripts>>,
         OthersStay(r),
         KeepsOrTakesLock(r),
         pc'[r] \in {"rendered", "writing", "written"} => content'[r] \in Bytes,
         sound => NoneYet' /\ RowsAreFiled',
         \A s \in Snapshot : rows[s] # Absent => rows'[s] = rows[s]
  PROVE  IInv'
<1> USE DEF IInv, scripts, OthersStay, KeepsOrTakesLock
<1>1. Typed'
  BY DEF Typed
<1>2. OneHolder'
  BY DEF OneHolder
<1>3. DownIsIdle'
  BY DEF DownIsIdle
<1>4. Rendered'
  BY DEF Rendered
<1>5. Sound'
  BY DEF Sound
<1>6. DraftFollows'
  BY DEF DraftFollows
<1>7. (\A b \in disk : Consistent(b))'
  BY DEF Consistent
<1>8. RestoreHolds'
  BY DEF RestoreHolds, Consistent
<1>9. (StartFindsNoFile /\ ServingIsKnown)'
  BY DEF StartFindsNoFile, ServingIsKnown
<1>10. QED
  BY <1>1, <1>2, <1>3, <1>4, <1>5, <1>6, <1>7, <1>8, <1>9

\* The same of a step that writes neither a row nor a file.
LEMMA QuietRequestKeepsIInv ==
  ASSUME NEW r \in Request, IInv, PdfTypeOK', api = "up", UNCHANGED <<Stored, scripts>>,
         OthersStay(r),
         KeepsOrTakesLock(r),
         pc'[r] \in {"rendered", "writing", "written"} => content'[r] \in Bytes,
         sound /\ pc'[r] \in Making => rows[target'[r]] = Absent /\ pc'[r] # "written"
  PROVE  IInv'
<1>1. sound => NoneYet' /\ RowsAreFiled'
  BY DEF IInv, Sound, NoneYet, RowsAreFiled, Stored, OthersStay
<1>2. QED
  BY <1>1, RequestKeepsIInv DEF Stored

\* Before the lock and up to the file, nothing is written.
LEMMA GenerateKeepsIInv ==
  ASSUME NEW r \in Request, NEW s \in Snapshot, IInv, Generate(r, s), UNCHANGED scripts
  PROVE  IInv'
<1>1. PdfTypeOK' /\ OthersStay(r) /\ pc'[r] = "waiting"
  BY DEF IInv, Typed, PdfTypeOK, Generate, Stored, Goto, OthersStay
<1>2. QED
  BY <1>1, QuietRequestKeepsIInv DEF Generate, Runs, Locked, Making, KeepsOrTakesLock

LEMMA QuietStepsKeepIInv ==
  ASSUME NEW r \in Request, IInv, UNCHANGED scripts,
         \/ Acquire(r) \/ ReadSnapshot(r) \/ ReadArtifact(r) \/ Render(r)
         \/ RenderOrStorageFails(r) \/ DiskFull(r) \/ Resolve(r) \/ Reply(r)
  PROVE  IInv'
<1> USE DEF Runs, Goto, End, Stored
<1> DEFINE Typing == PdfTypeOK' /\ OthersStay(r) /\ target'[r] = target[r]
<1>1. CASE Acquire(r)
  <2>1. Typing
    BY <1>1 DEF IInv, Typed, PdfTypeOK, Locked, OthersStay, Acquire
  <2>2. pc'[r] = "locked"
    BY <1>1 DEF IInv, Typed, PdfTypeOK, Acquire
  <2>3. QED
    BY <1>1, <2>1, <2>2, QuietRequestKeepsIInv
       DEF Acquire, Locked, Making, KeepsOrTakesLock
<1>2. CASE ReadSnapshot(r)
  <2>1. Typing
    BY <1>2 DEF IInv, Typed, PdfTypeOK, Locked, OthersStay, ReadSnapshot, Fail
  <2>2. pc[r] = "locked" /\ pc'[r] \in {"approved", "idle"}
    BY <1>2 DEF IInv, Typed, PdfTypeOK, ReadSnapshot, Fail
  <2>3. QED
    BY <1>2, <2>1, <2>2, QuietRequestKeepsIInv
       DEF ReadSnapshot, Fail, Locked, Making, KeepsOrTakesLock
<1>3. CASE ReadArtifact(r)
  <2>1. Typing
    BY <1>3 DEF IInv, Typed, PdfTypeOK, Locked, OthersStay, ReadArtifact, Return
  <2>2. /\ pc[r] = "approved" /\ pc'[r] \in {"rendering", "answered"}
        /\ pc'[r] = "rendering" => rows[target[r]] = Absent
    BY <1>3 DEF IInv, Typed, PdfTypeOK, ReadArtifact, Return
  <2>3. QED
    BY <1>3, <2>1, <2>2, QuietRequestKeepsIInv
       DEF ReadArtifact, Return, Locked, Making, KeepsOrTakesLock
<1>4. CASE Render(r)
  <2>1. Typing
    BY <1>4 DEF IInv, Typed, PdfTypeOK, Locked, OthersStay, Render
  <2>2. /\ pc[r] = "rendering" /\ pc'[r] = "rendered" /\ content'[r] \in Bytes
        /\ sound => rows[target[r]] = Absent
    BY <1>4 DEF IInv, Typed, PdfTypeOK, Render, Sound, NoneYet, Making
  <2>3. QED
    BY <1>4, <2>1, <2>2, QuietRequestKeepsIInv
       DEF Render, Locked, Making, KeepsOrTakesLock
<1>5. CASE RenderOrStorageFails(r)
  <2>1. Typing
    BY <1>5 DEF IInv, Typed, PdfTypeOK, OthersStay, RenderOrStorageFails, Fail
  <2>2. pc'[r] = "idle"
    BY <1>5 DEF IInv, Typed, PdfTypeOK, RenderOrStorageFails, Fail
  <2>3. QED
    BY <1>5, <2>1, <2>2, QuietRequestKeepsIInv
       DEF RenderOrStorageFails, Fail, Locked, Making, KeepsOrTakesLock
<1>6. CASE DiskFull(r)
  <2>1. Typing
    BY <1>6 DEF IInv, Typed, PdfTypeOK, OthersStay, DiskFull, Fail
  <2>2. pc'[r] = "idle"
    BY <1>6 DEF IInv, Typed, PdfTypeOK, DiskFull, Fail
  <2>3. QED
    BY <1>6, <2>1, <2>2, QuietRequestKeepsIInv
       DEF DiskFull, Fail, Locked, Making, KeepsOrTakesLock
<1>7. CASE Resolve(r)
  <2>1. Typing
    BY <1>7 DEF IInv, Typed, PdfTypeOK, OthersStay, Resolve, Fail, Return
  <2>2. pc'[r] \in {"idle", "answered"}
    BY <1>7 DEF IInv, Typed, PdfTypeOK, Resolve, Fail, Return
  <2>3. QED
    BY <1>7, <2>1, <2>2, QuietRequestKeepsIInv
       DEF Resolve, Fail, Return, Locked, Making, KeepsOrTakesLock
<1>8. CASE Reply(r)
  <2>1. Typing
    BY <1>8 DEF IInv, Typed, PdfTypeOK, OthersStay, Reply
  <2>2. pc'[r] = "idle"
    BY <1>8 DEF IInv, Typed, PdfTypeOK, Reply
  <2>3. QED
    BY <1>8, <2>1, <2>2, QuietRequestKeepsIInv
       DEF Reply, Locked, Making, KeepsOrTakesLock
<1>9. QED
  BY <1>1, <1>2, <1>3, <1>4, <1>5, <1>6, <1>7, <1>8

\* Only the holder of the lock of a snapshot is making its artifact.
LEMMA HolderIsAlone ==
  ASSUME NEW r \in Request, IInv, pc[r] \in Making
  PROVE  \A q \in Request \ {r} : pc[q] \in Making => target[q] # target[r]
BY DEF IInv, OneHolder, Making, Locked

\* The file is written while there is no row, and the row when the file is there.
LEMMA OpenFileKeepsIInv ==
  ASSUME NEW r \in Request, IInv, OpenFile(r), UNCHANGED scripts
  PROVE  IInv'
<1> USE DEF OpenFile, Runs, Goto
<1>1. PdfTypeOK' /\ OthersStay(r)
  BY DEF IInv, Typed, PdfTypeOK, Locked, OthersStay
<1>2. pc[r] = "rendered" /\ pc'[r] = "writing" /\ target' = target
  BY DEF IInv, Typed, PdfTypeOK
<1>3. content'[r] \in Bytes
  BY <1>2 DEF IInv, Rendered
<1>4. ASSUME sound PROVE NoneYet' /\ RowsAreFiled'
  <2>1. rows[target[r]] = Absent
    BY <1>2, <1>4 DEF IInv, Sound, NoneYet, Making
  <2>2. NoneYet'
    BY <1>1, <1>2, <1>4, <2>1, HolderIsAlone
       DEF IInv, Typed, PdfTypeOK, Sound, NoneYet, Making, OthersStay
  <2>3. RowsAreFiled'
    BY <1>4, <2>1 DEF IInv, Typed, PdfTypeOK, Sound, RowsAreFiled
  <2>4. QED
    BY <2>2, <2>3
<1>5. QED
  BY <1>1, <1>2, <1>3, <1>4, RequestKeepsIInv DEF KeepsOrTakesLock, Locked

LEMMA WriteFileKeepsIInv ==
  ASSUME NEW r \in Request, IInv, WriteFile(r), UNCHANGED scripts
  PROVE  IInv'
<1> USE DEF WriteFile, Runs, Goto
<1>1. content[r] \in Bytes
  BY DEF IInv, Rendered
<1>2. PdfTypeOK' /\ OthersStay(r)
  BY <1>1 DEF IInv, Typed, PdfTypeOK, Locked, OthersStay
<1>3. pc[r] = "writing" /\ pc'[r] = "written" /\ target' = target
  BY DEF IInv, Typed, PdfTypeOK
<1>4. ASSUME sound PROVE NoneYet' /\ RowsAreFiled'
  <2>1. rows[target[r]] = Absent
    BY <1>3, <1>4 DEF IInv, Sound, NoneYet, Making
  <2>2. files'[target[r]] = content[r]
    BY DEF IInv, Typed, PdfTypeOK
  <2>3. NoneYet'
    BY <1>2, <1>3, <1>4, <2>1, <2>2, HolderIsAlone
       DEF IInv, Typed, PdfTypeOK, Sound, NoneYet, Making, OthersStay
  <2>4. RowsAreFiled'
    BY <1>4, <2>1 DEF IInv, Typed, PdfTypeOK, Sound, RowsAreFiled
  <2>5. QED
    BY <2>3, <2>4
<1>5. QED
  BY <1>1, <1>2, <1>3, <1>4, RequestKeepsIInv DEF KeepsOrTakesLock, Locked

LEMMA CreateKeepsIInv ==
  ASSUME NEW r \in Request, IInv, Create(r) \/ CreateFails(r), UNCHANGED scripts
  PROVE  IInv'
<1> USE DEF Create, CreateFails, Violates, Runs, Goto, End
<1>1. pc[r] = "written" /\ content[r] \in Bytes
  BY DEF IInv, Rendered
<1>2. pc'[r] \in {"conflict", "answered", "idle"} /\ target' = target
  BY DEF IInv, Typed, PdfTypeOK
<1>3. OthersStay(r)
  BY DEF IInv, Typed, PdfTypeOK, OthersStay
<1>4. \/ UNCHANGED rows
      \/ /\ rows[target[r]] = Absent /\ target[r] \in snapshots
         /\ rows' = [rows EXCEPT ![target[r]] = content[r]]
  OBVIOUS
<1>5. PdfTypeOK'
  BY <1>1, <1>2, <1>4 DEF IInv, Typed, PdfTypeOK, Locked
<1>6. \A s \in Snapshot : rows[s] # Absent => rows'[s] = rows[s]
  BY <1>4 DEF IInv, Typed, PdfTypeOK
<1>7. ASSUME sound PROVE NoneYet' /\ RowsAreFiled'
  <2>1. files[target[r]] = content[r]
    BY <1>1, <1>7 DEF IInv, Sound, NoneYet, Making
  <2>2. \A s \in Snapshot : s # target[r] => rows'[s] = rows[s]
    BY <1>4 DEF IInv, Typed, PdfTypeOK
  <2>3. NoneYet'
    BY <1>1, <1>2, <1>3, <1>7, <2>2, HolderIsAlone
       DEF IInv, Typed, PdfTypeOK, Sound, NoneYet, Making, OthersStay
  <2>4. RowsAreFiled'
    BY <1>4, <1>7, <2>1 DEF IInv, Typed, PdfTypeOK, Sound, RowsAreFiled
  <2>5. QED
    BY <2>3, <2>4
<1>8. QED
  BY <1>1, <1>2, <1>3, <1>5, <1>6, <1>7, RequestKeepsIInv DEF KeepsOrTakesLock, Locked

\* An approval adds to the snapshots, which a restore without the application allows for.
LEMMA ApproveKeepsIInv ==
  ASSUME NEW s \in Snapshot, IInv, Approve(s), UNCHANGED scripts
  PROVE  IInv'
<1> USE DEF IInv, Approve, scripts
<1>1. Typed'
  BY DEF Typed, PdfTypeOK
<1>2. (OneHolder /\ DownIsIdle /\ Rendered)'
  BY DEF OneHolder, DownIsIdle, Rendered
<1>3. Sound'
  BY DEF Sound, NoneYet, RowsAreFiled
<1>4. DraftFollows'
  BY DEF DraftFollows
<1>5. (\A b \in disk : Consistent(b))'
  BY DEF Consistent
<1>6. RestoreHolds'
  BY DEF RestoreHolds, Consistent
<1>7. (StartFindsNoFile /\ ServingIsKnown)'
  BY DEF StartFindsNoFile, ServingIsKnown
<1>8. QED
  BY <1>1, <1>2, <1>3, <1>4, <1>5, <1>6, <1>7

LEMMA UpgradeKeepsIInv ==
  ASSUME IInv, Upgrade, UNCHANGED scripts
  PROVE  IInv'
<1> USE DEF IInv, Upgrade, scripts
<1>1. Typed'
  BY PdfAssumption DEF Typed, PdfTypeOK, Bytes
<1>2. (OneHolder /\ DownIsIdle /\ Rendered)'
  BY DEF OneHolder, DownIsIdle, Rendered
<1>3. Sound'
  BY DEF Sound, NoneYet, RowsAreFiled
<1>4. DraftFollows'
  BY DEF DraftFollows
<1>5. (\A b \in disk : Consistent(b))'
  BY DEF Consistent
<1>6. RestoreHolds'
  BY DEF RestoreHolds, Consistent
<1>7. (StartFindsNoFile /\ ServingIsKnown)'
  BY DEF StartFindsNoFile, ServingIsKnown
<1>8. QED
  BY <1>1, <1>2, <1>3, <1>4, <1>5, <1>6, <1>7

-----------------------------------------------------------------------------
(* Start and Stop. *)

LauncherTyped ==
  /\ processes \in {"none", "serving", "gone"}
  /\ starting \in {"no", "checked", "spawned", "refused"}
  /\ orphaned \in BOOLEAN

\* What only Start and Stop know of.
LEMMA LauncherKeepsIInv ==
  ASSUME IInv, UNCHANGED <<vars, Backups, restore, sound>>,
         LauncherTyped', StartFindsNoFile', ServingIsKnown'
  PROVE  IInv'
<1> USE DEF IInv, vars, Backups
<1>1. Typed'
  BY DEF Typed, PdfTypeOK, LauncherTyped
<1>2. (OneHolder /\ DownIsIdle /\ Rendered)'
  BY DEF OneHolder, DownIsIdle, Rendered
<1>3. Sound'
  BY DEF Sound, NoneYet, RowsAreFiled
<1>4. DraftFollows'
  BY DEF DraftFollows
<1>5. (\A b \in disk : Consistent(b))'
  BY DEF Consistent
<1>6. RestoreHolds'
  BY DEF RestoreHolds, Consistent
<1>7. QED
  BY <1>1, <1>2, <1>3, <1>4, <1>5, <1>6

\* The end of the process ends the requests, and what they have stored stays.
LEMMA KillKeepsIInv ==
  ASSUME IInv, Kill, UNCHANGED <<Backups, restore, sound>>, LauncherTyped', StartFindsNoFile'
  PROVE  IInv'
<1> USE DEF IInv, Kill, Forget, Backups
<1>1. Typed'
  BY DEF Typed, PdfTypeOK, LauncherTyped, Absent
<1>2. \A r \in Request : pc'[r] = "idle"
  OBVIOUS
<1>3. (OneHolder /\ DownIsIdle /\ Rendered)'
  BY <1>2 DEF OneHolder, DownIsIdle, Rendered, Locked
<1>4. Sound'
  BY <1>2 DEF Sound, NoneYet, RowsAreFiled, Making
<1>5. DraftFollows'
  BY DEF DraftFollows
<1>6. (\A b \in disk : Consistent(b))'
  BY DEF Consistent
<1>7. RestoreHolds'
  BY DEF RestoreHolds, Consistent
<1>8. ServingIsKnown'
  BY DEF ServingIsKnown
<1>9. QED
  BY <1>1, <1>3, <1>4, <1>5, <1>6, <1>7, <1>8

\* Once the application runs, what a restore writes no longer stands by itself.
LEMMA StartSpawnKeepsIInv ==
  ASSUME IInv, StartSpawn
  PROVE  IInv'
<1> USE DEF IInv, StartSpawn, Launcher, Backups
<1>1. CASE Run /\ starting' = "spawned" /\ Spoil
  <2> USE DEF Run
  <2>1. /\ restore = NoRestore => restore' = NoRestore
        /\ restore # NoRestore =>
             restore \in Restore /\ restore' = [restore EXCEPT !.offline = FALSE]
    BY <1>1 DEF Typed, Spoil, NoRestore, Restore
  <2>2. restore' \in Restore \cup {NoRestore} /\ restore'.step = restore.step
    BY <2>1 DEF Restore, NoRestore
  <2>3. Typed'
    BY <1>1, <2>2 DEF Typed, PdfTypeOK
  <2>4. (OneHolder /\ DownIsIdle /\ Rendered)'
    BY <1>1 DEF OneHolder, DownIsIdle, Rendered
  <2>5. Sound'
    BY <1>1, <2>2 DEF Sound, NoneYet, RowsAreFiled
  <2>6. DraftFollows'
    BY <1>1 DEF DraftFollows
  <2>7. (\A b \in disk : Consistent(b))'
    BY <1>1 DEF Consistent
  <2>8. RestoreHolds'
    BY <2>1 DEF RestoreHolds, Consistent, Restore
  <2>9. (StartFindsNoFile /\ ServingIsKnown)'
    BY <1>1 DEF StartFindsNoFile, ServingIsKnown
  <2>10. QED
    BY <2>3, <2>4, <2>5, <2>6, <2>7, <2>8, <2>9
<1>2. CASE starting' = "refused" /\ UNCHANGED <<vars, restore>>
  <2>1. (LauncherTyped /\ StartFindsNoFile /\ ServingIsKnown)'
    BY <1>2 DEF Typed, LauncherTyped, StartFindsNoFile, ServingIsKnown, vars
  <2>2. QED
    BY <1>2, <2>1, LauncherKeepsIInv
<1>3. QED
  BY <1>1, <1>2

\* Start and Stop know of every process, or a killed Start has left it.
LEMMA StartStopKeepIInv ==
  ASSUME IInv,
         \/ StartCheck \/ StartReady \/ StartGivesUp \/ StartKilled
         \/ StopKill \/ StopRemove \/ Crash
  PROVE  IInv'
<1> USE DEF LauncherTyped, StartFindsNoFile, ServingIsKnown
<1>1. CASE StartCheck
  <2>1. (LauncherTyped /\ StartFindsNoFile /\ ServingIsKnown)'
    BY <1>1 DEF IInv, Typed, StartCheck, vars
  <2>2. QED
    BY <1>1, <2>1, LauncherKeepsIInv DEF StartCheck
<1>2. CASE StartReady
  <2>1. (LauncherTyped /\ StartFindsNoFile /\ ServingIsKnown)'
    BY <1>2 DEF IInv, Typed, StartReady, vars
  <2>2. QED
    BY <1>2, <2>1, LauncherKeepsIInv DEF StartReady
<1>3. CASE StartGivesUp
  <2>1. (LauncherTyped /\ StartFindsNoFile)'
    BY <1>3 DEF IInv, Typed, StartGivesUp
  <2>2. CASE starting = "spawned" /\ api = "up"
    BY <1>3, <2>1, <2>2, KillKeepsIInv DEF StartGivesUp
  <2>3. CASE ~(starting = "spawned" /\ api = "up")
    <3>1. UNCHANGED vars /\ ServingIsKnown'
      BY <1>3, <2>3 DEF IInv, StartGivesUp, vars
    <3>2. QED
      BY <1>3, <2>1, <3>1, LauncherKeepsIInv DEF StartGivesUp
  <2>4. QED
    BY <2>2, <2>3
<1>4. CASE StartKilled
  <2>1. (LauncherTyped /\ StartFindsNoFile /\ ServingIsKnown)'
    BY <1>4 DEF IInv, Typed, StartKilled, vars
  <2>2. QED
    BY <1>4, <2>1, LauncherKeepsIInv DEF StartKilled
<1>5. CASE StopKill
  <2>1. (LauncherTyped /\ StartFindsNoFile)'
    BY <1>5 DEF IInv, Typed, StopKill
  <2>2. QED
    BY <1>5, <2>1, KillKeepsIInv DEF StopKill
<1>6. CASE StopRemove
  <2>1. (LauncherTyped /\ StartFindsNoFile /\ ServingIsKnown)'
    BY <1>6 DEF IInv, Typed, StopRemove, vars
  <2>2. QED
    BY <1>6, <2>1, LauncherKeepsIInv DEF StopRemove
<1>7. CASE Crash
  <2>1. (LauncherTyped /\ StartFindsNoFile)'
    BY <1>7 DEF IInv, Typed, Crash
  <2>2. QED
    BY <1>7, <2>1, KillKeepsIInv DEF Crash
<1>8. QED
  BY <1>1, <1>2, <1>3, <1>4, <1>5, <1>6, <1>7

-----------------------------------------------------------------------------
(* Backup. *)

BackupTyped ==
  /\ taken \in 0..MaxBackup
  /\ stage \in 0..5
  /\ stage > 0 => taken > 0
  /\ disk \subseteq Bundle
  /\ draft \in Draft

BackupIsSound == BackupTyped /\ DraftFollows /\ \A b \in disk : Consistent(b)

\* Backup writes nothing that the application or Restore reads.
LEMMA BackupKeepsIInv ==
  ASSUME IInv, UNCHANGED <<vars, Launcher, restore, sound>>, BackupIsSound'
  PROVE  IInv'
<1> USE DEF IInv, vars, Launcher, BackupIsSound
<1>1. Typed'
  BY DEF Typed, PdfTypeOK, BackupTyped
<1>2. (OneHolder /\ DownIsIdle /\ Rendered)'
  BY DEF OneHolder, DownIsIdle, Rendered
<1>3. Sound'
  BY DEF Sound, NoneYet, RowsAreFiled
<1>4. RestoreHolds'
  BY DEF RestoreHolds, Consistent
<1>5. (StartFindsNoFile /\ ServingIsKnown)'
  BY DEF StartFindsNoFile, ServingIsKnown
<1>6. QED
  BY <1>1, <1>2, <1>3, <1>4, <1>5

LEMMA StageNames ==
  ASSUME stage \in 0..5
  PROVE  /\ At("dump") => stage = 1
         /\ At("copy") => stage = 2
         /\ At("manifest") => stage = 3
         /\ At("publish") => stage = 4
         /\ At("prune") => stage = 5
<1>1. stage = 0 \/ stage = 1 \/ stage = 2 \/ stage = 3 \/ stage = 4 \/ stage = 5
  OBVIOUS
<1>2. QED
  BY <1>1 DEF At, Stages

\* The dump and the copies: the row a dump has found is still there when its file is
\* copied, and so is the file.
LEMMA DraftKeepsIInv ==
  ASSUME IInv, BackupBegin \/ BackupDump \/ \E s \in Snapshot : BackupCopy(s)
  PROVE  IInv'
<1> USE BackupAssumption DEF IInv, Typed, BackupIsSound, BackupTyped
<1>1. CASE BackupBegin
  <2> USE <1>1 DEF BackupBegin, NoDraft, NoFiles
  <2>1. draft' = [snapshots |-> {}, rows |-> [s \in Snapshot |-> Absent],
                  files |-> [s \in Snapshot |-> Absent], copied |-> {}, sound |-> sound]
    OBVIOUS
  <2>2. draft' \in Draft
    BY <2>1 DEF Draft, Row, File
  <2>3. DraftFollows'
    BY <2>1 DEF DraftFollows
  <2>4. (\A b \in disk : Consistent(b))'
    BY DEF Consistent
  <2>5. BackupIsSound'
    BY <2>2, <2>3, <2>4
  <2>6. QED
    BY <2>5, BackupKeepsIInv
<1>2. CASE BackupDump
  <2>1. /\ stage = 1 /\ stage' = 2
        /\ draft' = [draft EXCEPT !.snapshots = snapshots, !.rows = rows]
        /\ UNCHANGED <<vars, Launcher, taken, disk, restore, sound>>
    BY <1>2, StageNames DEF BackupDump
  <2>2. /\ draft'.rows = rows /\ draft'.snapshots = snapshots
        /\ draft'.copied = draft.copied
        /\ draft'.sound <=> draft.sound
    BY <2>1 DEF Draft
  <2>3. draft' \in Draft
    BY <2>1 DEF Draft, Row, PdfTypeOK
  <2>4. draft.copied = {} /\ (draft.sound => sound)
    BY <2>1 DEF DraftFollows
  <2>5. ASSUME draft.sound, NEW s \in Snapshot, rows[s] # Absent PROVE s \in snapshots
    BY <2>4, <2>5 DEF Sound, RowsAreFiled
  <2>6. DraftFollows'
    BY <2>1, <2>2, <2>4, <2>5 DEF DraftFollows, vars
  <2>7. (\A b \in disk : Consistent(b))'
    BY <2>1 DEF Consistent
  <2>8. BackupIsSound'
    BY <2>1, <2>3, <2>6, <2>7
  <2>9. QED
    BY <2>1, <2>8, BackupKeepsIInv
<1>3. ASSUME NEW s \in Snapshot, BackupCopy(s) PROVE IInv'
  <2>1. /\ stage = 2
        /\ draft' = [draft EXCEPT !.files = [draft.files EXCEPT ![s] = files[s]],
                                 !.copied = draft.copied \cup {s}]
        /\ stage' = IF draft'.copied = Snapshot THEN stage + 1 ELSE stage
        /\ UNCHANGED <<vars, Launcher, taken, disk, restore, sound>>
    BY <1>3, StageNames DEF BackupCopy
  <2>2. /\ draft'.files = [draft.files EXCEPT ![s] = files[s]]
        /\ draft'.copied = draft.copied \cup {s}
        /\ draft'.rows = draft.rows /\ draft'.snapshots = draft.snapshots
        /\ draft'.sound <=> draft.sound
    BY <2>1 DEF Draft
  <2>3. stage' = 2 \/ (stage' = 3 /\ draft'.copied = Snapshot)
    BY <2>1
  <2>4. draft' \in Draft
    BY <2>1 DEF Draft, File, PdfTypeOK
  <2>5. ASSUME draft.sound, NEW t \in Snapshot, draft.rows[t] # Absent,
               t \in draft.copied \cup {s}
        PROVE  draft'.files[t] = draft.rows[t]
    BY <2>2, <2>5 DEF DraftFollows, Sound, RowsAreFiled, Draft
  <2>6. DraftFollows'
    BY <2>1, <2>2, <2>3, <2>5 DEF DraftFollows, vars
  <2>7. (\A b \in disk : Consistent(b))'
    BY <2>1 DEF Consistent
  <2>8. BackupIsSound'
    BY <2>1, <2>3, <2>4, <2>6, <2>7
  <2>9. QED
    BY <2>1, <2>8, BackupKeepsIInv
<1>4. QED
  BY <1>1, <1>2, <1>3

\* The manifest, the publication and the pruning: bundles are made of a draft, renamed
\* and deleted, never mixed.
LEMMA BundleKeepsIInv ==
  ASSUME IInv, BackupManifest \/ BackupPublish \/ BackupPrune \/ BackupFails
  PROVE  IInv'
<1> USE BackupAssumption, StageNames DEF IInv, Typed, BackupIsSound, BackupTyped
<1>1. NoDraft \in Draft /\ ~NoDraft.sound
  BY DEF NoDraft, NoFiles, Draft, Row, File
<1>2. CASE BackupManifest
  <2> USE <1>2 DEF BackupManifest
  <2> DEFINE new == [at |-> taken, classes |-> RetentionClasses(taken), published |-> FALSE,
                     snapshots |-> draft.snapshots, rows |-> draft.rows,
                     files |-> draft.files, sound |-> draft.sound]
  <2>1. RetentionClasses(taken) \in SUBSET Class
    BY DEF RetentionClasses, Class
  <2>2. new \in Bundle
    BY <2>1 DEF Bundle, Draft, Row, File
  <2>3. Consistent(new)
    BY DEF Consistent, DraftFollows
  <2>4. disk' = disk \cup {new}
    OBVIOUS
  <2>5. (\A b \in disk : Consistent(b))'
    BY <2>3, <2>4 DEF Consistent
  <2>6. DraftFollows'
    BY <1>1 DEF DraftFollows
  <2>7. disk' \subseteq Bundle
    BY <2>2, <2>4
  <2>8. BackupIsSound'
    BY <1>1, <2>5, <2>6, <2>7
  <2>9. QED
    BY <2>8, BackupKeepsIInv
<1>3. CASE BackupPublish
  <2> USE <1>3 DEF BackupPublish
  <2>1. \A c \in disk' : \E b \in disk : c = b \/ c = [b EXCEPT !.published = TRUE]
    OBVIOUS
  <2>2. disk' \subseteq Bundle
    BY <2>1 DEF Bundle
  <2>3. (\A b \in disk : Consistent(b))'
    BY <2>1 DEF Consistent, Bundle
  <2>4. DraftFollows'
    BY DEF DraftFollows
  <2>5. BackupIsSound'
    BY <2>2, <2>3, <2>4
  <2>6. QED
    BY <2>5, BackupKeepsIInv
<1>4. CASE BackupPrune
  <2> USE <1>4 DEF BackupPrune
  <2>1. disk' \subseteq disk
    BY DEF Retained
  <2>2. (\A b \in disk : Consistent(b))'
    BY <2>1 DEF Consistent
  <2>3. DraftFollows'
    BY DEF DraftFollows
  <2>4. BackupIsSound'
    BY <2>1, <2>2, <2>3
  <2>5. QED
    BY <2>4, BackupKeepsIInv
<1>5. CASE BackupFails
  <2> USE <1>5 DEF BackupFails
  <2>1. disk' \subseteq disk
    OBVIOUS
  <2>2. (\A b \in disk : Consistent(b))'
    BY <2>1 DEF Consistent
  <2>3. DraftFollows'
    BY <1>1 DEF DraftFollows
  <2>4. BackupIsSound'
    BY <1>1, <2>1, <2>2, <2>3
  <2>5. QED
    BY <2>4, BackupKeepsIInv
<1>6. QED
  BY <1>2, <1>3, <1>4, <1>5

-----------------------------------------------------------------------------
(* Restore. *)

\* What a restore writes beside the application: the requests and Backup stay as they are.
LEMMA RestoreKeepsIInv ==
  ASSUME IInv, UNCHANGED <<Application, api, Launcher, taken, stage, disk>>,
         rows' \in [Snapshot -> Row], files' \in [Snapshot -> File],
         snapshots' \in SUBSET Snapshot, draft' \in Draft,
         restore' \in Restore \cup {NoRestore}, sound' \in BOOLEAN,
         Sound', DraftFollows', RestoreHolds'
  PROVE  IInv'
<1> USE DEF IInv, Application, Launcher
<1>1. Typed'
  BY DEF Typed, PdfTypeOK, Row, File
<1>2. (OneHolder /\ DownIsIdle /\ Rendered)'
  BY DEF OneHolder, DownIsIdle, Rendered
<1>3. (\A b \in disk : Consistent(b))'
  BY DEF Consistent
<1>4. (StartFindsNoFile /\ ServingIsKnown)'
  BY DEF StartFindsNoFile, ServingIsKnown
<1>5. QED
  BY <1>1, <1>2, <1>3, <1>4

\* The bundle is one of the disk, and nothing has been written.
LEMMA RestoreBeginKeepsIInv ==
  ASSUME NEW b \in disk, NEW replace \in BOOLEAN, IInv, RestoreBegin(b, replace)
  PROVE  IInv'
<1> USE DEF IInv, Typed, RestoreBegin
<1>1. restore' = [step |-> "clean", bundle |-> b, replace |-> replace, offline |-> (api = "down")]
  OBVIOUS
<1>2. restore' \in Restore
  BY <1>1 DEF Restore
<1>3. Sound'
  BY <1>1 DEF Sound, NoneYet, RowsAreFiled, vars
<1>4. RestoreHolds'
  <2>1. restore'.bundle = b /\ restore'.step = "clean"
    BY <1>1
  <2>2. restore'.offline => api = "down"
    <3>1. \A d : (restore' = [step |-> "clean", bundle |-> b, replace |-> replace,
                             offline |-> d]) => (restore'.offline = d)
      OBVIOUS
    <3>2. restore'.offline = (api = "down")
      BY <1>1, <3>1, Zenon
    <3>3. QED BY <3>2, Zenon
  <2>3. Consistent(b)
    OBVIOUS
  <2>4. QED
    BY <2>1, <2>2, <2>3 DEF RestoreHolds, Consistent, vars
<1>5. DraftFollows'
  BY DEF DraftFollows, vars, Backups
<1>6. QED
  BY <1>2, <1>3, <1>4, <1>5, RestoreKeepsIInv
     DEF vars, Backups, Application, PdfTypeOK, Row, File

\* From the first write on, neither the state nor a backup of it counts as sound.
LEMMA RestoreCleanKeepsIInv ==
  ASSUME IInv, RestoreClean
  PROVE  IInv'
<1> USE DEF IInv, Typed, RestoreClean, Restoring
<1>1. restore \in Restore /\ restore' = [restore EXCEPT !.step = "load"]
  BY DEF NoRestore
<1>2. restore' \in Restore
  BY <1>1 DEF Restore
<1>3. Sound'
  BY DEF Sound
<1>4. draft' \in Draft /\ draft'.copied = draft.copied /\ ~draft'.sound
  <2>1. CASE stage > 0
    <3>1. draft' = [draft EXCEPT !.sound = FALSE]
      BY <2>1 DEF Disturb
    <3>2. QED BY <3>1 DEF Draft
  <2>2. CASE ~(stage > 0)
    <3>1. draft' = draft /\ stage = 0
      BY <2>2 DEF Disturb
    <3>2. QED BY <3>1 DEF DraftFollows
  <2>3. QED BY <2>1, <2>2
<1>5. DraftFollows'
  BY <1>4 DEF DraftFollows
<1>6. RestoreHolds'
  <2>1. /\ restore'.bundle = restore.bundle /\ restore'.step = "load"
        /\ restore'.offline => restore.offline
    BY <1>1 DEF Restore
  <2>2. restore # NoRestore
    BY <1>1 DEF Restore, NoRestore
  <2>3. QED
    BY <2>1, <2>2 DEF RestoreHolds, Consistent
<1>7. rows' \in [Snapshot -> Row] /\ snapshots' \in SUBSET Snapshot
  BY DEF NoFiles, Row
<1>8. QED
  BY <1>2, <1>3, <1>4, <1>5, <1>6, <1>7, RestoreKeepsIInv DEF PdfTypeOK, File

\* Each further step: while it is not sound, nothing but the record of the restore holds.
LEMMA RestoreWritesKeepIInv ==
  ASSUME IInv, RestoreLoad \/ RestoreRemove \/ \E s \in Snapshot : RestoreCopy(s)
  PROVE  IInv'
<1> USE DEF IInv, Typed, Restoring
<1>1. restore \in Restore /\ restore.step \in {"load", "remove", "copy"}
  BY DEF NoRestore, RestoreLoad, RestoreRemove, RestoreCopy
<1>2. restore.bundle \in Bundle
  BY <1>1 DEF Restore
<1>3. sound' = sound /\ ~sound
  BY <1>1 DEF Sound, RestoreLoad, RestoreRemove, RestoreCopy
<1>4. Sound'
  BY <1>3 DEF Sound
<1>5. draft' = draft /\ stage' = stage
  BY DEF RestoreLoad, RestoreRemove, RestoreCopy, Backups
<1>6. DraftFollows'
  BY <1>3, <1>5 DEF DraftFollows
<1>7. /\ rows' \in [Snapshot -> Row] /\ files' \in [Snapshot -> File]
      /\ snapshots' \in SUBSET Snapshot
  <2>1. CASE RestoreLoad
    BY <1>2, <2>1 DEF RestoreLoad, Bundle, PdfTypeOK, Row, File
  <2>2. CASE RestoreRemove
    BY <2>2 DEF RestoreRemove, Database, PdfTypeOK, NoFiles, Row, File
  <2>3. ASSUME NEW s \in Snapshot, RestoreCopy(s)
        PROVE  /\ rows' \in [Snapshot -> Row] /\ files' \in [Snapshot -> File]
               /\ snapshots' \in SUBSET Snapshot
    BY <1>2, <2>3 DEF RestoreCopy, Database, Bundle, PdfTypeOK, Row, File
  <2>4. QED
    BY <2>1, <2>2, <2>3
<1>8. restore' \in Restore \cup {NoRestore} /\ RestoreHolds'
  <2> restore # NoRestore
    BY <1>1 DEF Restore, NoRestore
  <2>1. CASE RestoreLoad
    <3>1. CASE restore' = NoRestore
      BY <3>1 DEF RestoreHolds
    <3>2. CASE restore' = [restore EXCEPT !.step = "remove"]
      <4>1. /\ restore'.bundle = restore.bundle /\ restore' \in Restore
            /\ restore'.offline => restore.offline
        BY <1>1, <3>2 DEF Restore
      <4>2. QED
        BY <2>1, <4>1 DEF RestoreLoad, RestoreHolds, Consistent
    <3>3. QED BY <2>1, <3>1, <3>2 DEF RestoreLoad
  <2>2. CASE RestoreRemove
    <3>1. /\ restore'.bundle = restore.bundle /\ restore' \in Restore
          /\ restore'.offline => restore.offline
      BY <1>1, <2>2 DEF RestoreRemove, Restore
    <3>2. restore.step = "remove" /\ UNCHANGED <<api, rows, snapshots>>
      BY <2>2 DEF RestoreRemove, Database
    <3>3. QED
      BY <3>1, <3>2 DEF RestoreHolds, Consistent
  <2>3. ASSUME NEW s \in Snapshot, RestoreCopy(s)
        PROVE  restore' \in Restore \cup {NoRestore} /\ RestoreHolds'
    BY <1>1, <2>3 DEF RestoreCopy, RestoreHolds, Consistent, Database
  <2>4. QED
    BY <2>1, <2>2, <2>3
<1>9. UNCHANGED <<Application, api, Launcher, taken, stage, disk>>
  BY DEF RestoreLoad, RestoreRemove, RestoreCopy, Backups
<1>10. QED
  BY <1>3, <1>4, <1>5, <1>6, <1>7, <1>8, <1>9, RestoreKeepsIInv

\* A sound bundle that went through with the application down is what is there.
LEMMA RestoreEndKeepsIInv ==
  ASSUME IInv, RestoreEnd
  PROVE  IInv'
<1> USE DEF IInv, Typed, RestoreEnd, Restoring
<1>1. restore \in Restore /\ restore.step = "copy" /\ restore' = NoRestore
  BY DEF NoRestore
<1>2. Sound'
  <2>1. SUFFICES ASSUME restore.bundle.sound, restore.offline PROVE Sound'
    BY DEF Sound
  <2>2. /\ api = "down" /\ rows = restore.bundle.rows /\ snapshots = restore.bundle.snapshots
        /\ Consistent(restore.bundle)
    BY <1>1, <2>1 DEF RestoreHolds, NoRestore
  <2>3. RowsAreFiled'
    BY <2>1, <2>2 DEF RowsAreFiled, Consistent, vars
  <2>4. NoneYet'
    BY <2>2 DEF NoneYet, DownIsIdle, Making, vars
  <2>5. QED
    BY <1>1, <2>3, <2>4 DEF Sound, NoRestore
<1>3. DraftFollows'
  BY <1>1 DEF DraftFollows, Sound, vars, Backups
<1>4. RestoreHolds'
  BY <1>1 DEF RestoreHolds
<1>5. sound' \in BOOLEAN
  BY <1>1 DEF Restore, Bundle
<1>6. QED
  BY <1>1, <1>2, <1>3, <1>4, <1>5, RestoreKeepsIInv
     DEF vars, Backups, Application, PdfTypeOK, Row, File

LEMMA RestoreFailsKeepsIInv ==
  ASSUME IInv, RestoreFails
  PROVE  IInv'
<1> USE DEF IInv, Typed, RestoreFails
<1>1. Sound'
  BY DEF Sound, NoRestore, NoneYet, RowsAreFiled, vars
<1>2. DraftFollows'
  BY DEF DraftFollows, vars, Backups
<1>3. RestoreHolds'
  BY DEF RestoreHolds
<1>4. QED
  BY <1>1, <1>2, <1>3, RestoreKeepsIInv
     DEF vars, Backups, Application, PdfTypeOK, Row, File

-----------------------------------------------------------------------------
LEMMA GenerationKeepsIInv ==
  ASSUME NEW r \in Request, IInv, Generation(r), UNCHANGED scripts
  PROVE  IInv'
<1>1. CASE \E s \in Snapshot : Generate(r, s)
  BY <1>1, GenerateKeepsIInv
<1>2. CASE OpenFile(r)
  BY <1>2, OpenFileKeepsIInv
<1>3. CASE WriteFile(r)
  BY <1>3, WriteFileKeepsIInv
<1>4. CASE Create(r) \/ CreateFails(r)
  BY <1>4, CreateKeepsIInv
<1>5. CASE \/ Acquire(r) \/ ReadSnapshot(r) \/ ReadArtifact(r) \/ Render(r)
           \/ RenderOrStorageFails(r) \/ DiskFull(r) \/ Resolve(r) \/ Reply(r)
  BY <1>5, QuietStepsKeepIInv
<1>6. QED
  BY <1>1, <1>2, <1>3, <1>4, <1>5 DEF Generation

LEMMA StutterKeepsIInv ==
  ASSUME IInv, UNCHANGED allVars
  PROVE  IInv'
<1>1. (LauncherTyped /\ StartFindsNoFile /\ ServingIsKnown)'
  BY DEF IInv, Typed, LauncherTyped, StartFindsNoFile, ServingIsKnown, allVars, vars, scripts
<1>2. QED
  BY <1>1, LauncherKeepsIInv DEF allVars, scripts, Backups

\* Every step of the application and of the scripts keeps the invariant.
LEMMA NextKeepsIInv == IInv /\ [LocalNext]_allVars => IInv'
<1> SUFFICES ASSUME IInv, [LocalNext]_allVars PROVE IInv'
  OBVIOUS
<1>1. ASSUME NEW r \in Request, Generation(r), UNCHANGED scripts PROVE IInv'
  BY <1>1, GenerationKeepsIInv
<1>2. ASSUME NEW s \in Snapshot, Approve(s), UNCHANGED scripts PROVE IInv'
  BY <1>2, ApproveKeepsIInv
<1>3. CASE Upgrade /\ UNCHANGED scripts
  BY <1>3, UpgradeKeepsIInv
<1>4. CASE StartSpawn
  BY <1>4, StartSpawnKeepsIInv
<1>5. CASE \/ StartCheck \/ StartReady \/ StartGivesUp \/ StartKilled
           \/ StopKill \/ StopRemove \/ Crash
  BY <1>5, StartStopKeepIInv
<1>6. CASE BackupBegin \/ BackupDump \/ \E s \in Snapshot : BackupCopy(s)
  BY <1>6, DraftKeepsIInv
<1>7. CASE BackupManifest \/ BackupPublish \/ BackupPrune \/ BackupFails
  BY <1>7, BundleKeepsIInv
<1>8. ASSUME NEW b \in disk, NEW replace \in BOOLEAN, RestoreBegin(b, replace) PROVE IInv'
  BY <1>8, RestoreBeginKeepsIInv
<1>9. CASE RestoreClean
  BY <1>9, RestoreCleanKeepsIInv
<1>10. CASE RestoreLoad \/ RestoreRemove \/ \E s \in Snapshot : RestoreCopy(s)
  BY <1>10, RestoreWritesKeepIInv
<1>11. CASE RestoreEnd
  BY <1>11, RestoreEndKeepsIInv
<1>12. CASE RestoreFails
  BY <1>12, RestoreFailsKeepsIInv
<1>13. CASE UNCHANGED allVars
  BY <1>13, StutterKeepsIInv
<1>14. QED
  BY <1>1, <1>2, <1>3, <1>4, <1>5, <1>6, <1>7, <1>8, <1>9, <1>10, <1>11, <1>12, <1>13
     DEF LocalNext

\* The strengthened invariant holds in every reachable state.
THEOREM Invariance == LocalSpec => []IInv
<1>1. QED
  BY InitIInv, NextKeepsIInv, PTL DEF LocalSpec

\* No crash, full disk, second request, new renderer, stop, backup or restore that went
\* through leaves a row of analysis_pdf_artifacts without its file.
THEOREM ArtifactsStay == LocalSpec => []ArtifactsCanBeDownloaded
<1>1. IInv => ArtifactsCanBeDownloaded
  <2> SUFFICES ASSUME IInv, sound, NEW s \in Snapshot, rows[s] # Absent
               PROVE  Download(s) = "file"
    BY DEF ArtifactsCanBeDownloaded, RowsHaveTheirFile
  <2>1. files[s] = rows[s]
    BY DEF IInv, Sound, RowsAreFiled
  <2>2. QED
    BY <2>1 DEF Download
<1>2. QED
  BY <1>1, Invariance, PTL

\* A bundle of Backup-Lvfi.ps1 has the file of each row of its dump, whatever the
\* application does between the dump and the copies.
THEOREM BundlesHold == LocalSpec => []BundlesAreConsistent
<1>1. IInv => BundlesAreConsistent
  BY DEF IInv, Consistent, BundlesAreConsistent
<1>2. QED
  BY <1>1, Invariance, PTL

\* The file of Start-Lvfi.ps1 names what serves, so that Stop ends it, unless a Start
\* was killed.
THEOREM ServingStaysKnown == LocalSpec => []ServingIsKnown
<1>1. IInv => ServingIsKnown
  BY DEF IInv
<1>2. QED
  BY <1>1, Invariance, PTL

\* What generate answers is what a download compares the file with.
LEMMA AnswersAreRows ==
  ASSUME NEW r \in Request, IInv, [LocalNext]_allVars,
         answer'[r] # answer[r], answer'[r] # Absent
  PROVE  answer'[r] = rows'[target[r]]
<1> USE DEF IInv, Typed, PdfTypeOK
<1>1. ASSUME NEW q \in Request, Generation(q) PROVE answer'[r] = rows'[target[r]]
  <2>1. \/ answer' = answer
        \/ answer' = [answer EXCEPT ![q] = Absent]
        \/ answer' = [answer EXCEPT ![q] = rows[target[q]]] /\ rows' = rows
        \/ /\ answer' = [answer EXCEPT ![q] = content[q]]
           /\ rows' = [rows EXCEPT ![target[q]] = content[q]]
    BY <1>1 DEF Generation, Generate, Acquire, ReadSnapshot, ReadArtifact, Render,
                RenderOrStorageFails, OpenFile, WriteFile, DiskFull, Create, CreateFails,
                Resolve, Reply, Return, Fail, End, Stored
  <2>2. QED
    BY <2>1
<1>2. ASSUME Kill PROVE FALSE
  BY <1>2 DEF Kill, Forget
<1>3. ASSUME answer' = answer PROVE FALSE
  BY <1>3
<1>4. QED
  BY <1>1, <1>2, <1>3
     DEF LocalNext, allVars, vars, Approve, Upgrade, StartCheck, StartSpawn, Run, StartReady,
         StartGivesUp, StartKilled, StopKill, StopRemove, Crash, BackupBegin, BackupDump,
         BackupCopy, BackupManifest, BackupPublish, BackupPrune, BackupFails, RestoreBegin,
         RestoreClean, RestoreLoad, RestoreRemove, RestoreCopy, RestoreEnd, RestoreFails,
         Application

\* A request that answers with an artifact answers with the one that is stored, also
\* after a conflict with another process.
THEOREM AnswersAreStored == LocalSpec => AnswerIsStored
<1>1. IInv /\ [LocalNext]_allVars =>
        [\A r \in Request : answer'[r] # answer[r] /\ answer'[r] # Absent =>
           answer'[r] = rows'[target[r]]]_allVars
  BY AnswersAreRows
<1>2. QED
  BY <1>1, Invariance, PTL DEF LocalSpec, AnswerIsStored
=============================================================================
