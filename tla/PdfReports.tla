----------------------------- MODULE PdfReports -----------------------------
(***************************************************************************)
(* The PDF of an approved snapshot, application/pdf_reports.py.  It is     *)
(* looked up, rendered by a subprocess the event loop waits for, written   *)
(* to a path that only the snapshot and the template decide, and only then *)
(* recorded in analysis_pdf_artifacts, whose rows never change.  A lock of *)
(* the process serialises the requests for one snapshot.  The process can  *)
(* be killed at any step and the renderer replaced under it.               *)
(***************************************************************************)
EXTENDS Integers, FiniteSets

CONSTANTS
  Request,    \* slots for POST requests in progress
  Snapshot,   \* identifiers of approved snapshots; there is one template
  MaxRenderer \* bound: renderers installed, in the course of upgrades

ASSUME PdfAssumption == MaxRenderer \in Nat \ {0}

\* Bytes are told apart by the renderer that produced them: the renderer removes the
\* times from a PDF, so that one snapshot, template and renderer give the same bytes.
Absent == 0
Torn == -1 \* a file opened for writing and not written to the end
Bytes == 1..MaxRenderer

VARIABLES
  api,       \* "up" or "down"
  renderer,  \* the renderer installed
  snapshots, \* rows of analysis_workflow_snapshots
  rows,      \* rows of analysis_pdf_artifacts: the hash, or Absent
  files,     \* the PDF directory: what is at the path of each snapshot
  pc,        \* where each request is
  target,    \* the snapshot it is for
  content,   \* what its render returned
  answer     \* the hash in the artifact it answered with

vars == <<api, renderer, snapshots, rows, files, pc, target, content, answer>>

Init ==
  /\ api = "down"
  /\ renderer = 1
  /\ snapshots = {}
  /\ rows = [s \in Snapshot |-> Absent]
  /\ files = [s \in Snapshot |-> Absent]
  /\ pc = [r \in Request |-> "idle"]
  /\ target \in [Request -> Snapshot]
  /\ content = [r \in Request |-> Absent]
  /\ answer = [r \in Request |-> Absent]

Locked == {"locked", "approved", "rendering", "rendered", "writing", "written", "conflict"}

\* From the start of render to the end of write_bytes nothing yields: while one request
\* is there, no other moves.
Blocked(r) == \E q \in Request \ {r} : pc[q] \in {"rendered", "writing"}

Runs(r, label) == api = "up" /\ pc[r] = label /\ ~Blocked(r)
Goto(r, label) == pc' = [pc EXCEPT ![r] = label]
Stored == <<api, renderer, snapshots, rows, files>>

\* The process is gone; so are the requests and the locks.
Forget ==
  /\ pc' = [r \in Request |-> "idle"]
  /\ content' = [r \in Request |-> Absent]
  /\ answer' = [r \in Request |-> Absent]
  /\ UNCHANGED target

Generate(r, s) ==
  /\ Runs(r, "idle")
  /\ Goto(r, "waiting")
  /\ target' = [target EXCEPT ![r] = s]
  /\ UNCHANGED <<Stored, content, answer>>

\* Mutant: no lock for the snapshot.
AcquireNothing(r) ==
  /\ Runs(r, "waiting")
  /\ Goto(r, "locked")
  /\ UNCHANGED <<Stored, target, content, answer>>

\* asyncio.Lock of the snapshot and template.
Acquire(r) ==
  /\ Runs(r, "waiting")
  /\ ~\E q \in Request : pc[q] \in Locked /\ target[q] = target[r]
  /\ Goto(r, "locked")
  /\ UNCHANGED <<Stored, target, content, answer>>

\* The request is over and the lock released.
End(r, label) ==
  /\ Goto(r, label)
  /\ content' = [content EXCEPT ![r] = Absent]
  /\ UNCHANGED target

\* An exception: 404 without the snapshot, otherwise 503.
Fail(r) == End(r, "idle") /\ UNCHANGED <<Stored, answer>>

Return(r) ==
  /\ answer' = [answer EXCEPT ![r] = rows[target[r]]]
  /\ End(r, "answered")
  /\ UNCHANGED Stored

Reply(r) ==
  /\ Runs(r, "answered")
  /\ answer' = [answer EXCEPT ![r] = Absent]
  /\ End(r, "idle")
  /\ UNCHANGED Stored

ReadSnapshot(r) ==
  /\ Runs(r, "locked")
  /\ IF target[r] \in snapshots
     THEN Goto(r, "approved") /\ UNCHANGED <<Stored, target, content, answer>>
     ELSE Fail(r)

ReadArtifact(r) ==
  /\ Runs(r, "approved")
  /\ IF rows[target[r]] = Absent
     THEN Goto(r, "rendering") /\ UNCHANGED <<Stored, target, content, answer>>
     ELSE Return(r)

\* node with the renderer as it is on the disk at this moment.
Render(r) ==
  /\ Runs(r, "rendering")
  /\ content' = [content EXCEPT ![r] = renderer]
  /\ Goto(r, "rendered")
  /\ UNCHANGED <<Stored, target, answer>>

\* OSError of the renderer or of the directory.
RenderOrStorageFails(r) ==
  /\ \/ Runs(r, "rendering")
     \/ Runs(r, "rendered")
  /\ Fail(r)

\* write_bytes truncates the file and then writes it.
OpenFile(r) ==
  /\ Runs(r, "rendered")
  /\ files' = [files EXCEPT ![target[r]] = Torn]
  /\ Goto(r, "writing")
  /\ UNCHANGED <<api, renderer, snapshots, rows, target, content, answer>>

WriteFile(r) ==
  /\ Runs(r, "writing")
  /\ files' = [files EXCEPT ![target[r]] = content[r]]
  /\ Goto(r, "written")
  /\ UNCHANGED <<api, renderer, snapshots, rows, target, content, answer>>

\* Mutant: a full disk cuts the file short, and the row is written all the same.
DiskFullIsIgnored(r) ==
  /\ Runs(r, "writing")
  /\ Goto(r, "written")
  /\ UNCHANGED <<Stored, target, content, answer>>

\* OSError in the middle of the write: the truncated file stays.
DiskFull(r) ==
  /\ Runs(r, "writing")
  /\ Fail(r)

Violates(r) == rows[target[r]] # Absent \/ target[r] \notin snapshots

\* The INSERT commits, or fails with IntegrityError.
Create(r) ==
  /\ Runs(r, "written")
  /\ IF Violates(r)
     THEN Goto(r, "conflict") /\ UNCHANGED <<rows, target, content, answer>>
     ELSE /\ rows' = [rows EXCEPT ![target[r]] = content[r]]
          /\ answer' = [answer EXCEPT ![r] = content[r]]
          /\ End(r, "answered")
  /\ UNCHANGED <<api, renderer, snapshots, files>>

\* SQLAlchemyError, with the row committed or not.
CreateFails(r) ==
  /\ Runs(r, "written")
  /\ \/ UNCHANGED rows
     \/ ~Violates(r) /\ rows' = [rows EXCEPT ![target[r]] = content[r]]
  /\ End(r, "idle")
  /\ UNCHANGED <<api, renderer, snapshots, files, answer>>

\* Mutant: after the conflict the request answers with the artifact it had prepared.
ResolveWithOwn(r) ==
  /\ Runs(r, "conflict")
  /\ answer' = [answer EXCEPT ![r] = content[r]]
  /\ End(r, "answered")
  /\ UNCHANGED Stored

\* Another process was first: its artifact is the answer, if it can be found.
Resolve(r) ==
  /\ Runs(r, "conflict")
  /\ IF rows[target[r]] = Absent THEN Fail(r) ELSE Return(r)

Generation(r) ==
  \/ \E s \in Snapshot : Generate(r, s)
  \/ Acquire(r)
  \/ ReadSnapshot(r)
  \/ ReadArtifact(r)
  \/ Render(r)
  \/ RenderOrStorageFails(r)
  \/ OpenFile(r)
  \/ WriteFile(r)
  \/ DiskFull(r)
  \/ Create(r)
  \/ CreateFails(r)
  \/ Resolve(r)
  \/ Reply(r)

\* An approval of the workflow stores the snapshot.
Approve(s) ==
  /\ api = "up"
  /\ \A r \in Request : pc[r] \notin {"rendered", "writing"}
  /\ s \notin snapshots
  /\ snapshots' = snapshots \cup {s}
  /\ UNCHANGED <<api, renderer, rows, files, pc, target, content, answer>>

\* New Playwright or renderer script, in use from the next render on.
Upgrade ==
  /\ renderer < MaxRenderer
  /\ renderer' = renderer + 1
  /\ UNCHANGED <<api, snapshots, rows, files, pc, target, content, answer>>

Run ==
  /\ api = "down"
  /\ api' = "up"
  /\ UNCHANGED <<renderer, snapshots, rows, files, pc, target, content, answer>>

\* taskkill /F, or a crash.
Kill ==
  /\ api = "up"
  /\ api' = "down"
  /\ Forget
  /\ UNCHANGED <<renderer, snapshots, rows, files>>

Next ==
  \/ \E r \in Request : Generation(r)
  \/ \E s \in Snapshot : Approve(s)
  \/ Upgrade
  \/ Run
  \/ Kill

Spec == Init /\ [][Next]_vars

-----------------------------------------------------------------------------
(* Properties. *)

PdfTypeOK ==
  /\ api \in {"up", "down"}
  /\ renderer \in Bytes
  /\ snapshots \subseteq Snapshot
  /\ rows \in [Snapshot -> Bytes \cup {Absent}]
  /\ files \in [Snapshot -> Bytes \cup {Absent, Torn}]
  /\ pc \in [Request -> Locked \cup {"idle", "waiting", "answered"}]
  /\ target \in [Request -> Snapshot]
  /\ content \in [Request -> Bytes \cup {Absent}]
  /\ answer \in [Request -> Bytes \cup {Absent}]

\* What a download of the artifact of a snapshot answers: the hash of the file is
\* compared with that of the row each time.
Download(s) ==
  IF rows[s] = Absent \/ files[s] = Absent THEN "not found"
  ELSE IF files[s] # rows[s] THEN "integrity check failed"
  ELSE "file"

\* An artifact that has a row can be downloaded: no crash, failed write, repeated
\* request or new renderer leaves a row whose file is missing, cut short or of other
\* bytes, which no later request would repair, since generate returns the row it finds.
RowsHaveTheirFile == \A s \in Snapshot : rows[s] # Absent => Download(s) = "file"
=============================================================================
