----------------------------- MODULE OaSubmission -----------------------------
(***************************************************************************)
(* One row of reimbursement_submissions with its generated attachments,    *)
(* the workers that lease it, the two DingTalk services they mutate        *)
(* (attachment storage and the OA create call) and the administrator who   *)
(* resolves what automation cannot.                                        *)
(*                                                                         *)
(* A worker's step is one database transaction or one remote call.  Every  *)
(* transaction is fenced by the lease: it is possible only while the       *)
(* worker owns the row and the lease has not run out.  The row's           *)
(* lease_token and status_version are represented by the pair owner/live:  *)
(* a worker process runs one job at a time and takes a fresh identity when *)
(* it restarts, so "I own the live lease" says exactly that the token and  *)
(* the version it carries are the row's.                                   *)
(***************************************************************************)
EXTENDS Naturals, FiniteSets

CONSTANTS
  Workers,             \* worker processes
  NumFiles,            \* generated attachments: 2 (PDF, Excel) or 1 (Excel only)
  Instances,           \* ids DingTalk can give to approvals with this content
  None,                \* SQL NULL in lease_owner and process_instance_id
  StallsAllowed,       \* may a worker still running a job outlive its lease?
  AdminMayErr          \* may an administrator attest to something untrue?

ASSUME NumFilesAssumption == NumFiles \in Nat \ {0}
ASSUME NoneAssumption == None \notin Workers \cup Instances
ASSUME SwitchAssumption == StallsAllowed \in BOOLEAN /\ AdminMayErr \in BOOLEAN

VARIABLES
  row,           \* the reimbursement_submissions row
  uploads,       \* upload_status of each generated attachment
  job,           \* per worker: where its process() call stands, and on which file
  creates,       \* create requests ever handed to the network
  oaFlight,      \* a create request is in flight
  oaBorn,        \* the approval our own request produced, or None
  oas,           \* approvals whose form equals the frozen snapshot
  commitFlight,  \* per file: a storage commit is in flight
  dentries       \* per file: live DingTalk dentries created for it

local == <<row, uploads>>
oaSide == <<creates, oaFlight, oaBorn, oas>>
fileSide == <<commitFlight, dentries>>
remote == <<creates, oaFlight, oaBorn, oas, commitFlight, dentries>>
vars == <<row, uploads, job, creates, oaFlight, oaBorn, oas, commitFlight, dentries>>

Files == 1..NumFiles

\* Bounds on the two counters; no reachable state gets beyond 1, and they are
\* there so that a faulty variant of the code can be seen to get there.
MaxCreates == 2
MaxDentries == 2

SubmissionStatus ==
  {"QUEUED", "VALIDATING", "GENERATING_EXCEL", "UPLOADING", "OA_CREATING",
   "VERIFYING", "FAILED_RETRYABLE", "RECONCILING", "ORPHAN_CLEANUP",
   "SUBMITTED", "FAILED_FINAL", "MANUAL_REVIEW"}

\* RESERVED is a PENDING row whose bytes are not staged yet (local_status
\* RESERVED or WRITING); PENDING is one with size and hash; ABSENT has no row.
UploadStatus ==
  {"ABSENT", "RESERVED", "PENDING", "PUTTING", "PUT_DONE", "COMMITTING",
   "COMMIT_UNCERTAIN", "COMMITTED", "LINKED", "CLEANUP_PENDING", "CLEANED",
   "DISCARDED"}

ClaimableStatuses ==
  {"QUEUED", "VALIDATING", "GENERATING_EXCEL", "UPLOADING", "RECONCILING",
   "VERIFYING", "FAILED_RETRYABLE", "ORPHAN_CLEANUP"}

RetryableStatuses ==
  {"VALIDATING", "GENERATING_EXCEL", "UPLOADING", "VERIFYING", "ORPHAN_CLEANUP"}

\* An upload in one of these states holds no remote file.
NoRemoteFile == {"ABSENT", "RESERVED", "PENDING", "PUTTING", "PUT_DONE",
                 "CLEANED", "DISCARDED"}

UncertainStatuses == {"COMMITTING", "COMMIT_UNCERTAIN"}

\* Where a worker stands: between phases and around the create call it holds no
\* file, in the upload loop it is at a file or past the last one, and inside the
\* handling of one file it is at that file.
PlainSteps == {"idle", "run", "create", "send", "createWait", "release", "link"}
FileSteps == {"write", "put", "putDone", "commit", "commitWait", "rejected",
              "recycle", "recycled"}

Rows == [status : SubmissionStatus, resume : RetryableStatuses \cup {"NONE"},
         owner : Workers \cup {None}, live : BOOLEAN,
         deadline : {"unset", "open", "passed"}, instance : Instances \cup {None}]

Jobs == [at : PlainSteps, file : {0}] \cup [at : FileSteps, file : Files]
          \cup [at : {"upload"}, file : 1..(NumFiles + 1)]

Init ==
  /\ row = [status |-> "QUEUED", resume |-> "NONE", owner |-> None, live |-> FALSE,
            deadline |-> "unset", instance |-> None]
  /\ uploads = [f \in Files |-> "ABSENT"]
  /\ job = [w \in Workers |-> [at |-> "idle", file |-> 0]]
  /\ creates = 0
  /\ oaFlight = FALSE
  /\ oaBorn = None
  /\ oas = {}
  /\ commitFlight = [f \in Files |-> FALSE]
  /\ dentries = [f \in Files |-> 0]

-----------------------------------------------------------------------------
(* The database: leases, constraints and triggers *)

LeaseHeld == row.owner # None /\ row.live

\* Faulty variant: updates do not ask for the lease.
Unfenced(w) == w \in Workers

Fenced(w) == row.owner = w /\ row.live

\* oa_create_started_at and oa_request_hash are set together with the deadline.
CreateStarted(r) == r.deadline # "unset"

\* The row is in a state in which the approval may carry its attachments.
HoldsInstance(r) ==
  /\ r.instance # None
  /\ \/ r.status \in {"VERIFYING", "SUBMITTED", "MANUAL_REVIEW"}
     \/ r.status = "FAILED_RETRYABLE" /\ r.resume = "VERIFYING"

\* trg_reimbursement_submissions_cleanup_guard_update
CleanupGuard(r) ==
  (\E f \in Files : uploads[f] \in {"CLEANUP_PENDING", "CLEANED"}) =>
     /\ r.instance = None
     /\ \/ r.status = "ORPHAN_CLEANUP"
        \/ r.status = "FAILED_FINAL" /\ \A f \in Files : uploads[f] \in NoRemoteFile

\* trg_reimbursement_submissions_linked_guard_update
LinkedGuard(r) == (\E f \in Files : uploads[f] = "LINKED") => HoldsInstance(r)

\* What SQLite lets an UPDATE of the row write.
RowAccepts(r) ==
  /\ CleanupGuard(r)
  /\ LinkedGuard(r)
  /\ row.instance # None => r.instance = row.instance
  /\ row.status = "SUBMITTED" => r.status = "SUBMITTED"
  /\ r.status = "SUBMITTED" => \A f \in Files : uploads[f] = "LINKED"
  /\ r.instance # None => HoldsInstance(r)
  /\ r.status \in {"VERIFYING", "SUBMITTED"} => r.instance # None
  /\ r.status \in {"OA_CREATING", "RECONCILING", "VERIFYING", "SUBMITTED"} => CreateStarted(r)

Unleased(r) == [r EXCEPT !.owner = None, !.live = FALSE]

At(w, step, f) == job' = [job EXCEPT ![w] = [at |-> step, file |-> f]]

\* One fenced UPDATE of the row.  An update the constraints refuse raises
\* IntegrityError, nothing catches it, and the worker drops the job.
Save(w, r, step) ==
  /\ Fenced(w)
  /\ IF RowAccepts(r) THEN row' = r /\ At(w, step, 0)
                      ELSE row' = row /\ At(w, "idle", 0)

\* Change the status and keep the lease.
Advance(w, status, step) ==
  Save(w, [row EXCEPT !.status = status, !.resume = "NONE"], step)

\* Change the status and give the lease up.
Finish(w, status) ==
  Save(w, Unleased([row EXCEPT !.status = status, !.resume = "NONE"]), "idle")

\* Faulty variant: the phase to resume is not written down.
RetryWithoutPhase(w) ==
  /\ row.status \in RetryableStatuses
  /\ Save(w, Unleased([row EXCEPT !.status = "FAILED_RETRYABLE"]), "idle")

\* Schedule another attempt of the current phase.
Retry(w) ==
  /\ row.status \in RetryableStatuses
  /\ Save(w, Unleased([row EXCEPT !.status = "FAILED_RETRYABLE", !.resume = row.status]), "idle")

\* One fenced UPDATE of upload f while the row is in the given status.
SaveUpload(w, f, status, from, to) ==
  /\ Fenced(w)
  /\ row.status = status
  /\ uploads[f] \in from
  /\ uploads' = [uploads EXCEPT ![f] = to]

-----------------------------------------------------------------------------
(* Claiming, losing and recovering the lease *)

NeedsRecovery ==
  row.status = "UPLOADING" /\ \E f \in Files : uploads[f] = "COMMITTING"

EffectiveStatus == IF row.status = "FAILED_RETRYABLE" THEN row.resume ELSE row.status

\* A claim runs recovery first and restores the phase of a retryable row.
Claim(w) ==
  /\ job[w].at = "idle"
  /\ ~LeaseHeld
  /\ row.status \in ClaimableStatuses
  /\ ~NeedsRecovery
  /\ LET r == [row EXCEPT !.status = EffectiveStatus, !.resume = "NONE",
                          !.owner = w, !.live = TRUE]
     IN  RowAccepts(r) /\ row' = r
  /\ At(w, "run", 0)
  /\ UNCHANGED <<uploads, remote>>

SomeoneIdle == \E w \in Workers : job[w].at = "idle"

\* Faulty variant: an abandoned commit is simply started over.
RestartLostCommit ==
  /\ SomeoneIdle
  /\ ~LeaseHeld
  /\ NeedsRecovery
  /\ row' = Unleased(row)
  /\ uploads' = [f \in Files |-> IF uploads[f] = "COMMITTING" THEN "PENDING" ELSE uploads[f]]
  /\ UNCHANGED <<job, remote>>

\* An abandoned commit cannot be resolved by a machine.
RecoverLostCommit ==
  /\ SomeoneIdle
  /\ ~LeaseHeld
  /\ NeedsRecovery
  /\ row' = Unleased([row EXCEPT !.status = "MANUAL_REVIEW", !.resume = "NONE"])
  /\ uploads' = [f \in Files |-> IF uploads[f] = "COMMITTING" THEN "COMMIT_UNCERTAIN"
                                                            ELSE uploads[f]]
  /\ UNCHANGED <<job, remote>>

\* Faulty variants: an abandoned create is repeated; nobody looks for it.
RepeatLostCreate ==
  /\ SomeoneIdle
  /\ ~LeaseHeld
  /\ row.status = "OA_CREATING"
  /\ row' = Unleased([row EXCEPT !.status = "UPLOADING"])
  /\ UNCHANGED <<uploads, job, remote>>

ForgetLostCreate == FALSE /\ UNCHANGED vars

\* An abandoned create is reconciled, never repeated.
RecoverLostCreate ==
  /\ SomeoneIdle
  /\ ~LeaseHeld
  /\ row.status = "OA_CREATING"
  /\ row' = Unleased([row EXCEPT !.status = "RECONCILING", !.resume = "NONE"])
  /\ UNCHANGED <<uploads, job, remote>>

\* Time passes lease_expires_at.  The configuration keeps the lease longer than
\* one remote call, so a running worker loses it only by stalling.
LeaseExpires ==
  /\ LeaseHeld
  /\ StallsAllowed \/ job[row.owner].at = "idle"
  /\ row' = [row EXCEPT !.live = FALSE]
  /\ UNCHANGED <<uploads, job, remote>>

\* Time passes reconciliation_deadline_at.
DeadlinePasses ==
  /\ row.deadline = "open"
  /\ row' = [row EXCEPT !.deadline = "passed"]
  /\ UNCHANGED <<uploads, job, remote>>

\* The process dies, or is stopped outside a mutation.
Crash(w) ==
  /\ job[w].at # "idle"
  /\ At(w, "idle", 0)
  /\ UNCHANGED <<local, remote>>

\* Any transaction of a worker whose lease is gone is refused, which ends its job.
Conflict(w) ==
  /\ job[w].at # "idle"
  /\ ~Fenced(w)
  /\ At(w, "idle", 0)
  /\ UNCHANGED <<local, remote>>

-----------------------------------------------------------------------------
(* process(): QUEUED, VALIDATING and GENERATING_EXCEL *)

Running(w, status) == job[w].at = "run" /\ row.status = status

StartValidation(w) ==
  /\ Running(w, "QUEUED")
  /\ Advance(w, "VALIDATING", "run")
  /\ UNCHANGED <<uploads, remote>>

ValidationPasses(w) ==
  /\ Running(w, "VALIDATING")
  /\ Advance(w, "GENERATING_EXCEL", "run")
  /\ UNCHANGED <<uploads, remote>>

ValidationRejects(w) ==
  /\ Running(w, "VALIDATING")
  /\ Finish(w, "FAILED_FINAL")
  /\ UNCHANGED <<uploads, remote>>

ValidationUnavailable(w) ==
  /\ Running(w, "VALIDATING")
  /\ Retry(w)
  /\ UNCHANGED <<uploads, remote>>

\* f is the first file of the frozen manifest that is not staged yet.
NextToGenerate(f) ==
  /\ uploads[f] # "PENDING"
  /\ \A g \in 1..(f - 1) : uploads[g] = "PENDING"

\* A discarded reservation of an earlier attempt is deleted before the retry.
RemoveDiscarded(w, f) ==
  /\ Running(w, "GENERATING_EXCEL")
  /\ NextToGenerate(f)
  /\ SaveUpload(w, f, "GENERATING_EXCEL", {"DISCARDED"}, "ABSENT")
  /\ UNCHANGED <<row, job, remote>>

ReserveGenerated(w, f) ==
  /\ Running(w, "GENERATING_EXCEL")
  /\ NextToGenerate(f)
  /\ SaveUpload(w, f, "GENERATING_EXCEL", {"ABSENT"}, "RESERVED")
  /\ At(w, "write", f)
  /\ UNCHANGED <<row, remote>>

\* The bytes are on disk and the reservation becomes a ready upload.
FinalizeGenerated(w) ==
  LET f == job[w].file IN
  /\ job[w].at = "write"
  /\ SaveUpload(w, f, "GENERATING_EXCEL", {"RESERVED"}, "PENDING")
  /\ At(w, "run", 0)
  /\ UNCHANGED <<row, remote>>

\* The write failed, or the reservation was reclaimed meanwhile: the row is
\* discarded if its release succeeds and left to the sweeper otherwise.
GenerateFails(w) ==
  LET f == job[w].file IN
  /\ job[w].at = "write"
  /\ \/ uploads' = uploads
     \/ uploads[f] = "RESERVED" /\ uploads' = [uploads EXCEPT ![f] = "DISCARDED"]
  /\ Retry(w)
  /\ UNCHANGED remote

\* A reservation left by a lost attempt is not reused before it is reclaimed,
\* and no quota means no reservation: both ask for another attempt.
GenerationPostponed(w) ==
  /\ Running(w, "GENERATING_EXCEL")
  /\ \E f \in Files : NextToGenerate(f)
  /\ Retry(w)
  /\ UNCHANGED <<uploads, remote>>

GenerationDone(w) ==
  /\ Running(w, "GENERATING_EXCEL")
  /\ \A f \in Files : uploads[f] = "PENDING"
  /\ Advance(w, "UPLOADING", "run")
  /\ UNCHANGED <<uploads, remote>>

\* The quota sweeper and the start-up sweep; the latter ignores leases.
ReclaimReservation(f) ==
  /\ uploads[f] = "RESERVED"
  /\ row.instance = None
  /\ uploads' = [uploads EXCEPT ![f] = "DISCARDED"]
  /\ UNCHANGED <<row, job, remote>>

-----------------------------------------------------------------------------
(* A definite failure before the create call is classified by what it left *)

Doubtful ==
  \/ CreateStarted(row)
  \/ row.instance # None
  \/ \E f \in Files : uploads[f] \in UncertainStatuses \cup {"LINKED"}

PreCreateVerdict ==
  IF Doubtful THEN "MANUAL_REVIEW"
  ELSE IF \E f \in Files : uploads[f] \in {"COMMITTED", "CLEANUP_PENDING"}
       THEN "ORPHAN_CLEANUP" ELSE "FAILED_FINAL"

\* Steps of the phases before the create call at which an ApiError is caught.
PreCreateSteps(w) ==
  \/ Running(w, "GENERATING_EXCEL")
  \/ Running(w, "UPLOADING")
  \/ row.status = "UPLOADING" /\ job[w].at \in {"upload", "put", "rejected"}

PreCreateRefused(w) ==
  /\ PreCreateSteps(w)
  /\ IF PreCreateVerdict = "ORPHAN_CLEANUP" THEN Advance(w, "ORPHAN_CLEANUP", "run")
                                            ELSE Finish(w, PreCreateVerdict)
  /\ UNCHANGED <<uploads, remote>>

PreCreateUnavailable(w) ==
  /\ PreCreateSteps(w) /\ row.status = "UPLOADING"
  /\ Retry(w)
  /\ UNCHANGED <<uploads, remote>>

-----------------------------------------------------------------------------
(* UPLOADING: one pass over the files, then the create checkpoint *)

BeginUploads(w) ==
  /\ Running(w, "UPLOADING")
  /\ Fenced(w)
  /\ At(w, "upload", 1)
  /\ UNCHANGED <<local, remote>>

Uploading(w, f) == job[w].at = "upload" /\ job[w].file = f

\* A committed file is probed again and reused when it is exactly the same.
ProbeExact(w, f) ==
  /\ Uploading(w, f)
  /\ uploads[f] = "COMMITTED"
  /\ dentries[f] > 0
  /\ At(w, "upload", f + 1)
  /\ UNCHANGED <<local, remote>>

\* Somebody renamed, changed or removed the file in DingTalk.
ProbeNotExact(w, f) ==
  /\ Uploading(w, f)
  /\ uploads[f] = "COMMITTED"
  /\ Finish(w, "MANUAL_REVIEW")
  /\ UNCHANGED <<uploads, remote>>

BeginUploadPut(w, f) ==
  /\ Uploading(w, f)
  /\ SaveUpload(w, f, "UPLOADING", {"PENDING", "PUTTING", "PUT_DONE"}, "PUTTING")
  /\ At(w, "put", f)
  /\ UNCHANGED <<row, remote>>

RecordUploadPutDone(w) ==
  LET f == job[w].file IN
  /\ job[w].at = "put"
  /\ SaveUpload(w, f, "UPLOADING", {"PUTTING"}, "PUT_DONE")
  /\ At(w, "putDone", f)
  /\ UNCHANGED <<row, remote>>

BeginUploadCommit(w) ==
  LET f == job[w].file IN
  /\ job[w].at = "putDone"
  /\ SaveUpload(w, f, "UPLOADING", {"PUT_DONE"}, "COMMITTING")
  /\ At(w, "commit", f)
  /\ UNCHANGED <<row, remote>>

\* The request leaves; nothing checks the lease again before it does.
SendCommit(w) ==
  LET f == job[w].file IN
  /\ job[w].at = "commit"
  /\ commitFlight' = [commitFlight EXCEPT ![f] = TRUE]
  /\ At(w, "commitWait", f)
  /\ UNCHANGED <<local, oaSide, dentries>>

RecordUploadCommitted(w) ==
  LET f == job[w].file IN
  /\ job[w].at = "commitWait"
  /\ ~commitFlight[f] /\ dentries[f] > 0
  /\ SaveUpload(w, f, "UPLOADING", {"COMMITTING"}, "COMMITTED")
  /\ At(w, "upload", f + 1)
  /\ UNCHANGED <<row, remote>>

\* Timeout, cancellation, 5xx or malformed answer: upload and row stop together.
CommitOutcomeUnknown(w) ==
  LET f == job[w].file IN
  /\ job[w].at = "commitWait"
  /\ SaveUpload(w, f, "UPLOADING", {"COMMITTING"}, "COMMIT_UNCERTAIN")
  /\ row' = Unleased([row EXCEPT !.status = "MANUAL_REVIEW", !.resume = "NONE"])
  /\ At(w, "idle", 0)
  /\ UNCHANGED remote

\* A definite rejection made no file, so the upload may start over.
CommitRejected(w) ==
  LET f == job[w].file IN
  /\ job[w].at = "commitWait"
  /\ commitFlight[f]
  /\ SaveUpload(w, f, "UPLOADING", {"COMMITTING"}, "PENDING")
  /\ commitFlight' = [commitFlight EXCEPT ![f] = FALSE]
  /\ At(w, "rejected", f)
  /\ UNCHANGED <<row, oaSide, dentries>>

\* The exact create command is persisted before it is sent.
CheckpointOaCreate(w) ==
  /\ Uploading(w, NumFiles + 1)
  /\ row.status = "UPLOADING"
  /\ \A f \in Files : uploads[f] = "COMMITTED"
  /\ Save(w, [row EXCEPT !.status = "OA_CREATING", !.deadline = "open"], "create")
  /\ UNCHANGED <<uploads, remote>>

-----------------------------------------------------------------------------
(* OA_CREATING: the one create request *)

\* _create_once renews the lease and goes on to build the request ...
RenewBeforeCreate(w) ==
  /\ job[w].at = "create"
  /\ Fenced(w) /\ RowAccepts(row)
  /\ At(w, "send", 0)
  /\ UNCHANGED <<local, remote>>

\* ... which leaves without another look at the lease.
SendCreate(w) ==
  /\ job[w].at = "send"
  /\ creates < MaxCreates
  /\ creates' = creates + 1
  /\ oaFlight' = TRUE
  /\ At(w, "createWait", 0)
  /\ UNCHANGED <<local, oaBorn, oas, fileSide>>

RecordCreated(w) ==
  /\ job[w].at = "createWait"
  /\ row.status \in {"OA_CREATING", "RECONCILING"}
  /\ oaBorn # None
  /\ Save(w, [row EXCEPT !.status = "VERIFYING", !.instance = oaBorn], "run")
  /\ UNCHANGED <<uploads, remote>>

\* Timeout, cancellation, 5xx, 429 or an answer without an id.
CreateOutcomeUnknown(w) ==
  /\ job[w].at = "createWait"
  /\ row.status = "OA_CREATING"
  /\ Advance(w, "RECONCILING", "release")
  /\ UNCHANGED <<uploads, remote>>

\* Marking the outcome unknown and giving up the lease are two transactions.
ReleaseLease(w) ==
  /\ job[w].at = "release"
  /\ Save(w, Unleased(row), "idle")
  /\ UNCHANGED <<uploads, remote>>

\* A definite rejection, or 401 and missing permission: nothing was created.
CreateRejected(w) ==
  /\ job[w].at = "createWait"
  /\ oaFlight
  /\ row.status = "OA_CREATING"
  /\ oaFlight' = FALSE
  /\ Advance(w, "ORPHAN_CLEANUP", "run")
  /\ UNCHANGED <<uploads, creates, oaBorn, oas, fileSide>>

-----------------------------------------------------------------------------
(* RECONCILING: look for the approval the lost response may have created *)

\* Exactly one approval matched; its content has been compared already.
ReconcileFinds(w, i) ==
  /\ Running(w, "RECONCILING")
  /\ row.deadline = "open"
  /\ i \in oas
  /\ Save(w, [row EXCEPT !.status = "VERIFYING", !.instance = i], "link")
  /\ UNCHANGED <<uploads, remote>>

ReconcileAmbiguous(w) ==
  /\ Running(w, "RECONCILING")
  /\ row.deadline = "open"
  /\ Cardinality(oas) > 1
  /\ Finish(w, "MANUAL_REVIEW")
  /\ UNCHANGED <<uploads, remote>>

\* No match yet (the query may lag behind), or the query failed.
ReconcileLater(w) ==
  /\ Running(w, "RECONCILING")
  /\ row.deadline = "open"
  /\ Finish(w, "RECONCILING")
  /\ UNCHANGED <<uploads, remote>>

\* After the deadline the heartbeat refuses to query at all.
ReconcileExpires(w) ==
  /\ Running(w, "RECONCILING")
  /\ row.deadline = "passed"
  /\ Finish(w, "MANUAL_REVIEW")
  /\ UNCHANGED <<uploads, remote>>

-----------------------------------------------------------------------------
(* VERIFYING: read the approval back, link its files, finish *)

VerifyUnavailable(w) ==
  /\ Running(w, "VERIFYING")
  /\ Retry(w)
  /\ UNCHANGED <<uploads, remote>>

\* The readback differs from the command, or is definitely not readable.
VerifyMismatch(w) ==
  /\ Running(w, "VERIFYING")
  /\ Finish(w, "MANUAL_REVIEW")
  /\ UNCHANGED <<uploads, remote>>

\* Faulty variant: the readback is not compared.
VerifyAnything(w) ==
  /\ Running(w, "VERIFYING")
  /\ Fenced(w)
  /\ At(w, "link", 0)
  /\ UNCHANGED <<local, remote>>

VerifyMatch(w) ==
  /\ Running(w, "VERIFYING")
  /\ Fenced(w)
  /\ row.instance \in oas
  /\ At(w, "link", 0)
  /\ UNCHANGED <<local, remote>>

\* complete_submission links one file per transaction ...
MarkUploadLinked(w, f) ==
  /\ job[w].at = "link"
  /\ SaveUpload(w, f, "VERIFYING", {"COMMITTED"}, "LINKED")
  /\ \A g \in 1..(f - 1) : uploads[g] = "LINKED"
  /\ UNCHANGED <<row, job, remote>>

\* ... and then the row.
MarkSubmitted(w) ==
  /\ job[w].at = "link"
  /\ row.status = "VERIFYING"
  /\ \A f \in Files : uploads[f] = "LINKED"
  /\ Finish(w, "SUBMITTED")
  /\ UNCHANGED <<uploads, remote>>

-----------------------------------------------------------------------------
(* ORPHAN_CLEANUP: recycle what was committed for an approval that is not *)

Orphans == {f \in Files : uploads[f] \in {"COMMITTED", "CLEANUP_PENDING"}}

FirstOrphan(f) == f \in Orphans /\ \A g \in Orphans : f <= g

BeginUploadCleanup(w, f) ==
  /\ Running(w, "ORPHAN_CLEANUP")
  /\ row.instance = None
  /\ FirstOrphan(f)
  /\ SaveUpload(w, f, "ORPHAN_CLEANUP", {"COMMITTED", "CLEANUP_PENDING"}, "CLEANUP_PENDING")
  /\ At(w, "recycle", f)
  /\ UNCHANGED <<row, remote>>

\* The delete takes effect, or the file is already gone.
Recycle(w) ==
  LET f == job[w].file IN
  /\ job[w].at = "recycle"
  /\ dentries' = [dentries EXCEPT ![f] = 0]
  /\ At(w, "recycled", f)
  /\ UNCHANGED <<local, oaSide, commitFlight>>

RecordUploadCleaned(w) ==
  LET f == job[w].file IN
  /\ job[w].at = "recycled"
  /\ SaveUpload(w, f, "ORPHAN_CLEANUP", {"CLEANUP_PENDING"}, "CLEANED")
  /\ At(w, "run", 0)
  /\ UNCHANGED <<row, remote>>

\* The recycle call failed in a way worth repeating, or is not confirmed yet.
RecycleUnavailable(w) ==
  /\ job[w].at \in {"recycle", "recycled"}
  /\ row.status = "ORPHAN_CLEANUP"
  /\ Retry(w)
  /\ UNCHANGED <<uploads, remote>>

\* The recycle call was definitely refused (permission, changed file).
RecycleRefused(w) ==
  /\ job[w].at \in {"recycle", "recycled"}
  /\ row.status = "ORPHAN_CLEANUP"
  /\ Finish(w, "MANUAL_REVIEW")
  /\ UNCHANGED <<uploads, remote>>

CompleteOrphanCleanup(w) ==
  /\ Running(w, "ORPHAN_CLEANUP")
  /\ \A f \in Files : uploads[f] \in NoRemoteFile
  /\ Finish(w, "FAILED_FINAL")
  /\ UNCHANGED <<uploads, remote>>

-----------------------------------------------------------------------------
(* MANUAL_REVIEW: what people can do *)

\* The owner asks for another readback of an approval already known.
RequestRecheck ==
  /\ row.status = "MANUAL_REVIEW"
  /\ row.instance # None
  /\ CreateStarted(row)
  /\ row.owner = None
  /\ row' = [row EXCEPT !.status = "VERIFYING", !.resume = "NONE"]
  /\ RowAccepts(row')
  /\ UNCHANGED <<uploads, job, remote>>

AdminAttachesInstance(i) ==
  /\ row.status = "MANUAL_REVIEW"
  /\ row.instance = None
  /\ row.owner = None
  /\ CreateStarted(row)
  /\ AdminMayErr \/ i \in oas
  /\ row' = [row EXCEPT !.status = "VERIFYING", !.resume = "NONE", !.instance = i]
  /\ RowAccepts(row')
  /\ UNCHANGED <<uploads, job, remote>>

\* What an administrator has to establish before denying the approval and the
\* files of uncertain uploads: they do not exist and no request is still out.
NothingCreated ==
  /\ oas = {}
  /\ ~oaFlight
  /\ \A f \in Files : uploads[f] \in UncertainStatuses => dentries[f] = 0 /\ ~commitFlight[f]
  /\ \A w \in Workers : job[w].at \notin {"send", "commit"}

\* The file of an unknown commit turned out to exist.  The system has no handle
\* on it, so the administrator removes it in DingTalk before confirming.
AdminDeletesFile(f) ==
  /\ row.status = "MANUAL_REVIEW"
  /\ row.instance = None
  /\ uploads[f] \in UncertainStatuses
  /\ oas = {} /\ dentries[f] > 0
  /\ dentries' = [dentries EXCEPT ![f] = 0]
  /\ UNCHANGED <<local, job, oaSide, commitFlight>>

AdminConfirmsNotCreated ==
  /\ row.status = "MANUAL_REVIEW"
  /\ row.instance = None
  /\ row.owner = None
  /\ AdminMayErr \/ NothingCreated
  /\ row' = [row EXCEPT !.status = "ORPHAN_CLEANUP", !.resume = "NONE"]
  /\ RowAccepts(row')
  /\ uploads' = [f \in Files |-> IF uploads[f] \in UncertainStatuses THEN "PENDING"
                                                                  ELSE uploads[f]]
  /\ UNCHANGED <<job, remote>>

-----------------------------------------------------------------------------
(* DingTalk: a request lands or is lost, whoever still waits for it *)

CreateLands(i) ==
  /\ oaFlight
  /\ i \notin oas
  /\ oaFlight' = FALSE
  /\ oaBorn' = i
  /\ oas' = oas \cup {i}
  /\ UNCHANGED <<row, uploads, job, creates, fileSide>>

CreateIsLost ==
  /\ oaFlight
  /\ oaFlight' = FALSE
  /\ UNCHANGED <<row, uploads, job, creates, oaBorn, oas, fileSide>>

\* The employee submits the same approval again from inside DingTalk.
EmployeeResubmits(i) ==
  /\ oas # {}
  /\ i \notin oas
  /\ oas' = oas \cup {i}
  /\ UNCHANGED <<row, uploads, job, creates, oaFlight, oaBorn, fileSide>>

CommitLands(f) ==
  /\ commitFlight[f]
  /\ dentries[f] < MaxDentries
  /\ commitFlight' = [commitFlight EXCEPT ![f] = FALSE]
  /\ dentries' = [dentries EXCEPT ![f] = @ + 1]
  /\ UNCHANGED <<row, uploads, job, oaSide>>

CommitIsLost(f) ==
  /\ commitFlight[f]
  /\ commitFlight' = [commitFlight EXCEPT ![f] = FALSE]
  /\ UNCHANGED <<row, uploads, job, oaSide, dentries>>

-----------------------------------------------------------------------------
Preparing(w) ==
  \/ StartValidation(w)
  \/ ValidationPasses(w) \/ ValidationRejects(w) \/ ValidationUnavailable(w)
  \/ \E f \in Files : RemoveDiscarded(w, f) \/ ReserveGenerated(w, f)
  \/ FinalizeGenerated(w) \/ GenerateFails(w) \/ GenerationPostponed(w)
  \/ GenerationDone(w)
  \/ PreCreateRefused(w) \/ PreCreateUnavailable(w)

UploadingFiles(w) ==
  \/ BeginUploads(w)
  \/ \E f \in Files : ProbeExact(w, f) \/ ProbeNotExact(w, f) \/ BeginUploadPut(w, f)
  \/ RecordUploadPutDone(w) \/ BeginUploadCommit(w) \/ SendCommit(w)
  \/ RecordUploadCommitted(w) \/ CommitOutcomeUnknown(w) \/ CommitRejected(w)
  \/ CheckpointOaCreate(w)

Creating(w) ==
  \/ RenewBeforeCreate(w) \/ SendCreate(w)
  \/ RecordCreated(w) \/ CreateOutcomeUnknown(w) \/ ReleaseLease(w) \/ CreateRejected(w)

Resolving(w) ==
  \/ \E i \in Instances : ReconcileFinds(w, i)
  \/ ReconcileAmbiguous(w) \/ ReconcileLater(w) \/ ReconcileExpires(w)
  \/ VerifyUnavailable(w) \/ VerifyMismatch(w) \/ VerifyMatch(w)
  \/ \E f \in Files : MarkUploadLinked(w, f)
  \/ MarkSubmitted(w)

CleaningUp(w) ==
  \/ \E f \in Files : BeginUploadCleanup(w, f)
  \/ Recycle(w) \/ RecordUploadCleaned(w)
  \/ RecycleUnavailable(w) \/ RecycleRefused(w) \/ CompleteOrphanCleanup(w)

WorkerStep(w) ==
  \/ Claim(w) \/ Crash(w) \/ Conflict(w)
  \/ Preparing(w) \/ UploadingFiles(w) \/ Creating(w) \/ Resolving(w) \/ CleaningUp(w)

Database ==
  \/ RecoverLostCommit \/ RecoverLostCreate \/ LeaseExpires \/ DeadlinePasses
  \/ \E f \in Files : ReclaimReservation(f)

People ==
  \/ RequestRecheck
  \/ \E i \in Instances : AdminAttachesInstance(i)
  \/ \E f \in Files : AdminDeletesFile(f)
  \/ AdminConfirmsNotCreated

DingTalk ==
  \/ \E i \in Instances : CreateLands(i) \/ EmployeeResubmits(i)
  \/ CreateIsLost
  \/ \E f \in Files : CommitLands(f) \/ CommitIsLost(f)

\* A reported submission with no worker on it and no request out is done; any
\* other state without a step is a deadlock.
Done ==
  /\ row.status \in {"SUBMITTED", "FAILED_FINAL"}
  /\ \A w \in Workers : job[w].at = "idle"
  /\ UNCHANGED vars

Next ==
  \/ \E w \in Workers : WorkerStep(w)
  \/ Database \/ People \/ DingTalk
  \/ Done

Spec == Init /\ [][Next]_vars

(* Fairness.  A worker that is up takes its next step, and one that is idle    *)
(* polls; recovery, sweeps and the two clocks run; a request in flight either  *)
(* takes effect or dies.  Progress also needs the world outside to become      *)
(* cooperative at some point: processes stay up and do not outlive leases,     *)
(* services answer definitely, the employee's quota has room.                  *)
Work(w) ==
  \/ Claim(w) \/ Conflict(w)
  \/ Preparing(w) \/ UploadingFiles(w) \/ Creating(w) \/ Resolving(w) \/ CleaningUp(w)

\* The lease runs out under the worker.
Stall == LeaseExpires /\ job[row.owner].at # "idle"

Fault(w) ==
  \/ Crash(w)
  \/ ValidationUnavailable(w) \/ GenerateFails(w)
  \/ GenerationPostponed(w) /\ \A f \in Files : uploads[f] # "RESERVED"
  \/ PreCreateUnavailable(w) \/ VerifyUnavailable(w)
  \/ RecycleUnavailable(w) \/ RecycleRefused(w)

Fairness ==
  /\ \A w \in Workers : WF_vars(Work(w))
  /\ WF_vars(RecoverLostCommit) /\ WF_vars(RecoverLostCreate)
  /\ WF_vars(LeaseExpires /\ ~Stall) /\ WF_vars(DeadlinePasses)
  /\ WF_vars(\E f \in Files : ReclaimReservation(f))
  /\ WF_vars(CreateIsLost \/ \E i \in Instances : CreateLands(i))
  /\ WF_vars(\E f \in Files : CommitLands(f) \/ CommitIsLost(f))
  /\ <>[][~Stall /\ \A w \in Workers : ~Fault(w)]_vars

LiveSpec == Spec /\ Fairness

-----------------------------------------------------------------------------
(* Type invariant: every variable stays in its domain; lease and resume     *)
(* status agree with the row status as the check constraints demand.        *)
TypeOK ==
  /\ row \in Rows
  /\ row.status = "FAILED_RETRYABLE" <=> row.resume # "NONE"
  /\ uploads \in [Files -> UploadStatus]
  /\ job \in [Workers -> Jobs]
  /\ creates \in 0..MaxCreates
  /\ oaFlight \in BOOLEAN
  /\ oaBorn \in Instances \cup {None}
  /\ oas \in SUBSET Instances
  /\ commitFlight \in [Files -> BOOLEAN]
  /\ dentries \in [Files -> 0..MaxDentries]

\* The non-idempotent create API is called at most once for a submission,
\* whatever crashes, expired leases and lost responses (checkpoint_oa_create,
\* recover_expired_submission_leases, _create_once).
AtMostOneCreate == creates <= 1

\* The row's phase comes before the create call, now or after its next claim.
BeforeCreate(r) ==
  \/ r.status \in {"QUEUED", "VALIDATING", "GENERATING_EXCEL", "UPLOADING"}
  \/ r.resume \in {"VALIDATING", "GENERATING_EXCEL", "UPLOADING"}

AboutToCreate(w) == job[w].at \in {"create", "send"}

\* Why there is no second create: the checkpoint that lets a worker on to the
\* request is never undone and never passed twice, so the phases before it are
\* closed from then on, and at most one worker is between it and the request
\* (checkpoint_oa_create, claim_due_submission, _NORMAL_TRANSITIONS).
CheckpointPassedOnce ==
  /\ BeforeCreate(row) => ~CreateStarted(row)
  /\ ~CreateStarted(row) => creates = 0
  /\ \A w \in Workers : AboutToCreate(w) => CreateStarted(row) /\ creates = 0
  /\ \A v, w \in Workers : AboutToCreate(v) /\ AboutToCreate(w) => v = w

\* Storage commit is not idempotent either: a file never has two live dentries,
\* nor one and a second commit on its way (begin_upload_commit, recovery).
AtMostOneDentry ==
  \A f \in Files : dentries[f] + (IF commitFlight[f] THEN 1 ELSE 0) <= 1

\* An upload that may still go through its first, or another, commit.
FreshStatuses == NoRemoteFile \ {"CLEANED"}

\* Nothing was ever made of file f and no worker is about to send its commit.
Untouched(f) ==
  /\ dentries[f] = 0
  /\ ~commitFlight[f]
  /\ \A w \in Workers : job[w] # [at |-> "commit", file |-> f]

\* Why there is no second dentry: while the uploading phase can still be reached,
\* an upload that may start over has left no trace, and only one worker stands
\* between begin_upload_commit and its request (begin_upload_commit,
\* reset_rejected_upload_commit, recover_expired_submission_leases).
CommitStartedOnce ==
  /\ \A f \in Files :
       BeforeCreate(row) /\ uploads[f] \in FreshStatuses => Untouched(f)
  /\ \A w \in Workers :
       job[w].at = "commit" => dentries[job[w].file] = 0 /\ ~commitFlight[job[w].file]
  /\ \A v, w \in Workers : job[v].at = "commit" /\ job[v] = job[w] => v = w

\* SUBMITTED is only ever reported of an approval that exists, with all its
\* attachments in place, even when an administrator attached a wrong id.
SubmittedIsReal ==
  row.status = "SUBMITTED" =>
    /\ row.instance \in oas
    /\ \A f \in Files : uploads[f] = "LINKED" /\ dentries[f] = 1

\* No submission is worked on for ever: whatever was lost or crashed before,
\* it comes to an outcome or to a person (recover_expired_submission_leases,
\* claim_due_submission, _reschedule_reconciliation).
EndsOrAsks == []<>(row.status \in {"SUBMITTED", "FAILED_FINAL", "MANUAL_REVIEW"})

\* The submission as its owner sees it.
Phase ==
  CASE row.status = "MANUAL_REVIEW" -> "review"
    [] row.status = "SUBMITTED" -> "submitted"
    [] row.status = "FAILED_FINAL" -> "failed"
    [] OTHER -> "working"

Promise == INSTANCE SubmissionPromise WITH
  Approvals <- Instances, Attachments <- Files, Nobody <- None,
  phase <- Phase, asked <- creates, exist <- oas, bound <- row.instance,
  stored <- {f \in Files : dentries[f] > 0}

\* Every step of the workers, people and services is a step of the promise or
\* invisible to the owner.  In particular an approval that exists keeps every
\* attachment, however stale the worker that would recycle it, and a final failure
\* leaves neither approval nor attachment nor a request that could still make one
\* (begin_orphan_cleanup, recycle_attachment, _record_create_failure).
KeepsPromise == Promise!Spec

\* "孤儿附件无法继续自动清理，需要人工核对": whenever the recycle call a worker is making
\* is definitely refused, the database lets it hand the row to an administrator
\* (_run_orphan_cleanup).
RefusedRecycleAsksAdmin ==
  \A w \in Workers :
    job[w].at = "recycle" /\ row.status = "ORPHAN_CLEANUP" =>
      RowAccepts(Unleased([row EXCEPT !.status = "MANUAL_REVIEW", !.resume = "NONE"]))
=============================================================================
