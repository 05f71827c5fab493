-------------------------- MODULE OaSubmissionProofs --------------------------
(***************************************************************************)
(* Theorems about OaSubmission for any number of workers, files and        *)
(* approvals, stalled workers and erring administrators included: types;   *)
(* neither of the two remote calls that are not idempotent, the OA create  *)
(* call and the storage commit of a file, takes effect twice; a submission *)
(* is reported submitted only when its approval exists with all its        *)
(* attachments; and, when no administrator errs, OaSubmission implements   *)
(* SubmissionPromise.                                                      *)
(***************************************************************************)
EXTENDS OaSubmission, TLAPS

USE NumFilesAssumption, NoneAssumption, SwitchAssumption

-----------------------------------------------------------------------------
(* Type correctness *)

WellFormed(r) == r \in Rows /\ (r.status = "FAILED_RETRYABLE" <=> r.resume # "NONE")

\* A fenced row update writes a row and leaves the worker between two files.
LEMMA SaveType ==
  ASSUME TypeOK, NEW w \in Workers, NEW r, WellFormed(r),
         NEW step \in PlainSteps, Save(w, r, step)
  PROVE  WellFormed(row)' /\ job' \in [Workers -> Jobs]
  BY DEF TypeOK, WellFormed, Save, At, Jobs, PlainSteps

LEMMA AtType ==
  ASSUME TypeOK, NEW w \in Workers, NEW step, NEW f,
         [at |-> step, file |-> f] \in Jobs, At(w, step, f)
  PROVE  job' \in [Workers -> Jobs]
  BY DEF TypeOK, At

LEMMA SaveUploadType ==
  ASSUME TypeOK, NEW w \in Workers, NEW f, NEW status, NEW from,
         NEW to \in UploadStatus, SaveUpload(w, f, status, from, to)
  PROVE  uploads' \in [Files -> UploadStatus]
  BY DEF TypeOK, SaveUpload

LEMMA AdvanceType ==
  ASSUME TypeOK, NEW w \in Workers,
         NEW status \in SubmissionStatus \ {"FAILED_RETRYABLE"}, NEW step \in PlainSteps,
         Advance(w, status, step)
  PROVE  WellFormed(row)' /\ job' \in [Workers -> Jobs]
  <1>1. WellFormed([row EXCEPT !.status = status, !.resume = "NONE"])
    BY DEF TypeOK, WellFormed, Rows
  <1> QED
    BY <1>1, SaveType DEF Advance

LEMMA FinishType ==
  ASSUME TypeOK, NEW w \in Workers,
         NEW status \in SubmissionStatus \ {"FAILED_RETRYABLE"}, Finish(w, status)
  PROVE  WellFormed(row)' /\ job' \in [Workers -> Jobs]
  <1>1. WellFormed(Unleased([row EXCEPT !.status = status, !.resume = "NONE"]))
    BY DEF TypeOK, WellFormed, Rows, Unleased
  <1> QED
    BY <1>1, SaveType DEF Finish, PlainSteps

LEMMA RetryType ==
  ASSUME TypeOK, NEW w \in Workers, Retry(w)
  PROVE  WellFormed(row)' /\ job' \in [Workers -> Jobs]
  <1>1. WellFormed(Unleased([row EXCEPT !.status = "FAILED_RETRYABLE", !.resume = row.status]))
    BY DEF TypeOK, WellFormed, Rows, Unleased, Retry, RetryableStatuses, SubmissionStatus
  <1> QED
    BY <1>1, SaveType DEF Retry, PlainSteps

LEMMA PreparingType ==
  ASSUME TypeOK, NEW w \in Workers, Preparing(w)
  PROVE  TypeOK'
  <1>1. CASE StartValidation(w)
    BY <1>1, AdvanceType
       DEF StartValidation, TypeOK, WellFormed, remote, SubmissionStatus, PlainSteps
  <1>2. CASE ValidationPasses(w)
    BY <1>2, AdvanceType
       DEF ValidationPasses, TypeOK, WellFormed, remote, SubmissionStatus, PlainSteps
  <1>3. CASE ValidationRejects(w)
    BY <1>3, FinishType
       DEF ValidationRejects, TypeOK, WellFormed, remote, SubmissionStatus
  <1>4. CASE ValidationUnavailable(w)
    BY <1>4, RetryType DEF ValidationUnavailable, TypeOK, WellFormed, remote
  <1>5. CASE \E f \in Files : RemoveDiscarded(w, f)
    BY <1>5, SaveUploadType DEF RemoveDiscarded, TypeOK, remote, UploadStatus
  <1>6. CASE \E f \in Files : ReserveGenerated(w, f)
    <2>1. PICK f \in Files : ReserveGenerated(w, f)
      BY <1>6
    <2>2. [at |-> "write", file |-> f] \in Jobs
      BY DEF Jobs, FileSteps
    <2> QED
      BY <2>1, <2>2, AtType, SaveUploadType
         DEF ReserveGenerated, TypeOK, remote, UploadStatus
  <1>7. CASE FinalizeGenerated(w)
    <2>1. [at |-> "run", file |-> 0] \in Jobs
      BY DEF Jobs, PlainSteps
    <2> QED
      BY <1>7, <2>1, AtType, SaveUploadType
         DEF FinalizeGenerated, TypeOK, remote, UploadStatus
  <1>8. CASE GenerateFails(w)
    BY <1>8, RetryType DEF GenerateFails, TypeOK, WellFormed, remote, UploadStatus
  <1>9. CASE GenerationPostponed(w)
    BY <1>9, RetryType DEF GenerationPostponed, TypeOK, WellFormed, remote
  <1>10. CASE GenerationDone(w)
    BY <1>10, AdvanceType
       DEF GenerationDone, TypeOK, WellFormed, remote, SubmissionStatus, PlainSteps
  <1>11. CASE PreCreateRefused(w)
    <2>1. PreCreateVerdict \in {"MANUAL_REVIEW", "ORPHAN_CLEANUP", "FAILED_FINAL"}
      BY DEF PreCreateVerdict
    <2> QED
      BY <1>11, <2>1, AdvanceType, FinishType
         DEF PreCreateRefused, TypeOK, WellFormed, remote, SubmissionStatus, PlainSteps
  <1>12. CASE PreCreateUnavailable(w)
    BY <1>12, RetryType DEF PreCreateUnavailable, TypeOK, WellFormed, remote
  <1> QED
    BY <1>1, <1>2, <1>3, <1>4, <1>5, <1>6, <1>7, <1>8, <1>9, <1>10, <1>11, <1>12
       DEF Preparing

LEMMA UploadingType ==
  ASSUME TypeOK, NEW w \in Workers, UploadingFiles(w)
  PROVE  TypeOK'
  <1> DEFINE f == job[w].file
  <1>0. job[w] \in Jobs /\ [at |-> "idle", file |-> 0] \in Jobs
    BY DEF TypeOK, Jobs, PlainSteps
  <1>1. CASE BeginUploads(w)
    <2>1. [at |-> "upload", file |-> 1] \in Jobs
      BY DEF Jobs
    <2> QED
      BY <1>1, <2>1, AtType DEF BeginUploads, TypeOK, local, remote
  <1>2. CASE \E g \in Files : ProbeExact(w, g)
    <2>1. PICK g \in Files : ProbeExact(w, g)
      BY <1>2
    <2>2. [at |-> "upload", file |-> g + 1] \in Jobs
      BY DEF Jobs, Files
    <2> QED
      BY <2>1, <2>2, AtType DEF ProbeExact, TypeOK, local, remote
  <1>3. CASE \E g \in Files : ProbeNotExact(w, g)
    BY <1>3, FinishType DEF ProbeNotExact, TypeOK, WellFormed, remote, SubmissionStatus
  <1>4. CASE \E g \in Files : BeginUploadPut(w, g)
    <2>1. PICK g \in Files : BeginUploadPut(w, g)
      BY <1>4
    <2>2. [at |-> "put", file |-> g] \in Jobs
      BY DEF Jobs, FileSteps
    <2> QED
      BY <2>1, <2>2, AtType, SaveUploadType
         DEF BeginUploadPut, TypeOK, remote, UploadStatus
  <1>5. CASE RecordUploadPutDone(w)
    <2>1. [at |-> "putDone", file |-> f] \in Jobs
      BY <1>0, <1>5 DEF Jobs, PlainSteps, FileSteps, RecordUploadPutDone
    <2> QED
      BY <1>5, <2>1, AtType, SaveUploadType
         DEF RecordUploadPutDone, TypeOK, remote, UploadStatus
  <1>6. CASE BeginUploadCommit(w)
    <2>1. [at |-> "commit", file |-> f] \in Jobs
      BY <1>0, <1>6 DEF Jobs, PlainSteps, FileSteps, BeginUploadCommit
    <2> QED
      BY <1>6, <2>1, AtType, SaveUploadType
         DEF BeginUploadCommit, TypeOK, remote, UploadStatus
  <1>7. CASE SendCommit(w)
    <2>1. [at |-> "commitWait", file |-> f] \in Jobs
      BY <1>0, <1>7 DEF Jobs, PlainSteps, FileSteps, SendCommit
    <2> QED
      BY <1>7, <2>1, AtType DEF SendCommit, TypeOK, local, oaSide
  <1>8. CASE RecordUploadCommitted(w)
    <2>1. [at |-> "upload", file |-> f + 1] \in Jobs
      BY <1>0, <1>8 DEF Jobs, PlainSteps, FileSteps, Files, RecordUploadCommitted
    <2> QED
      BY <1>8, <2>1, AtType, SaveUploadType
         DEF RecordUploadCommitted, TypeOK, remote, UploadStatus
  <1>9. CASE CommitOutcomeUnknown(w)
    <2>1. WellFormed(row)'
      BY <1>9 DEF CommitOutcomeUnknown, TypeOK, WellFormed, Rows, Unleased, SubmissionStatus
    <2> QED
      BY <1>0, <1>9, <2>1, AtType, SaveUploadType
         DEF CommitOutcomeUnknown, TypeOK, WellFormed, remote, UploadStatus
  <1>10. CASE CommitRejected(w)
    <2>1. [at |-> "rejected", file |-> f] \in Jobs
      BY <1>0, <1>10 DEF Jobs, PlainSteps, FileSteps, CommitRejected
    <2> QED
      BY <1>10, <2>1, AtType, SaveUploadType
         DEF CommitRejected, TypeOK, oaSide, UploadStatus
  <1>11. CASE CheckpointOaCreate(w)
    <2>1. WellFormed([row EXCEPT !.status = "OA_CREATING", !.deadline = "open"])
      BY <1>11 DEF CheckpointOaCreate, TypeOK, WellFormed, Rows, SubmissionStatus
    <2> QED
      BY <1>11, <2>1, SaveType
         DEF CheckpointOaCreate, TypeOK, WellFormed, remote, PlainSteps
  <1> QED
    BY <1>1, <1>2, <1>3, <1>4, <1>5, <1>6, <1>7, <1>8, <1>9, <1>10, <1>11
       DEF UploadingFiles

LEMMA CreatingType ==
  ASSUME TypeOK, NEW w \in Workers, Creating(w)
  PROVE  TypeOK'
  <1>1. CASE RenewBeforeCreate(w)
    <2>1. [at |-> "send", file |-> 0] \in Jobs
      BY DEF Jobs, PlainSteps
    <2> QED
      BY <1>1, <2>1, AtType DEF RenewBeforeCreate, TypeOK, local, remote
  <1>2. CASE SendCreate(w)
    <2>1. [at |-> "createWait", file |-> 0] \in Jobs
      BY DEF Jobs, PlainSteps
    <2> QED
      BY <1>2, <2>1, AtType DEF SendCreate, TypeOK, local, fileSide, MaxCreates
  <1>3. CASE RecordCreated(w)
    <2>1. WellFormed([row EXCEPT !.status = "VERIFYING", !.instance = oaBorn])
      BY <1>3 DEF RecordCreated, TypeOK, WellFormed, Rows, SubmissionStatus
    <2> QED
      BY <1>3, <2>1, SaveType DEF RecordCreated, TypeOK, WellFormed, remote, PlainSteps
  <1>4. CASE CreateOutcomeUnknown(w)
    BY <1>4, AdvanceType
       DEF CreateOutcomeUnknown, TypeOK, WellFormed, remote, SubmissionStatus, PlainSteps
  <1>5. CASE ReleaseLease(w)
    <2>1. WellFormed(Unleased(row))
      BY DEF TypeOK, WellFormed, Rows, Unleased
    <2> QED
      BY <1>5, <2>1, SaveType DEF ReleaseLease, TypeOK, WellFormed, remote, PlainSteps
  <1>6. CASE CreateRejected(w)
    BY <1>6, AdvanceType
       DEF CreateRejected, TypeOK, WellFormed, fileSide, SubmissionStatus, PlainSteps
  <1> QED
    BY <1>1, <1>2, <1>3, <1>4, <1>5, <1>6 DEF Creating

LEMMA ResolvingType ==
  ASSUME TypeOK, NEW w \in Workers, Resolving(w)
  PROVE  TypeOK'
  <1>1. CASE \E i \in Instances : ReconcileFinds(w, i)
    <2>1. PICK i \in Instances : ReconcileFinds(w, i)
      BY <1>1
    <2>2. WellFormed([row EXCEPT !.status = "VERIFYING", !.instance = i])
      BY <2>1 DEF ReconcileFinds, Running, TypeOK, WellFormed, Rows, SubmissionStatus
    <2> QED
      BY <2>1, <2>2, SaveType DEF ReconcileFinds, TypeOK, WellFormed, remote, PlainSteps
  <1>2. CASE ReconcileAmbiguous(w)
    BY <1>2, FinishType DEF ReconcileAmbiguous, TypeOK, WellFormed, remote, SubmissionStatus
  <1>3. CASE ReconcileLater(w)
    BY <1>3, FinishType DEF ReconcileLater, TypeOK, WellFormed, remote, SubmissionStatus
  <1>4. CASE ReconcileExpires(w)
    BY <1>4, FinishType DEF ReconcileExpires, TypeOK, WellFormed, remote, SubmissionStatus
  <1>5. CASE VerifyUnavailable(w)
    BY <1>5, RetryType DEF VerifyUnavailable, TypeOK, WellFormed, remote
  <1>6. CASE VerifyMismatch(w)
    BY <1>6, FinishType DEF VerifyMismatch, TypeOK, WellFormed, remote, SubmissionStatus
  <1>7. CASE VerifyMatch(w)
    <2>1. [at |-> "link", file |-> 0] \in Jobs
      BY DEF Jobs, PlainSteps
    <2> QED
      BY <1>7, <2>1, AtType DEF VerifyMatch, TypeOK, local, remote
  <1>8. CASE \E f \in Files : MarkUploadLinked(w, f)
    BY <1>8, SaveUploadType DEF MarkUploadLinked, TypeOK, remote, UploadStatus
  <1>9. CASE MarkSubmitted(w)
    BY <1>9, FinishType DEF MarkSubmitted, TypeOK, WellFormed, remote, SubmissionStatus
  <1> QED
    BY <1>1, <1>2, <1>3, <1>4, <1>5, <1>6, <1>7, <1>8, <1>9 DEF Resolving

LEMMA CleaningUpType ==
  ASSUME TypeOK, NEW w \in Workers, CleaningUp(w)
  PROVE  TypeOK'
  <1> DEFINE f == job[w].file
  <1>0. job[w] \in Jobs
    BY DEF TypeOK
  <1>1. CASE \E g \in Files : BeginUploadCleanup(w, g)
    <2>1. PICK g \in Files : BeginUploadCleanup(w, g)
      BY <1>1
    <2>2. [at |-> "recycle", file |-> g] \in Jobs
      BY DEF Jobs, FileSteps
    <2> QED
      BY <2>1, <2>2, AtType, SaveUploadType
         DEF BeginUploadCleanup, TypeOK, remote, UploadStatus
  <1>2. CASE Recycle(w)
    <2>1. [at |-> "recycled", file |-> f] \in Jobs
      BY <1>0, <1>2 DEF Jobs, PlainSteps, FileSteps, Recycle
    <2>2. job' \in [Workers -> Jobs]
      BY <1>2, <2>1, AtType DEF Recycle
    <2>3. dentries' \in [Files -> 0..MaxDentries]
      <3>1. dentries' = [dentries EXCEPT ![f] = 0]
        BY <1>2 DEF Recycle
      <3>2. 0 \in 0..MaxDentries
        BY DEF MaxDentries
      <3> QED
        BY <3>1, <3>2 DEF TypeOK
    <2> QED
      BY <1>2, <2>2, <2>3 DEF Recycle, TypeOK, local, oaSide
  <1>3. CASE RecordUploadCleaned(w)
    <2>1. [at |-> "run", file |-> 0] \in Jobs
      BY DEF Jobs, PlainSteps
    <2> QED
      BY <1>3, <2>1, AtType, SaveUploadType
         DEF RecordUploadCleaned, TypeOK, remote, UploadStatus
  <1>4. CASE RecycleUnavailable(w)
    BY <1>4, RetryType DEF RecycleUnavailable, TypeOK, WellFormed, remote
  <1>5. CASE RecycleRefused(w)
    BY <1>5, FinishType DEF RecycleRefused, TypeOK, WellFormed, remote, SubmissionStatus
  <1>6. CASE CompleteOrphanCleanup(w)
    BY <1>6, FinishType DEF CompleteOrphanCleanup, TypeOK, WellFormed, remote, SubmissionStatus
  <1> QED
    BY <1>1, <1>2, <1>3, <1>4, <1>5, <1>6 DEF CleaningUp

LEMMA DatabaseType ==
  ASSUME TypeOK, Database
  PROVE  TypeOK'
  <1>1. CASE RecoverLostCommit
    BY <1>1 DEF RecoverLostCommit, TypeOK, Rows, Unleased, SubmissionStatus, UploadStatus, remote
  <1>2. CASE RecoverLostCreate
    BY <1>2 DEF RecoverLostCreate, TypeOK, Rows, Unleased, SubmissionStatus, remote
  <1>3. CASE LeaseExpires
    BY <1>3 DEF LeaseExpires, TypeOK, Rows, remote
  <1>4. CASE DeadlinePasses
    BY <1>4 DEF DeadlinePasses, TypeOK, Rows, remote
  <1>5. CASE \E f \in Files : ReclaimReservation(f)
    BY <1>5 DEF ReclaimReservation, TypeOK, UploadStatus, remote
  <1> QED
    BY <1>1, <1>2, <1>3, <1>4, <1>5 DEF Database

LEMMA PeopleType ==
  ASSUME TypeOK, People
  PROVE  TypeOK'
  <1>1. CASE RequestRecheck
    BY <1>1 DEF RequestRecheck, TypeOK, Rows, SubmissionStatus, remote
  <1>2. CASE \E i \in Instances : AdminAttachesInstance(i)
    BY <1>2 DEF AdminAttachesInstance, TypeOK, Rows, SubmissionStatus, remote
  <1>3. CASE \E f \in Files : AdminDeletesFile(f)
    BY <1>3 DEF AdminDeletesFile, TypeOK, MaxDentries, local, oaSide
  <1>4. CASE AdminConfirmsNotCreated
    BY <1>4 DEF AdminConfirmsNotCreated, TypeOK, Rows, SubmissionStatus, UploadStatus, remote
  <1> QED
    BY <1>1, <1>2, <1>3, <1>4 DEF People

LEMMA DingTalkType ==
  ASSUME TypeOK, DingTalk
  PROVE  TypeOK'
  <1>1. CASE \E i \in Instances : CreateLands(i) \/ EmployeeResubmits(i)
    BY <1>1 DEF CreateLands, EmployeeResubmits, TypeOK, fileSide
  <1>2. CASE CreateIsLost
    BY <1>2 DEF CreateIsLost, TypeOK, fileSide
  <1>3. CASE \E f \in Files : CommitLands(f)
    BY <1>3 DEF CommitLands, TypeOK, oaSide, MaxDentries
  <1>4. CASE \E f \in Files : CommitIsLost(f)
    BY <1>4 DEF CommitIsLost, TypeOK, oaSide
  <1> QED
    BY <1>1, <1>2, <1>3, <1>4 DEF DingTalk

LEMMA WorkerType ==
  ASSUME TypeOK, NEW w \in Workers, WorkerStep(w)
  PROVE  TypeOK'
  <1>0. /\ [at |-> "idle", file |-> 0] \in Jobs
        /\ [at |-> "run", file |-> 0] \in Jobs
    BY DEF Jobs, PlainSteps
  <1>1. CASE Claim(w)
    <2>1. WellFormed(row)'
      BY <1>1
         DEF Claim, TypeOK, WellFormed, Rows, EffectiveStatus, ClaimableStatuses,
             RetryableStatuses, SubmissionStatus
    <2> QED
      BY <1>0, <1>1, <2>1, AtType DEF Claim, TypeOK, WellFormed, remote
  <1>2. CASE Crash(w)
    BY <1>0, <1>2, AtType DEF Crash, TypeOK, local, remote
  <1>3. CASE Conflict(w)
    BY <1>0, <1>3, AtType DEF Conflict, TypeOK, local, remote
  <1> QED
    BY <1>1, <1>2, <1>3, PreparingType, UploadingType, CreatingType, ResolvingType,
       CleaningUpType DEF WorkerStep

\* Every variable stays in its domain, and a resume status accompanies exactly
\* the retryable rows, for any number of workers, files and approvals.
THEOREM TypeCorrect == Spec => []TypeOK
  <1>1. Init => TypeOK
    <2> SUFFICES ASSUME Init PROVE TypeOK
      OBVIOUS
    <2>1. WellFormed(row)
      BY DEF Init, WellFormed, Rows, SubmissionStatus
    <2>2. job \in [Workers -> Jobs]
      BY DEF Init, Jobs, PlainSteps
    <2>3. uploads \in [Files -> UploadStatus] /\ dentries \in [Files -> 0..MaxDentries]
      BY DEF Init, UploadStatus, MaxDentries
    <2>4. commitFlight \in [Files -> BOOLEAN]
      BY DEF Init
    <2>5. creates = 0 /\ oaFlight = FALSE /\ oaBorn = None /\ oas = {}
      BY Zenon DEF Init
    <2>6. creates \in 0..MaxCreates
      BY <2>5 DEF MaxCreates
    <2>7. oaFlight \in BOOLEAN /\ oaBorn \in Instances \cup {None} /\ oas \in SUBSET Instances
      BY <2>5
    <2> QED
      BY <2>1, <2>2, <2>3, <2>4, <2>6, <2>7 DEF TypeOK, WellFormed
  <1>2. TypeOK /\ [Next]_vars => TypeOK'
    <2> SUFFICES ASSUME TypeOK, [Next]_vars PROVE TypeOK'
      OBVIOUS
    <2>1. CASE UNCHANGED vars
      BY <2>1 DEF vars, TypeOK
    <2>2. CASE Done
      BY <2>2 DEF Done, vars, TypeOK
    <2> QED
      BY <2>1, <2>2, WorkerType, DatabaseType, PeopleType, DingTalkType DEF Next
  <1> QED
    BY <1>1, <1>2, PTL DEF Spec

-----------------------------------------------------------------------------
(* What a step keeps: the phase only moves towards the create call, the     *)
(* checkpoint stays, nobody comes to stand before one of the two calls      *)
(* except by the steps that lead there, and an upload does not become fresh *)
(* again.                                                                   *)

Forward(r) ==
  /\ BeforeCreate(r) => BeforeCreate(row)
  /\ CreateStarted(row) => CreateStarted(r)
  /\ BeforeCreate(r) /\ CreateStarted(r) => CreateStarted(row)

Calm ==
  \A v \in Workers : job'[v].at \in {"create", "send", "commit"} => job'[v] = job[v]

FreshForward ==
  \A f \in Files : BeforeCreate(row') /\ uploads'[f] \in FreshStatuses
                     => uploads[f] \in FreshStatuses

Frame == Forward(row') /\ Calm /\ FreshForward

LoudSteps == {"create", "send", "commit"}

LEMMA AtCalm ==
  ASSUME TypeOK, NEW w \in Workers, NEW step, step \notin LoudSteps, NEW f, At(w, step, f)
  PROVE  Calm
  BY DEF TypeOK, At, Calm, LoudSteps

LEMMA StayForward == ASSUME row' = row PROVE Forward(row')
  BY DEF Forward

LEMMA StayFresh == ASSUME uploads' = uploads PROVE FreshForward
  BY DEF FreshForward

LEMMA SaveForward ==
  ASSUME TypeOK, NEW w \in Workers, NEW r, Forward(r), NEW step, step \notin LoudSteps,
         Save(w, r, step)
  PROVE  Forward(row') /\ Calm
  BY AtCalm DEF Save, Forward, LoudSteps

EarlyStatuses == {"QUEUED", "VALIDATING", "GENERATING_EXCEL", "UPLOADING"}

LEMMA AdvanceForward ==
  ASSUME TypeOK, NEW w \in Workers, NEW status, NEW step, step \notin LoudSteps,
         Advance(w, status, step), BeforeCreate(row) \/ status \notin EarlyStatuses
  PROVE  Forward(row') /\ Calm
  <1>1. Forward([row EXCEPT !.status = status, !.resume = "NONE"])
    BY DEF Forward, BeforeCreate, CreateStarted, TypeOK, Rows, EarlyStatuses
  <1> QED
    BY <1>1, SaveForward DEF Advance

LEMMA FinishForward ==
  ASSUME TypeOK, NEW w \in Workers, NEW status, status \notin EarlyStatuses, Finish(w, status)
  PROVE  Forward(row') /\ Calm
  <1>1. Forward(Unleased([row EXCEPT !.status = status, !.resume = "NONE"]))
    BY DEF Forward, BeforeCreate, CreateStarted, Unleased, TypeOK, Rows, EarlyStatuses
  <1> QED
    BY <1>1, SaveForward DEF Finish, LoudSteps

LEMMA RetryForward ==
  ASSUME TypeOK, NEW w \in Workers, Retry(w)
  PROVE  Forward(row') /\ Calm
  <1>1. Forward(Unleased([row EXCEPT !.status = "FAILED_RETRYABLE", !.resume = row.status]))
    BY DEF Forward, BeforeCreate, CreateStarted, Unleased, TypeOK, Rows
  <1> QED
    BY <1>1, SaveForward DEF Retry, LoudSteps

LEMMA SaveUploadFresh ==
  ASSUME TypeOK, NEW w \in Workers, NEW f \in Files, NEW status, NEW from, NEW to,
         SaveUpload(w, f, status, from, to),
         from \subseteq FreshStatuses \/ to \notin FreshStatuses
  PROVE  FreshForward
  BY DEF TypeOK, SaveUpload, FreshForward

LEMMA PreparingFrame ==
  ASSUME TypeOK, NEW w \in Workers, Preparing(w)
  PROVE  Frame
  <1> USE DEF Frame, LoudSteps
  <1>0. job[w] \in Jobs
    BY DEF TypeOK
  <1>1. CASE StartValidation(w)
    BY <1>1, AdvanceForward, StayFresh DEF StartValidation, Running, BeforeCreate
  <1>2. CASE ValidationPasses(w)
    BY <1>2, AdvanceForward, StayFresh DEF ValidationPasses, Running, BeforeCreate
  <1>3. CASE ValidationRejects(w)
    BY <1>3, FinishForward, StayFresh DEF ValidationRejects, EarlyStatuses
  <1>4. CASE ValidationUnavailable(w)
    BY <1>4, RetryForward, StayFresh DEF ValidationUnavailable
  <1>5. CASE \E f \in Files : RemoveDiscarded(w, f)
    <2>1. Calm
      BY <1>5 DEF RemoveDiscarded, Calm
    <2> QED
      BY <1>5, <2>1, StayForward, SaveUploadFresh DEF RemoveDiscarded, FreshStatuses, NoRemoteFile
  <1>6. CASE \E f \in Files : ReserveGenerated(w, f)
    BY <1>6, AtCalm, StayForward, SaveUploadFresh
       DEF ReserveGenerated, FreshStatuses, NoRemoteFile
  <1>7. CASE FinalizeGenerated(w)
    <2>1. job[w].file \in Files
      BY <1>0, <1>7 DEF FinalizeGenerated, Jobs, PlainSteps, FileSteps
    <2> QED
      BY <1>7, <2>1, AtCalm, StayForward, SaveUploadFresh
         DEF FinalizeGenerated, FreshStatuses, NoRemoteFile
  <1>8. CASE GenerateFails(w)
    <2>1. FreshForward
      BY <1>8 DEF GenerateFails, FreshForward, FreshStatuses, NoRemoteFile, TypeOK
    <2> QED
      BY <1>8, <2>1, RetryForward DEF GenerateFails
  <1>9. CASE GenerationPostponed(w)
    BY <1>9, RetryForward, StayFresh DEF GenerationPostponed
  <1>10. CASE GenerationDone(w)
    BY <1>10, AdvanceForward, StayFresh DEF GenerationDone, Running, BeforeCreate
  <1>11. CASE PreCreateRefused(w)
    <2>1. PreCreateVerdict \in {"MANUAL_REVIEW", "ORPHAN_CLEANUP", "FAILED_FINAL"}
      BY DEF PreCreateVerdict
    <2> QED
      BY <1>11, <2>1, AdvanceForward, FinishForward, StayFresh
         DEF PreCreateRefused, EarlyStatuses
  <1>12. CASE PreCreateUnavailable(w)
    BY <1>12, RetryForward, StayFresh DEF PreCreateUnavailable
  <1> QED
    BY <1>1, <1>2, <1>3, <1>4, <1>5, <1>6, <1>7, <1>8, <1>9, <1>10, <1>11, <1>12
       DEF Preparing

LEMMA ResolvingFrame ==
  ASSUME TypeOK, NEW w \in Workers, Resolving(w)
  PROVE  Frame
  <1> USE DEF Frame, LoudSteps
  <1>1. CASE \E i \in Instances : ReconcileFinds(w, i)
    <2>1. PICK i \in Instances : ReconcileFinds(w, i)
      BY <1>1
    <2>2. Forward([row EXCEPT !.status = "VERIFYING", !.instance = i])
      BY DEF Forward, BeforeCreate, CreateStarted, TypeOK, Rows
    <2> QED
      BY <2>1, <2>2, SaveForward, StayFresh DEF ReconcileFinds
  <1>2. CASE ReconcileAmbiguous(w)
    BY <1>2, FinishForward, StayFresh DEF ReconcileAmbiguous, EarlyStatuses
  <1>3. CASE ReconcileLater(w)
    BY <1>3, FinishForward, StayFresh DEF ReconcileLater, EarlyStatuses
  <1>4. CASE ReconcileExpires(w)
    BY <1>4, FinishForward, StayFresh DEF ReconcileExpires, EarlyStatuses
  <1>5. CASE VerifyUnavailable(w)
    BY <1>5, RetryForward, StayFresh DEF VerifyUnavailable
  <1>6. CASE VerifyMismatch(w)
    BY <1>6, FinishForward, StayFresh DEF VerifyMismatch, EarlyStatuses
  <1>7. CASE VerifyMatch(w)
    BY <1>7, AtCalm, StayForward, StayFresh DEF VerifyMatch, local
  <1>8. CASE \E f \in Files : MarkUploadLinked(w, f)
    <2>1. Calm
      BY <1>8 DEF MarkUploadLinked, Calm
    <2> QED
      BY <1>8, <2>1, StayForward, SaveUploadFresh DEF MarkUploadLinked, FreshStatuses, NoRemoteFile
  <1>9. CASE MarkSubmitted(w)
    BY <1>9, FinishForward, StayFresh DEF MarkSubmitted, EarlyStatuses
  <1> QED
    BY <1>1, <1>2, <1>3, <1>4, <1>5, <1>6, <1>7, <1>8, <1>9 DEF Resolving

LEMMA CleaningUpFrame ==
  ASSUME TypeOK, NEW w \in Workers, CleaningUp(w)
  PROVE  Frame
  <1> USE DEF Frame, LoudSteps
  <1>0. job[w] \in Jobs
    BY DEF TypeOK
  <1>1. CASE \E g \in Files : BeginUploadCleanup(w, g)
    BY <1>1, AtCalm, StayForward, SaveUploadFresh
       DEF BeginUploadCleanup, FreshStatuses, NoRemoteFile
  <1>2. CASE Recycle(w)
    BY <1>2, AtCalm, StayForward, StayFresh DEF Recycle, local
  <1>3. CASE RecordUploadCleaned(w)
    <2>1. job[w].file \in Files
      BY <1>0, <1>3 DEF RecordUploadCleaned, Jobs, PlainSteps, FileSteps
    <2> QED
      BY <1>3, <2>1, AtCalm, StayForward, SaveUploadFresh
         DEF RecordUploadCleaned, FreshStatuses, NoRemoteFile
  <1>4. CASE RecycleUnavailable(w)
    BY <1>4, RetryForward, StayFresh DEF RecycleUnavailable
  <1>5. CASE RecycleRefused(w)
    BY <1>5, FinishForward, StayFresh DEF RecycleRefused, EarlyStatuses
  <1>6. CASE CompleteOrphanCleanup(w)
    BY <1>6, FinishForward, StayFresh DEF CompleteOrphanCleanup, EarlyStatuses
  <1> QED
    BY <1>1, <1>2, <1>3, <1>4, <1>5, <1>6 DEF CleaningUp
LEMMA UploadingFrame ==
  ASSUME TypeOK, NEW w \in Workers, UploadingFiles(w)
  PROVE  \/ Frame
         \/ BeginUploadCommit(w) \/ CommitRejected(w) \/ CheckpointOaCreate(w)
  <1> USE DEF Frame, LoudSteps
  <1>0. job[w] \in Jobs
    BY DEF TypeOK
  <1>1. CASE BeginUploads(w)
    BY <1>1, AtCalm, StayForward, StayFresh DEF BeginUploads, local
  <1>2. CASE \E g \in Files : ProbeExact(w, g)
    BY <1>2, AtCalm, StayForward, StayFresh DEF ProbeExact, local
  <1>3. CASE \E g \in Files : ProbeNotExact(w, g)
    BY <1>3, FinishForward, StayFresh DEF ProbeNotExact, EarlyStatuses
  <1>4. CASE \E g \in Files : BeginUploadPut(w, g)
    BY <1>4, AtCalm, StayForward, SaveUploadFresh
       DEF BeginUploadPut, FreshStatuses, NoRemoteFile
  <1>5. CASE RecordUploadPutDone(w)
    <2>1. job[w].file \in Files
      BY <1>0, <1>5 DEF RecordUploadPutDone, Jobs, PlainSteps, FileSteps
    <2> QED
      BY <1>5, <2>1, AtCalm, StayForward, SaveUploadFresh
         DEF RecordUploadPutDone, FreshStatuses, NoRemoteFile
  <1>6. CASE SendCommit(w)
    BY <1>6, AtCalm, StayForward, StayFresh DEF SendCommit, local
  <1>7. CASE RecordUploadCommitted(w)
    <2>1. job[w].file \in Files
      BY <1>0, <1>7 DEF RecordUploadCommitted, Jobs, PlainSteps, FileSteps
    <2> QED
      BY <1>7, <2>1, AtCalm, StayForward, SaveUploadFresh
         DEF RecordUploadCommitted, FreshStatuses, NoRemoteFile
  <1>8. CASE CommitOutcomeUnknown(w)
    <2>1. job[w].file \in Files
      BY <1>0, <1>8 DEF CommitOutcomeUnknown, Jobs, PlainSteps, FileSteps
    <2>2. Forward(row')
      BY <1>8 DEF CommitOutcomeUnknown, Forward, BeforeCreate, CreateStarted, Unleased, TypeOK, Rows
    <2> QED
      BY <1>8, <2>1, <2>2, AtCalm, SaveUploadFresh
         DEF CommitOutcomeUnknown, FreshStatuses, NoRemoteFile
  <1> QED
    BY <1>1, <1>2, <1>3, <1>4, <1>5, <1>6, <1>7, <1>8 DEF UploadingFiles

LEMMA CreatingFrame ==
  ASSUME TypeOK, NEW w \in Workers, Creating(w)
  PROVE  Frame \/ RenewBeforeCreate(w)
  <1> USE DEF Frame, LoudSteps
  <1>1. CASE SendCreate(w)
    BY <1>1, AtCalm, StayForward, StayFresh DEF SendCreate, local
  <1>2. CASE RecordCreated(w)
    <2>1. Forward([row EXCEPT !.status = "VERIFYING", !.instance = oaBorn])
      BY DEF Forward, BeforeCreate, CreateStarted, TypeOK, Rows
    <2> QED
      BY <1>2, <2>1, SaveForward, StayFresh DEF RecordCreated
  <1>3. CASE CreateOutcomeUnknown(w)
    BY <1>3, AdvanceForward, StayFresh DEF CreateOutcomeUnknown, EarlyStatuses
  <1>4. CASE ReleaseLease(w)
    <2>1. Forward(Unleased(row))
      BY DEF Forward, BeforeCreate, CreateStarted, Unleased, TypeOK, Rows
    <2> QED
      BY <1>4, <2>1, SaveForward, StayFresh DEF ReleaseLease
  <1>5. CASE CreateRejected(w)
    BY <1>5, AdvanceForward, StayFresh DEF CreateRejected, EarlyStatuses
  <1> QED
    BY <1>1, <1>2, <1>3, <1>4, <1>5 DEF Creating

LEMMA ClaimFrame ==
  ASSUME TypeOK, NEW w \in Workers, Claim(w)
  PROVE  Frame
  <1>1. /\ row'.status = EffectiveStatus
        /\ row'.resume = "NONE"
        /\ row'.deadline = row.deadline
    BY DEF Claim, TypeOK, Rows
  <1>2. Forward(row')
    <2>1. EffectiveStatus \in {row.status, row.resume}
      BY DEF EffectiveStatus
    <2>2. CreateStarted(row') <=> CreateStarted(row)
      BY <1>1 DEF CreateStarted
    <2>3. BeforeCreate(row') => BeforeCreate(row)
      <3>1. CASE row'.status = row.status
        BY <1>1, <3>1 DEF BeforeCreate
      <3>2. CASE row'.status = row.resume
        BY <1>1, <3>2 DEF BeforeCreate, TypeOK, Rows, RetryableStatuses
      <3> QED
        BY <1>1, <2>1, <3>1, <3>2
    <2> QED
      BY <2>2, <2>3 DEF Forward
  <1> QED
    BY <1>2, AtCalm, StayFresh DEF Claim, Frame, LoudSteps

LEMMA StopFrame ==
  ASSUME TypeOK, NEW w \in Workers, Crash(w) \/ Conflict(w)
  PROVE  Frame
  BY AtCalm, StayForward, StayFresh DEF Crash, Conflict, local, Frame, LoudSteps

LEMMA DatabaseFrame ==
  ASSUME TypeOK, Database
  PROVE  Frame
  <1> USE DEF Frame
  <1>0. CASE job' = job
    <2>0. Calm
      BY <1>0 DEF Calm
    <2>1. CASE RecoverLostCommit
      <3>1. Forward(row')
        BY <2>1 DEF RecoverLostCommit, Forward, BeforeCreate, CreateStarted, Unleased, TypeOK, Rows
      <3>2. FreshForward
        BY <2>1 DEF RecoverLostCommit, FreshForward, FreshStatuses, NoRemoteFile, TypeOK
      <3> QED
        BY <2>0, <3>1, <3>2
    <2>2. CASE RecoverLostCreate
      <3>1. Forward(row')
        BY <2>2 DEF RecoverLostCreate, Forward, BeforeCreate, CreateStarted, Unleased, TypeOK, Rows
      <3> QED
        BY <2>0, <2>2, <3>1, StayFresh DEF RecoverLostCreate
    <2>3. CASE LeaseExpires
      <3>1. Forward(row')
        BY <2>3 DEF LeaseExpires, Forward, BeforeCreate, CreateStarted, TypeOK, Rows
      <3> QED
        BY <2>0, <2>3, <3>1, StayFresh DEF LeaseExpires
    <2>4. CASE DeadlinePasses
      <3>1. Forward(row')
        BY <2>4 DEF DeadlinePasses, Forward, BeforeCreate, CreateStarted, TypeOK, Rows
      <3> QED
        BY <2>0, <2>4, <3>1, StayFresh DEF DeadlinePasses
    <2>5. CASE \E f \in Files : ReclaimReservation(f)
      <3>1. FreshForward
        BY <2>5 DEF ReclaimReservation, FreshForward, FreshStatuses, NoRemoteFile, TypeOK
      <3> QED
        BY <2>0, <2>5, <3>1, StayForward DEF ReclaimReservation
    <2> QED
      BY <2>1, <2>2, <2>3, <2>4, <2>5 DEF Database
  <1> QED
    BY <1>0 DEF Database, RecoverLostCommit, RecoverLostCreate, LeaseExpires, DeadlinePasses,
                ReclaimReservation

LEMMA PeopleFrame ==
  ASSUME TypeOK, People
  PROVE  Frame
  <1> USE DEF Frame
  <1>0. job' = job
    BY DEF People, RequestRecheck, AdminAttachesInstance, AdminDeletesFile, AdminConfirmsNotCreated
  <1>1. Calm
    BY <1>0 DEF Calm
  <1>2. CASE RequestRecheck
    <2>1. Forward(row')
      BY <1>2 DEF RequestRecheck, Forward, BeforeCreate, CreateStarted, TypeOK, Rows
    <2> QED
      BY <1>1, <1>2, <2>1, StayFresh DEF RequestRecheck
  <1>3. CASE \E i \in Instances : AdminAttachesInstance(i)
    <2>1. Forward(row')
      BY <1>3 DEF AdminAttachesInstance, Forward, BeforeCreate, CreateStarted, TypeOK, Rows
    <2> QED
      BY <1>1, <1>3, <2>1, StayFresh DEF AdminAttachesInstance
  <1>4. CASE \E f \in Files : AdminDeletesFile(f)
    BY <1>1, <1>4, StayForward, StayFresh DEF AdminDeletesFile, local
  <1>5. CASE AdminConfirmsNotCreated
    <2>1. Forward(row') /\ ~BeforeCreate(row')
      BY <1>5 DEF AdminConfirmsNotCreated, Forward, BeforeCreate, CreateStarted, TypeOK, Rows
    <2> QED
      BY <1>1, <2>1 DEF FreshForward
  <1> QED
    BY <1>2, <1>3, <1>4, <1>5 DEF People

LEMMA DingTalkFrame ==
  ASSUME TypeOK, DingTalk
  PROVE  Frame
  <1>1. row' = row /\ uploads' = uploads /\ job' = job
    BY DEF DingTalk, CreateLands, EmployeeResubmits, CreateIsLost, CommitLands, CommitIsLost
  <1>2. Calm
    BY <1>1 DEF Calm
  <1> QED
    BY <1>1, <1>2, StayForward, StayFresh DEF Frame

-----------------------------------------------------------------------------
(* The create call *)

LEMMA FrameKeepsCheckpoint ==
  ASSUME CheckpointPassedOnce, Forward(row'), Calm, creates' = creates
  PROVE  CheckpointPassedOnce'
  BY DEF CheckpointPassedOnce, Forward, Calm, AboutToCreate

LEMMA CreatesFrame ==
  ASSUME [Next]_vars
  PROVE  creates' = creates \/ \E w \in Workers : SendCreate(w)
  <1>1. ASSUME NEW w \in Workers, WorkerStep(w)
        PROVE  creates' = creates \/ SendCreate(w)
    <2>1. CASE Claim(w) \/ Crash(w) \/ Conflict(w)
      BY <2>1 DEF Claim, Crash, Conflict, remote
    <2>2. CASE Preparing(w)
      BY <2>2 DEF Preparing, StartValidation, ValidationPasses, ValidationRejects,
           ValidationUnavailable, RemoveDiscarded, ReserveGenerated, FinalizeGenerated,
           GenerateFails, GenerationPostponed, GenerationDone, PreCreateRefused,
           PreCreateUnavailable, remote
    <2>3. CASE UploadingFiles(w)
      BY <2>3 DEF UploadingFiles, BeginUploads, ProbeExact, ProbeNotExact, BeginUploadPut,
           RecordUploadPutDone, BeginUploadCommit, SendCommit, RecordUploadCommitted,
           CommitOutcomeUnknown, CommitRejected, CheckpointOaCreate, remote, oaSide
    <2>4. CASE Creating(w)
      BY <2>4 DEF Creating, RenewBeforeCreate, RecordCreated, CreateOutcomeUnknown,
           ReleaseLease, CreateRejected, remote
    <2>5. CASE Resolving(w)
      BY <2>5 DEF Resolving, ReconcileFinds, ReconcileAmbiguous, ReconcileLater,
           ReconcileExpires, VerifyUnavailable, VerifyMismatch, VerifyMatch,
           MarkUploadLinked, MarkSubmitted, remote
    <2>6. CASE CleaningUp(w)
      BY <2>6 DEF CleaningUp, BeginUploadCleanup, Recycle, RecordUploadCleaned,
           RecycleUnavailable, RecycleRefused, CompleteOrphanCleanup, remote, oaSide
    <2> QED
      BY <1>1, <2>1, <2>2, <2>3, <2>4, <2>5, <2>6 DEF WorkerStep
  <1>2. Database => creates' = creates
    BY DEF Database, RecoverLostCommit, RecoverLostCreate, LeaseExpires, DeadlinePasses,
           ReclaimReservation, remote
  <1>3. People => creates' = creates
    BY DEF People, RequestRecheck, AdminAttachesInstance, AdminDeletesFile,
           AdminConfirmsNotCreated, remote, oaSide
  <1>4. DingTalk => creates' = creates
    BY DEF DingTalk, CreateLands, EmployeeResubmits, CreateIsLost, CommitLands, CommitIsLost, oaSide
  <1>5. Done \/ UNCHANGED vars => creates' = creates
    BY DEF Done, vars
  <1> QED
    BY <1>1, <1>2, <1>3, <1>4, <1>5 DEF Next

\* Every step is a frame step or one of the four that are not.
LEMMA StepFrame ==
  ASSUME TypeOK, [Next]_vars
  PROVE  \/ Frame
         \/ \E w \in Workers : \/ BeginUploadCommit(w) \/ CommitRejected(w)
                               \/ CheckpointOaCreate(w) \/ RenewBeforeCreate(w)
  <1>1. UNCHANGED vars \/ Done => Frame
    BY StayForward, StayFresh DEF Done, vars, Frame, Calm
  <1> QED
    BY <1>1, ClaimFrame, StopFrame, PreparingFrame, UploadingFrame, CreatingFrame,
       ResolvingFrame, CleaningUpFrame, DatabaseFrame, PeopleFrame, DingTalkFrame
       DEF Next, WorkerStep

LEMMA CheckpointStep ==
  ASSUME TypeOK, CheckpointPassedOnce, [Next]_vars
  PROVE  CheckpointPassedOnce'
  <1>1. ASSUME NEW w \in Workers, SendCreate(w)
        PROVE  CheckpointPassedOnce'
    <2>1. Calm
      BY <1>1, AtCalm DEF SendCreate, LoudSteps
    <2>2. row' = row /\ creates' = creates + 1 /\ AboutToCreate(w) /\ ~AboutToCreate(w)'
      BY <1>1 DEF SendCreate, AboutToCreate, At, local, TypeOK
    <2>3. \A v \in Workers : ~AboutToCreate(v)'
      BY <2>1, <2>2 DEF Calm, AboutToCreate, CheckpointPassedOnce
    <2> QED
      BY <2>2, <2>3 DEF CheckpointPassedOnce
  <1>2. ASSUME NEW w \in Workers, CheckpointOaCreate(w)
        PROVE  CheckpointPassedOnce'
    <2>1. BeforeCreate(row)
      BY <1>2 DEF CheckpointOaCreate, BeforeCreate
    <2>2. ~CreateStarted(row) /\ creates = 0 /\ \A v \in Workers : ~AboutToCreate(v)
      BY <2>1 DEF CheckpointPassedOnce
    <2>3. creates' = creates
      BY <1>2 DEF CheckpointOaCreate, remote
    <2>4. CASE row' = row /\ At(w, "idle", 0)
      BY <2>2, <2>3, <2>4 DEF CheckpointPassedOnce, At, AboutToCreate, TypeOK
    <2>5. CASE row' = [row EXCEPT !.status = "OA_CREATING", !.deadline = "open"] /\ At(w, "create", 0)
      <3>1. CreateStarted(row') /\ ~BeforeCreate(row')
        BY <1>2, <2>5 DEF CheckpointOaCreate, CreateStarted, BeforeCreate, TypeOK, Rows
      <3>2. \A v \in Workers : AboutToCreate(v)' => v = w
        BY <2>2, <2>5 DEF At, AboutToCreate, TypeOK
      <3> QED
        BY <2>2, <2>3, <3>1, <3>2 DEF CheckpointPassedOnce
    <2> QED
      BY <1>2, <2>4, <2>5 DEF CheckpointOaCreate, Save
  <1>3. ASSUME NEW w \in Workers, RenewBeforeCreate(w)
        PROVE  CheckpointPassedOnce'
    <2>1. \A v \in Workers : AboutToCreate(v)' => AboutToCreate(v)
      BY <1>3 DEF RenewBeforeCreate, At, AboutToCreate, TypeOK
    <2>2. row' = row /\ creates' = creates
      BY <1>3 DEF RenewBeforeCreate, local, remote
    <2> QED
      BY <2>1, <2>2 DEF CheckpointPassedOnce
  <1>4. ASSUME NEW w \in Workers, BeginUploadCommit(w) \/ CommitRejected(w)
        PROVE  CheckpointPassedOnce'
    <2>1. \A v \in Workers : AboutToCreate(v)' => AboutToCreate(v)
      BY <1>4 DEF BeginUploadCommit, CommitRejected, At, AboutToCreate, TypeOK
    <2>2. row' = row /\ creates' = creates
      BY <1>4 DEF BeginUploadCommit, CommitRejected, remote, oaSide
    <2> QED
      BY <2>1, <2>2 DEF CheckpointPassedOnce
  <1> QED
    BY <1>1, <1>2, <1>3, <1>4, StepFrame, CreatesFrame, FrameKeepsCheckpoint DEF Frame

\* checkpoint_oa_create is passed at most once, by at most one worker, and closes
\* the phases before it: the reason why _create_once cannot run twice.
THEOREM CheckpointOnce == Spec => []CheckpointPassedOnce
  <1>1. Init => CheckpointPassedOnce
    BY DEF Init, CheckpointPassedOnce, CreateStarted, AboutToCreate
  <1> QED
    BY <1>1, CheckpointStep, TypeCorrect, PTL DEF Spec

\* However many workers crash, stall or race, at most one create request for the
\* submission ever leaves the system.
THEOREM CreatedOnce == Spec => []AtMostOneCreate
  <1>1. Init => AtMostOneCreate
    BY DEF Init, AtMostOneCreate
  <1>2. ASSUME AtMostOneCreate, CheckpointPassedOnce, [Next]_vars
        PROVE  AtMostOneCreate'
    <2>1. ASSUME NEW w \in Workers, SendCreate(w)
          PROVE  creates' = 1
      BY <1>2, <2>1 DEF SendCreate, CheckpointPassedOnce, AboutToCreate
    <2> QED
      BY <1>2, <2>1, CreatesFrame DEF AtMostOneCreate
  <1> QED
    BY <1>1, <1>2, CheckpointOnce, PTL DEF Spec

-----------------------------------------------------------------------------
(* The storage commit *)

\* No new dentry and no new commit request.
Shrink ==
  \A f \in Files : /\ dentries'[f] \in {0, dentries[f]}
                   /\ commitFlight'[f] => commitFlight[f]

CommitInv == TypeOK /\ CommitStartedOnce /\ AtMostOneDentry

LEMMA FrameKeepsCommit ==
  ASSUME CommitInv, Frame, Shrink
  PROVE  CommitStartedOnce' /\ AtMostOneDentry'
  <1>1. \A v \in Workers : job'[v].at = "commit" =>
           job'[v] = job[v] /\ job[v].at = "commit" /\ job[v].file \in Files
    BY DEF CommitInv, Frame, Calm, TypeOK, Jobs, PlainSteps, FileSteps
  <1>2. ASSUME NEW f \in Files, BeforeCreate(row'), uploads'[f] \in FreshStatuses
        PROVE  Untouched(f)'
    <2>1. Untouched(f)
      BY <1>2 DEF CommitInv, CommitStartedOnce, Frame, Forward, FreshForward
    <2> QED
      BY <1>1, <2>1 DEF Untouched, Shrink
  <1>3. \A v \in Workers : job'[v].at = "commit" =>
           dentries'[job'[v].file] = 0 /\ ~commitFlight'[job'[v].file]
    BY <1>1 DEF CommitInv, CommitStartedOnce, Shrink
  <1>4. \A u, v \in Workers : job'[u].at = "commit" /\ job'[u] = job'[v] => u = v
    BY <1>1 DEF CommitInv, CommitStartedOnce
  <1>5. AtMostOneDentry'
    <2> SUFFICES ASSUME NEW f \in Files
                 PROVE  (dentries[f] + (IF commitFlight[f] THEN 1 ELSE 0) <= 1)'
      BY DEF AtMostOneDentry
    <2>1. dentries[f] \in 0..2 /\ dentries[f] + (IF commitFlight[f] THEN 1 ELSE 0) <= 1
      BY DEF CommitInv, AtMostOneDentry, TypeOK, MaxDentries
    <2>2. dentries'[f] \in {0, dentries[f]} /\ (commitFlight'[f] => commitFlight[f])
      BY DEF Shrink
    <2> QED
      BY <2>1, <2>2
  <1> QED
    BY <1>2, <1>3, <1>4, <1>5 DEF CommitStartedOnce

LEMMA StayShrink ==
  ASSUME dentries' = dentries, commitFlight' = commitFlight
  PROVE  Shrink
  BY DEF Shrink

LEMMA FileSideFrame ==
  ASSUME TypeOK, [Next]_vars
  PROVE  \/ Shrink
         \/ \E w \in Workers : SendCommit(w)
         \/ \E f \in Files : CommitLands(f)
  <1>1. ASSUME NEW w \in Workers, WorkerStep(w)
        PROVE  Shrink \/ SendCommit(w)
    <2>1. CASE Claim(w) \/ Crash(w) \/ Conflict(w)
      BY <2>1, StayShrink DEF Claim, Crash, Conflict, remote
    <2>2. CASE Preparing(w)
      BY <2>2, StayShrink DEF Preparing, StartValidation, ValidationPasses, ValidationRejects,
           ValidationUnavailable, RemoveDiscarded, ReserveGenerated, FinalizeGenerated,
           GenerateFails, GenerationPostponed, GenerationDone, PreCreateRefused,
           PreCreateUnavailable, remote
    <2>3. CASE CommitRejected(w)
      BY <2>3 DEF CommitRejected, Shrink, TypeOK
    <2>4. CASE UploadingFiles(w) /\ ~CommitRejected(w)
      BY <2>4, StayShrink DEF UploadingFiles, BeginUploads, ProbeExact, ProbeNotExact,
           BeginUploadPut, RecordUploadPutDone, BeginUploadCommit, RecordUploadCommitted,
           CommitOutcomeUnknown, CheckpointOaCreate, remote
    <2>5. CASE Creating(w)
      BY <2>5, StayShrink DEF Creating, RenewBeforeCreate, SendCreate, RecordCreated,
           CreateOutcomeUnknown, ReleaseLease, CreateRejected, remote, fileSide
    <2>6. CASE Resolving(w)
      BY <2>6, StayShrink DEF Resolving, ReconcileFinds, ReconcileAmbiguous, ReconcileLater,
           ReconcileExpires, VerifyUnavailable, VerifyMismatch, VerifyMatch,
           MarkUploadLinked, MarkSubmitted, remote
    <2>7. CASE Recycle(w)
      BY <2>7 DEF Recycle, Shrink, TypeOK
    <2>8. CASE CleaningUp(w) /\ ~Recycle(w)
      BY <2>8, StayShrink DEF CleaningUp, BeginUploadCleanup, RecordUploadCleaned,
           RecycleUnavailable, RecycleRefused, CompleteOrphanCleanup, remote
    <2> QED
      BY <1>1, <2>1, <2>2, <2>3, <2>4, <2>5, <2>6, <2>7, <2>8 DEF WorkerStep
  <1>2. Database => Shrink
    BY StayShrink DEF Database, RecoverLostCommit, RecoverLostCreate, LeaseExpires,
           DeadlinePasses, ReclaimReservation, remote
  <1>3. ASSUME NEW f \in Files, AdminDeletesFile(f)
        PROVE  Shrink
    BY <1>3 DEF AdminDeletesFile, Shrink, TypeOK
  <1>4. RequestRecheck \/ AdminConfirmsNotCreated \/ (\E i \in Instances : AdminAttachesInstance(i))
          => Shrink
    BY StayShrink DEF RequestRecheck, AdminAttachesInstance, AdminConfirmsNotCreated, remote
  <1>5. ASSUME NEW f \in Files, CommitIsLost(f)
        PROVE  Shrink
    BY <1>5 DEF CommitIsLost, Shrink, TypeOK
  <1>6. CreateIsLost \/ (\E i \in Instances : CreateLands(i) \/ EmployeeResubmits(i)) => Shrink
    BY StayShrink DEF CreateLands, EmployeeResubmits, CreateIsLost, fileSide
  <1>7. Done \/ UNCHANGED vars => Shrink
    BY StayShrink DEF Done, vars
  <1> QED
    BY <1>1, <1>2, <1>3, <1>4, <1>5, <1>6, <1>7 DEF Next, People, DingTalk

LEMMA CommitStep ==
  ASSUME CommitInv, [Next]_vars
  PROVE  CommitStartedOnce' /\ AtMostOneDentry'
  <1>0. TypeOK
    BY DEF CommitInv
  <1>1. ASSUME NEW w \in Workers, SendCommit(w)
        PROVE  CommitStartedOnce' /\ AtMostOneDentry'
    <2> DEFINE f == job[w].file
    <2>1. f \in Files /\ job[w] = [at |-> "commit", file |-> f]
      BY <1>0, <1>1 DEF SendCommit, TypeOK, Jobs, PlainSteps, FileSteps
    <2>2. dentries[f] = 0 /\ ~commitFlight[f]
      BY <1>1 DEF SendCommit, CommitInv, CommitStartedOnce
    <2>3. /\ commitFlight' = [commitFlight EXCEPT ![f] = TRUE]
          /\ dentries' = dentries /\ row' = row /\ uploads' = uploads
          /\ job' = [job EXCEPT ![w] = [at |-> "commitWait", file |-> f]]
      BY <1>1 DEF SendCommit, At, local
    <2>4. \A v \in Workers : job'[v].at = "commit" =>
             v # w /\ job'[v] = job[v] /\ job[v].file \in Files /\ job[v].file # f
      BY <1>0, <2>1, <2>3
         DEF CommitInv, CommitStartedOnce, TypeOK, Jobs, PlainSteps, FileSteps
    <2>5. ASSUME NEW g \in Files, BeforeCreate(row'), uploads'[g] \in FreshStatuses
          PROVE  Untouched(g)'
      <3>1. Untouched(g)
        BY <2>3, <2>5 DEF CommitInv, CommitStartedOnce
      <3>2. g # f
        BY <2>1, <3>1 DEF Untouched
      <3>3. \A v \in Workers : job'[v] # [at |-> "commit", file |-> g]
        BY <2>4, <3>1 DEF Untouched
      <3> QED
        BY <1>0, <2>1, <2>3, <3>1, <3>2, <3>3 DEF Untouched, TypeOK
    <2>6. \A v \in Workers : job'[v].at = "commit" =>
             dentries'[job'[v].file] = 0 /\ ~commitFlight'[job'[v].file]
      BY <1>0, <2>1, <2>3, <2>4 DEF CommitInv, CommitStartedOnce, TypeOK
    <2>7. \A u, v \in Workers : job'[u].at = "commit" /\ job'[u] = job'[v] => u = v
      BY <2>4 DEF CommitInv, CommitStartedOnce
    <2>8. ASSUME NEW g \in Files
          PROVE  dentries'[g] + (IF commitFlight'[g] THEN 1 ELSE 0) <= 1
      <3>1. CASE g = f
        BY <2>2, <2>3, <3>1
      <3>2. CASE g # f
        <4>1. commitFlight'[g] = commitFlight[g]
          BY <1>0, <2>3, <3>2 DEF TypeOK
        <4> QED
          BY <2>3, <4>1 DEF CommitInv, AtMostOneDentry
      <3> QED
        BY <3>1, <3>2
    <2> QED
      BY <2>5, <2>6, <2>7, <2>8 DEF CommitStartedOnce, AtMostOneDentry
  <1>2. ASSUME NEW f \in Files, CommitLands(f)
        PROVE  CommitStartedOnce' /\ AtMostOneDentry'
    <2>1. /\ commitFlight[f]
          /\ commitFlight' = [commitFlight EXCEPT ![f] = FALSE]
          /\ dentries' = [dentries EXCEPT ![f] = dentries[f] + 1]
          /\ row' = row /\ uploads' = uploads /\ job' = job
      BY <1>2 DEF CommitLands
    <2>2. ASSUME NEW g \in Files, BeforeCreate(row'), uploads'[g] \in FreshStatuses
          PROVE  Untouched(g)'
      <3>1. Untouched(g)
        BY <2>1, <2>2 DEF CommitInv, CommitStartedOnce
      <3> QED
        BY <1>0, <2>1, <3>1 DEF Untouched, TypeOK
    <2>3. \A v \in Workers : job[v].at = "commit" => job[v].file \in Files /\ job[v].file # f
      BY <1>0, <2>1 DEF CommitInv, CommitStartedOnce, TypeOK, Jobs, PlainSteps, FileSteps
    <2>4. \A v \in Workers : job'[v].at = "commit" =>
             dentries'[job'[v].file] = 0 /\ ~commitFlight'[job'[v].file]
      BY <1>0, <2>1, <2>3 DEF CommitInv, CommitStartedOnce, TypeOK
    <2>5. ASSUME NEW g \in Files
          PROVE  dentries'[g] + (IF commitFlight'[g] THEN 1 ELSE 0) <= 1
      <3>1. dentries[g] \in 0..2 /\ dentries[g] + (IF commitFlight[g] THEN 1 ELSE 0) <= 1
        BY DEF CommitInv, AtMostOneDentry, TypeOK, MaxDentries
      <3>2. CASE g = f
        <4>1. dentries'[g] = dentries[g] + 1 /\ commitFlight'[g] = FALSE /\ commitFlight[g]
          BY <1>0, <2>1, <3>2 DEF TypeOK
        <4> QED
          BY <3>1, <4>1
      <3>3. CASE g # f
        <4>1. dentries'[g] = dentries[g] /\ commitFlight'[g] = commitFlight[g]
          BY <1>0, <2>1, <3>3 DEF TypeOK
        <4> QED
          BY <3>1, <4>1
      <3> QED
        BY <3>2, <3>3
    <2> QED
      BY <2>1, <2>2, <2>4, <2>5 DEF CommitInv, CommitStartedOnce, AtMostOneDentry
  <1>3. ASSUME NEW w \in Workers, BeginUploadCommit(w)
        PROVE  CommitStartedOnce' /\ AtMostOneDentry'
    <2> DEFINE f == job[w].file
    <2>1. f \in Files
      BY <1>0, <1>3 DEF BeginUploadCommit, TypeOK, Jobs, PlainSteps, FileSteps
    <2>2. /\ BeforeCreate(row) /\ uploads[f] = "PUT_DONE"
          /\ uploads' = [uploads EXCEPT ![f] = "COMMITTING"]
          /\ job' = [job EXCEPT ![w] = [at |-> "commit", file |-> f]]
          /\ row' = row /\ dentries' = dentries /\ commitFlight' = commitFlight
      BY <1>3 DEF BeginUploadCommit, SaveUpload, BeforeCreate, At, remote
    <2>3. Untouched(f)
      BY <2>1, <2>2 DEF CommitInv, CommitStartedOnce, FreshStatuses, NoRemoteFile
    <2>4. job'[w] = [at |-> "commit", file |-> f]
      BY <1>0, <2>2 DEF TypeOK
    <2>5. \A v \in Workers \ {w} : job'[v] = job[v]
      BY <1>0, <2>2 DEF TypeOK
    <2>6. \A v \in Workers \ {w} : job'[v] # job'[w]
      BY <2>3, <2>4, <2>5 DEF Untouched
    <2>7. ASSUME NEW g \in Files, BeforeCreate(row'), uploads'[g] \in FreshStatuses
          PROVE  Untouched(g)'
      <3>1. g # f
        BY <1>0, <2>2, <2>7 DEF TypeOK, FreshStatuses, NoRemoteFile
      <3>2. Untouched(g)
        BY <1>0, <2>2, <2>7, <3>1 DEF CommitInv, CommitStartedOnce, TypeOK
      <3> QED
        BY <2>2, <2>4, <2>5, <3>1, <3>2 DEF Untouched
    <2>8. \A v \in Workers : job'[v].at = "commit" =>
             dentries'[job'[v].file] = 0 /\ ~commitFlight'[job'[v].file]
      BY <2>2, <2>3, <2>4, <2>5 DEF CommitInv, CommitStartedOnce, Untouched
    <2>9. \A u, v \in Workers : job'[u].at = "commit" /\ job'[u] = job'[v] => u = v
      BY <2>5, <2>6 DEF CommitInv, CommitStartedOnce
    <2> QED
      BY <2>2, <2>7, <2>8, <2>9 DEF CommitInv, CommitStartedOnce, AtMostOneDentry
  <1>4. ASSUME NEW w \in Workers, CommitRejected(w)
        PROVE  CommitStartedOnce' /\ AtMostOneDentry'
    <2> DEFINE f == job[w].file
    <2>1. f \in Files
      BY <1>0, <1>4 DEF CommitRejected, TypeOK, Jobs, PlainSteps, FileSteps
    <2>2. /\ commitFlight[f]
          /\ uploads' = [uploads EXCEPT ![f] = "PENDING"]
          /\ job' = [job EXCEPT ![w] = [at |-> "rejected", file |-> f]]
          /\ commitFlight' = [commitFlight EXCEPT ![f] = FALSE]
          /\ row' = row /\ dentries' = dentries
      BY <1>4 DEF CommitRejected, SaveUpload, At
    <2>3. dentries[f] = 0
      <3>1. dentries[f] \in 0..2 /\ dentries[f] + (IF commitFlight[f] THEN 1 ELSE 0) <= 1
        BY <2>1 DEF CommitInv, AtMostOneDentry, TypeOK, MaxDentries
      <3> QED
        BY <2>2, <3>1
    <2>4. \A v \in Workers : job'[v].at = "commit" =>
             job'[v] = job[v] /\ job[v].file \in Files /\ job[v].file # f
      BY <1>0, <2>2 DEF CommitInv, CommitStartedOnce, TypeOK, Jobs, PlainSteps, FileSteps
    <2>5. ASSUME NEW g \in Files, BeforeCreate(row'), uploads'[g] \in FreshStatuses
          PROVE  Untouched(g)'
      <3>1. CASE g = f
        BY <1>0, <2>1, <2>2, <2>3, <2>4, <3>1 DEF Untouched, TypeOK
      <3>2. CASE g # f
        <4>1. Untouched(g)
          BY <1>0, <2>2, <2>5, <3>2 DEF CommitInv, CommitStartedOnce, TypeOK
        <4> QED
          BY <1>0, <2>2, <2>4, <3>2, <4>1 DEF Untouched, TypeOK
      <3> QED
        BY <3>1, <3>2
    <2>6. \A v \in Workers : job'[v].at = "commit" =>
             dentries'[job'[v].file] = 0 /\ ~commitFlight'[job'[v].file]
      BY <1>0, <2>2, <2>4 DEF CommitInv, CommitStartedOnce, TypeOK
    <2>7. \A u, v \in Workers : job'[u].at = "commit" /\ job'[u] = job'[v] => u = v
      BY <2>4 DEF CommitInv, CommitStartedOnce
    <2>8. ASSUME NEW g \in Files
          PROVE  dentries'[g] + (IF commitFlight'[g] THEN 1 ELSE 0) <= 1
      <3>1. CASE g = f
        BY <1>0, <2>1, <2>2, <2>3, <3>1 DEF TypeOK
      <3>2. CASE g # f
        <4>1. commitFlight'[g] = commitFlight[g]
          BY <1>0, <2>2, <3>2 DEF TypeOK
        <4> QED
          BY <2>2, <4>1 DEF CommitInv, AtMostOneDentry
      <3> QED
        BY <3>1, <3>2
    <2> QED
      BY <2>5, <2>6, <2>7, <2>8 DEF CommitStartedOnce, AtMostOneDentry
  <1>5. ASSUME NEW w \in Workers, CheckpointOaCreate(w) \/ RenewBeforeCreate(w)
        PROVE  CommitStartedOnce' /\ AtMostOneDentry'
    <2>1. uploads' = uploads /\ dentries' = dentries /\ commitFlight' = commitFlight
      BY <1>5 DEF CheckpointOaCreate, RenewBeforeCreate, local, remote
    <2>2. BeforeCreate(row') => BeforeCreate(row)
      BY <1>0, <1>5
         DEF CheckpointOaCreate, RenewBeforeCreate, Save, BeforeCreate, local, TypeOK, Rows
    <2>3. \A v \in Workers : job'[v].at = "commit" => job'[v] = job[v]
      BY <1>0, <1>5 DEF CheckpointOaCreate, RenewBeforeCreate, Save, At, TypeOK
    <2>4. ASSUME NEW g \in Files, BeforeCreate(row'), uploads'[g] \in FreshStatuses
          PROVE  Untouched(g)'
      <3>1. Untouched(g)
        BY <2>1, <2>2, <2>4 DEF CommitInv, CommitStartedOnce
      <3> QED
        BY <2>1, <2>3, <3>1 DEF Untouched
    <2> QED
      BY <2>1, <2>3, <2>4 DEF CommitInv, CommitStartedOnce, AtMostOneDentry
  <1> QED
    BY <1>0, <1>1, <1>2, <1>3, <1>4, <1>5, StepFrame, FileSideFrame, FrameKeepsCommit

LEMMA CommitInvariant == Spec => []CommitInv
  <1>1. Init => CommitStartedOnce /\ AtMostOneDentry
    BY DEF Init, CommitStartedOnce, AtMostOneDentry, Untouched
  <1>2. CommitInv /\ [Next]_vars /\ TypeOK' => CommitInv'
    BY CommitStep DEF CommitInv
  <1> QED
    BY <1>1, <1>2, TypeCorrect, PTL DEF Spec, CommitInv

\* A worker that is about to commit a file is alone and finds nothing of it, and
\* an upload that may start over left nothing.
THEOREM CommitOnce == Spec => []CommitStartedOnce
  BY CommitInvariant, PTL DEF CommitInv

\* No file of the submission ever has two dentries in DingTalk, nor one and a
\* second commit on its way.
THEOREM CommittedOnce == Spec => []AtMostOneDentry
  BY CommitInvariant, PTL DEF CommitInv

-----------------------------------------------------------------------------
(* SUBMITTED is real *)

Delivered == {"COMMITTED", "LINKED"}
Recycling == {"CLEANUP_PENDING", "CLEANED"}

\* A committed or linked file is there: only files that are being recycled, or whose
\* commit is uncertain, are ever deleted.
AttachmentsAreThere ==
  /\ \A f \in Files : uploads[f] \in Delivered => dentries[f] > 0
  /\ \A w \in Workers : job[w].at = "recycle" => uploads[job[w].file] \in Recycling

\* A worker past the readback has seen the approval, and the row's id does not change.
VerifiedExists ==
  /\ \A w \in Workers : job[w].at = "link" => row.instance \in oas
  /\ row.status = "SUBMITTED" => row.instance \in oas /\ \A f \in Files : uploads[f] = "LINKED"

RealInv == AttachmentsAreThere /\ VerifiedExists

\* A step that neither verifies nor submits.
RowPlain ==
  /\ row.instance # None => row'.instance = row.instance
  /\ row'.status = "SUBMITTED" => row.status = "SUBMITTED"
  /\ oas \subseteq oas'
  /\ \A v \in Workers : job'[v].at = "link" => job[v].at = "link"

\* A step that brings no upload to an end and takes no file away.
FilesPlain ==
  /\ \A f \in Files :
       /\ uploads'[f] \in Delivered => uploads[f] \in Delivered
       /\ uploads[f] \in Recycling => uploads'[f] \in Recycling
       /\ uploads[f] = "LINKED" => uploads'[f] = "LINKED"
       /\ dentries[f] > 0 => dentries'[f] > 0
  /\ \A v \in Workers : job'[v].at = "recycle" => job'[v] = job[v]

Plain == RowPlain /\ FilesPlain

SpecialSteps == {"link", "recycle"}

LEMMA AtPlain ==
  ASSUME TypeOK, NEW w \in Workers, NEW step, step \notin SpecialSteps, NEW f, At(w, step, f)
  PROVE  /\ \A v \in Workers : job'[v].at = "link" => job[v].at = "link"
         /\ \A v \in Workers : job'[v].at = "recycle" => job'[v] = job[v]
  BY DEF TypeOK, At, SpecialSteps

LEMMA StayFiles ==
  ASSUME uploads' = uploads, dentries' = dentries,
         \A v \in Workers : job'[v].at = "recycle" => job'[v] = job[v]
  PROVE  FilesPlain
  BY DEF FilesPlain

\* A fenced update of the row between two phases.
LEMMA SavePlain ==
  ASSUME TypeOK, NEW w \in Workers, NEW r, r.status # "SUBMITTED" \/ r.status = row.status,
         NEW step, step \notin SpecialSteps, Save(w, r, step), oas' = oas
  PROVE  RowPlain /\ \A v \in Workers : job'[v].at = "recycle" => job'[v] = job[v]
  <1>1. row' = row \/ (row' = r /\ RowAccepts(r))
    BY DEF Save
  <1>2. At(w, step, 0) \/ At(w, "idle", 0)
    BY DEF Save
  <1> QED
    BY <1>1, <1>2, AtPlain DEF RowPlain, RowAccepts, SpecialSteps

LEMMA SaveSame ==
  ASSUME TypeOK, NEW w \in Workers, NEW r, r.status # "SUBMITTED" \/ r.status = row.status,
         NEW step, step \notin SpecialSteps, Save(w, r, step), UNCHANGED <<uploads, dentries, oas>>
  PROVE  Plain
  BY SavePlain, StayFiles DEF Plain

LEMMA AdvancePlain ==
  ASSUME TypeOK, NEW w \in Workers, NEW status, status # "SUBMITTED",
         UNCHANGED <<uploads, dentries, oas>>,
         Finish(w, status) \/ \E step \in PlainSteps \ SpecialSteps : Advance(w, status, step)
  PROVE  Plain
  <1>1. /\ [row EXCEPT !.status = status, !.resume = "NONE"].status = status
        /\ Unleased([row EXCEPT !.status = status, !.resume = "NONE"]).status = status
    BY DEF TypeOK, Rows, Unleased
  <1>2. "idle" \notin SpecialSteps
    BY DEF SpecialSteps
  <1> QED
    BY <1>1, <1>2, SaveSame DEF Advance, Finish

LEMMA RetryPlain ==
  ASSUME TypeOK, NEW w \in Workers, Retry(w), oas' = oas
  PROVE  RowPlain /\ \A v \in Workers : job'[v].at = "recycle" => job'[v] = job[v]
  <1>1. Unleased([row EXCEPT !.status = "FAILED_RETRYABLE", !.resume = row.status]).status
          = "FAILED_RETRYABLE"
    BY DEF TypeOK, Rows, Unleased
  <1>2. "idle" \notin SpecialSteps
    BY DEF SpecialSteps
  <1> QED
    BY <1>1, <1>2, SavePlain DEF Retry

\* An update of an upload that neither ends it nor has to do with recycling.
LEMMA SaveUploadPlain ==
  ASSUME TypeOK, NEW w \in Workers, NEW f \in Files, NEW status, NEW from, NEW to,
         SaveUpload(w, f, status, from, to),
         to \notin Delivered \/ from = {"COMMITTED"},
         \/ from \cap (Recycling \cup {"LINKED"}) = {}
         \/ from \subseteq Recycling /\ to \in Recycling,
         dentries' = dentries,
         \A v \in Workers : job'[v].at = "recycle" => job'[v] = job[v]
  PROVE  FilesPlain
  BY DEF TypeOK, SaveUpload, FilesPlain, Delivered, Recycling

LEMMA StayRow ==
  ASSUME row' = row, oas' = oas,
         \A v \in Workers : job'[v].at = "link" => job[v].at = "link"
  PROVE  RowPlain
  BY DEF RowPlain

LEMMA PreparingPlain ==
  ASSUME TypeOK, NEW w \in Workers, Preparing(w)
  PROVE  Plain
  <1> USE DEF Plain, SpecialSteps, PlainSteps, remote
  <1>0. job[w] \in Jobs
    BY DEF TypeOK
  <1>1. CASE StartValidation(w)
    BY <1>1, AdvancePlain DEF StartValidation
  <1>2. CASE ValidationPasses(w)
    BY <1>2, AdvancePlain DEF ValidationPasses
  <1>3. CASE ValidationRejects(w)
    BY <1>3, AdvancePlain DEF ValidationRejects
  <1>4. CASE ValidationUnavailable(w)
    BY <1>4, RetryPlain, StayFiles DEF ValidationUnavailable
  <1>5. CASE \E f \in Files : RemoveDiscarded(w, f)
    <2>1. job' = job /\ row' = row /\ oas' = oas /\ dentries' = dentries
      BY <1>5 DEF RemoveDiscarded
    <2> QED
      BY <1>5, <2>1, StayRow, SaveUploadPlain DEF RemoveDiscarded, Delivered, Recycling
  <1>6. CASE \E f \in Files : ReserveGenerated(w, f)
    BY <1>6, AtPlain, StayRow, SaveUploadPlain DEF ReserveGenerated, Delivered, Recycling
  <1>7. CASE FinalizeGenerated(w)
    <2>1. job[w].file \in Files
      BY <1>0, <1>7 DEF FinalizeGenerated, Jobs, FileSteps
    <2> QED
      BY <1>7, <2>1, AtPlain, StayRow, SaveUploadPlain DEF FinalizeGenerated, Delivered, Recycling
  <1>8. CASE GenerateFails(w)
    <2>1. \A f \in Files : uploads'[f] = uploads[f]
                           \/ (uploads[f] = "RESERVED" /\ uploads'[f] = "DISCARDED")
      BY <1>8 DEF GenerateFails, TypeOK
    <2>2. RowPlain /\ \A v \in Workers : job'[v].at = "recycle" => job'[v] = job[v]
      BY <1>8, RetryPlain DEF GenerateFails
    <2> QED
      BY <1>8, <2>1, <2>2 DEF GenerateFails, FilesPlain, Delivered, Recycling
  <1>9. CASE GenerationPostponed(w)
    BY <1>9, RetryPlain, StayFiles DEF GenerationPostponed
  <1>10. CASE GenerationDone(w)
    BY <1>10, AdvancePlain DEF GenerationDone
  <1>11. CASE PreCreateRefused(w)
    <2>1. PreCreateVerdict \in {"MANUAL_REVIEW", "ORPHAN_CLEANUP", "FAILED_FINAL"}
      BY DEF PreCreateVerdict
    <2> QED
      BY <1>11, <2>1, AdvancePlain DEF PreCreateRefused
  <1>12. CASE PreCreateUnavailable(w)
    BY <1>12, RetryPlain, StayFiles DEF PreCreateUnavailable
  <1> QED
    BY <1>1, <1>2, <1>3, <1>4, <1>5, <1>6, <1>7, <1>8, <1>9, <1>10, <1>11, <1>12
       DEF Preparing

LEMMA UploadingPlain ==
  ASSUME TypeOK, NEW w \in Workers, UploadingFiles(w)
  PROVE  Plain \/ RecordUploadCommitted(w)
  <1> USE DEF Plain, SpecialSteps, PlainSteps, remote, local
  <1>0. job[w] \in Jobs
    BY DEF TypeOK
  <1>f. job[w].at \in FileSteps => job[w].file \in Files
    BY <1>0 DEF Jobs, FileSteps
  <1>1. CASE BeginUploads(w) \/ \E g \in Files : ProbeExact(w, g)
    BY <1>1, AtPlain, StayRow, StayFiles DEF BeginUploads, ProbeExact
  <1>2. CASE \E g \in Files : ProbeNotExact(w, g)
    BY <1>2, AdvancePlain DEF ProbeNotExact
  <1>3. CASE \E g \in Files : BeginUploadPut(w, g)
    BY <1>3, AtPlain, StayRow, SaveUploadPlain DEF BeginUploadPut, Delivered, Recycling
  <1>4. CASE RecordUploadPutDone(w)
    BY <1>4, <1>f, AtPlain, StayRow, SaveUploadPlain
       DEF RecordUploadPutDone, FileSteps, Delivered, Recycling
  <1>5. CASE BeginUploadCommit(w)
    BY <1>5, <1>f, AtPlain, StayRow, SaveUploadPlain
       DEF BeginUploadCommit, FileSteps, Delivered, Recycling
  <1>6. CASE SendCommit(w)
    BY <1>6, AtPlain, StayRow, StayFiles DEF SendCommit, oaSide
  <1>7. CASE CommitOutcomeUnknown(w)
    <2>1. FilesPlain
      BY <1>7, <1>f, AtPlain, SaveUploadPlain
         DEF CommitOutcomeUnknown, FileSteps, Delivered, Recycling
    <2>2. row'.status = "MANUAL_REVIEW" /\ row'.instance = row.instance
      BY <1>7 DEF CommitOutcomeUnknown, TypeOK, Rows, Unleased
    <2> QED
      BY <1>7, <2>1, <2>2, AtPlain DEF CommitOutcomeUnknown, RowPlain
  <1>8. CASE CommitRejected(w)
    BY <1>8, <1>f, AtPlain, StayRow, SaveUploadPlain
       DEF CommitRejected, FileSteps, Delivered, Recycling, oaSide
  <1>9. CASE CheckpointOaCreate(w)
    <2> DEFINE r == [row EXCEPT !.status = "OA_CREATING", !.deadline = "open"]
    <2>1. r.status = "OA_CREATING"
      BY DEF TypeOK, Rows
    <2>2. Save(w, r, "create") /\ UNCHANGED <<uploads, dentries, oas>>
      BY <1>9 DEF CheckpointOaCreate
    <2> HIDE DEF r
    <2> QED
      BY <2>1, <2>2, SaveSame
  <1> QED
    BY <1>1, <1>2, <1>3, <1>4, <1>5, <1>6, <1>7, <1>8, <1>9 DEF UploadingFiles

LEMMA CreatingPlain ==
  ASSUME TypeOK, NEW w \in Workers, Creating(w)
  PROVE  Plain
  <1> USE DEF Plain, SpecialSteps, PlainSteps, remote, local
  <1>1. CASE RenewBeforeCreate(w)
    BY <1>1, AtPlain, StayRow, StayFiles DEF RenewBeforeCreate
  <1>2. CASE SendCreate(w)
    BY <1>2, AtPlain, StayRow, StayFiles DEF SendCreate, fileSide
  <1>3. CASE RecordCreated(w)
    <2> DEFINE r == [row EXCEPT !.status = "VERIFYING", !.instance = oaBorn]
    <2>1. r.status = "VERIFYING"
      BY DEF TypeOK, Rows
    <2>2. Save(w, r, "run") /\ UNCHANGED <<uploads, dentries, oas>>
      BY <1>3 DEF RecordCreated
    <2> HIDE DEF r
    <2> QED
      BY <2>1, <2>2, SaveSame
  <1>4. CASE CreateOutcomeUnknown(w)
    BY <1>4, AdvancePlain DEF CreateOutcomeUnknown
  <1>5. CASE ReleaseLease(w)
    <2>1. Unleased(row).status = row.status
      BY DEF TypeOK, Rows, Unleased
    <2> QED
      BY <1>5, <2>1, SaveSame DEF ReleaseLease
  <1>6. CASE CreateRejected(w)
    BY <1>6, AdvancePlain DEF CreateRejected, fileSide
  <1> QED
    BY <1>1, <1>2, <1>3, <1>4, <1>5, <1>6 DEF Creating

LEMMA ResolvingPlain ==
  ASSUME TypeOK, NEW w \in Workers, Resolving(w)
  PROVE  \/ Plain \/ MarkSubmitted(w) \/ VerifyMatch(w)
         \/ \E i \in Instances : ReconcileFinds(w, i)
  <1> USE DEF Plain, SpecialSteps, PlainSteps, remote, local
  <1>1. CASE ReconcileAmbiguous(w) \/ ReconcileLater(w) \/ ReconcileExpires(w) \/ VerifyMismatch(w)
    BY <1>1, AdvancePlain DEF ReconcileAmbiguous, ReconcileLater, ReconcileExpires, VerifyMismatch
  <1>2. CASE VerifyUnavailable(w)
    BY <1>2, RetryPlain, StayFiles DEF VerifyUnavailable
  <1>3. CASE \E f \in Files : MarkUploadLinked(w, f)
    BY <1>3, StayRow, SaveUploadPlain DEF MarkUploadLinked, Delivered, Recycling
  <1> QED
    BY <1>1, <1>2, <1>3 DEF Resolving

LEMMA CleaningUpPlain ==
  ASSUME TypeOK, NEW w \in Workers, CleaningUp(w)
  PROVE  Plain \/ Recycle(w) \/ \E f \in Files : BeginUploadCleanup(w, f)
  <1> USE DEF Plain, SpecialSteps, PlainSteps, remote, local
  <1>f. job[w].at \in FileSteps => job[w].file \in Files
    BY DEF TypeOK, Jobs, FileSteps
  <1>1. CASE RecordUploadCleaned(w)
    BY <1>1, <1>f, AtPlain, StayRow, SaveUploadPlain
       DEF RecordUploadCleaned, FileSteps, Delivered, Recycling
  <1>2. CASE RecycleUnavailable(w)
    BY <1>2, RetryPlain, StayFiles DEF RecycleUnavailable
  <1>3. CASE RecycleRefused(w) \/ CompleteOrphanCleanup(w)
    BY <1>3, AdvancePlain DEF RecycleRefused, CompleteOrphanCleanup
  <1> QED
    BY <1>1, <1>2, <1>3 DEF CleaningUp

LEMMA ClaimPlain ==
  ASSUME TypeOK, NEW w \in Workers, Claim(w) \/ Crash(w) \/ Conflict(w)
  PROVE  Plain
  <1> USE DEF Plain, SpecialSteps, remote, local
  <1>1. CASE Claim(w)
    <2>1. row'.status = EffectiveStatus /\ row'.instance = row.instance
      BY <1>1 DEF Claim, TypeOK, Rows
    <2>2. EffectiveStatus # "SUBMITTED"
      BY <1>1 DEF Claim, EffectiveStatus, TypeOK, Rows, RetryableStatuses, ClaimableStatuses
    <2> QED
      BY <1>1, <2>1, <2>2, AtPlain, StayFiles DEF Claim, RowPlain
  <1>2. CASE Crash(w) \/ Conflict(w)
    BY <1>2, AtPlain, StayRow, StayFiles DEF Crash, Conflict
  <1> QED
    BY <1>1, <1>2

LEMMA OthersPlain ==
  ASSUME TypeOK, Database \/ People \/ DingTalk \/ Done \/ UNCHANGED vars
  PROVE  Plain \/ \E f \in Files : AdminDeletesFile(f)
  <1> USE DEF Plain, remote, local
  <1>1. CASE RecoverLostCommit \/ RecoverLostCreate \/ LeaseExpires \/ DeadlinePasses
             \/ RequestRecheck
    <2>1. /\ row'.instance = row.instance /\ (row'.status # "SUBMITTED" \/ row'.status = row.status)
          /\ UNCHANGED <<job, dentries, oas>>
      BY <1>1 DEF RecoverLostCommit, RecoverLostCreate, LeaseExpires, DeadlinePasses,
                  RequestRecheck, TypeOK, Rows, Unleased
    <2>2. \A f \in Files : uploads'[f] = uploads[f]
                           \/ (uploads[f] = "COMMITTING" /\ uploads'[f] = "COMMIT_UNCERTAIN")
      BY <1>1 DEF RecoverLostCommit, RecoverLostCreate, LeaseExpires, DeadlinePasses,
                  RequestRecheck, TypeOK
    <2> QED
      BY <2>1, <2>2 DEF RowPlain, FilesPlain, Delivered, Recycling
  <1>2. CASE \E f \in Files : ReclaimReservation(f)
    <2>1. UNCHANGED <<row, job, dentries, oas>>
      BY <1>2 DEF ReclaimReservation
    <2>2. \A f \in Files : uploads'[f] = uploads[f]
                           \/ (uploads[f] = "RESERVED" /\ uploads'[f] = "DISCARDED")
      BY <1>2 DEF ReclaimReservation, TypeOK
    <2> QED
      BY <2>1, <2>2 DEF RowPlain, FilesPlain, Delivered, Recycling
  <1>3. CASE \E i \in Instances : AdminAttachesInstance(i)
    <2>1. row.instance = None /\ row'.status = "VERIFYING"
      BY <1>3 DEF AdminAttachesInstance, TypeOK, Rows
    <2> QED
      BY <1>3, <2>1 DEF AdminAttachesInstance, RowPlain, FilesPlain
  <1>4. CASE AdminConfirmsNotCreated
    <2>1. /\ row'.instance = row.instance /\ row'.status = "ORPHAN_CLEANUP"
          /\ UNCHANGED <<job, dentries, oas>>
      BY <1>4 DEF AdminConfirmsNotCreated, TypeOK, Rows
    <2>2. \A f \in Files : uploads'[f] = uploads[f]
                           \/ (uploads[f] \in UncertainStatuses /\ uploads'[f] = "PENDING")
      BY <1>4 DEF AdminConfirmsNotCreated, TypeOK
    <2> QED
      BY <2>1, <2>2 DEF RowPlain, FilesPlain, Delivered, Recycling, UncertainStatuses
  <1>5. CASE DingTalk
    <2>1. UNCHANGED <<row, uploads, job>> /\ oas \subseteq oas'
      BY <1>5 DEF DingTalk, CreateLands, EmployeeResubmits, CreateIsLost, CommitLands,
                  CommitIsLost, oaSide
    <2>2. \A f \in Files : dentries[f] > 0 => dentries'[f] > 0
      BY <1>5 DEF DingTalk, CreateLands, EmployeeResubmits, CreateIsLost, CommitLands,
                  CommitIsLost, TypeOK, fileSide, MaxDentries
    <2> QED
      BY <2>1, <2>2 DEF RowPlain, FilesPlain
  <1>6. CASE Done \/ UNCHANGED vars
    BY <1>6 DEF Done, vars, RowPlain, FilesPlain
  <1> QED
    BY <1>1, <1>2, <1>3, <1>4, <1>5, <1>6 DEF Database, People

LEMMA PlainKeepsReal ==
  ASSUME TypeOK, RealInv, Plain
  PROVE  RealInv'
  <1>1. AttachmentsAreThere'
    <2>1. \A v \in Workers : job'[v].at = "recycle" =>
            job[v].at = "recycle" /\ job'[v].file = job[v].file /\ job[v].file \in Files
      BY DEF Plain, FilesPlain, TypeOK, Jobs, PlainSteps, FileSteps
    <2> QED
      BY <2>1 DEF RealInv, AttachmentsAreThere, Plain, FilesPlain
  <1>2. VerifiedExists'
    <2>1. row.instance \in oas => row'.instance \in oas'
      BY NoneAssumption DEF Plain, RowPlain, TypeOK
    <2> QED
      BY <2>1 DEF RealInv, VerifiedExists, Plain, RowPlain, FilesPlain
  <1> QED
    BY <1>1, <1>2 DEF RealInv

\* A step of one worker that touches neither uploads nor files but may verify or submit.
LEMMA VerifyKeepsReal ==
  ASSUME TypeOK, RealInv, UNCHANGED <<uploads, dentries, oas>>, NEW w \in Workers, NEW step,
         step # "recycle", At(w, step, 0),
         row.instance # None => row'.instance = row.instance,
         step = "link" => row'.instance \in oas,
         row'.status = "SUBMITTED" =>
           row.status = "SUBMITTED" \/ (row.instance \in oas /\ \A f \in Files : uploads[f] = "LINKED")
  PROVE  RealInv'
  <1>1. /\ job'[w].at = step
        /\ \A v \in Workers \ {w} : job'[v] = job[v]
    BY DEF At, TypeOK
  <1>2. row.instance \in oas => row'.instance \in oas
    BY NoneAssumption DEF TypeOK
  <1> QED
    BY <1>1, <1>2 DEF RealInv, AttachmentsAreThere, VerifiedExists

LEMMA RealStep ==
  ASSUME CommitInv, RealInv, [Next]_vars
  PROVE  RealInv'
  <1>0. TypeOK
    BY DEF CommitInv
  <1>1. ASSUME NEW w \in Workers, RecordUploadCommitted(w)
        PROVE  RealInv'
    <2>1. job[w].file \in Files
      BY <1>0, <1>1 DEF RecordUploadCommitted, TypeOK, Jobs, PlainSteps, FileSteps
    <2>2. /\ UNCHANGED <<row, dentries, oas>>
          /\ \A g \in Files \ {job[w].file} : uploads'[g] = uploads[g]
          /\ uploads[job[w].file] = "COMMITTING" /\ uploads'[job[w].file] = "COMMITTED"
          /\ dentries[job[w].file] > 0
          /\ \A v \in Workers \ {w} : job'[v] = job[v]
          /\ job'[w].at = "upload"
      BY <1>0, <1>1, <2>1 DEF RecordUploadCommitted, SaveUpload, At, TypeOK, remote
    <2>3. \A v \in Workers : job[v].at = "recycle" => job[v].file \in Files
      BY <1>0 DEF TypeOK, Jobs, PlainSteps, FileSteps
    <2> QED
      BY <2>1, <2>2, <2>3 DEF RealInv, AttachmentsAreThere, VerifiedExists, Recycling, Delivered
  <1>2. ASSUME NEW w \in Workers, MarkSubmitted(w)
        PROVE  RealInv'
    <2>1. PICK r : /\ Save(w, r, "idle") /\ job[w].at = "link"
                   /\ \A f \in Files : uploads[f] = "LINKED"
      BY <1>2 DEF MarkSubmitted, Finish
    <2> QED
      BY <1>0, <1>2, <2>1, VerifyKeepsReal
         DEF MarkSubmitted, Save, RowAccepts, RealInv, VerifiedExists, remote
  <1>3. ASSUME NEW w \in Workers, VerifyMatch(w)
        PROVE  RealInv'
    BY <1>0, <1>3, VerifyKeepsReal DEF VerifyMatch, remote, local
  <1>4. ASSUME NEW w \in Workers, NEW i \in Instances, ReconcileFinds(w, i)
        PROVE  RealInv'
    <2> DEFINE r == [row EXCEPT !.status = "VERIFYING", !.instance = i]
    <2>1. r.status = "VERIFYING" /\ r.instance = i /\ i \in oas
      BY <1>0, <1>4 DEF TypeOK, Rows, ReconcileFinds
    <2>2. Save(w, r, "link") /\ UNCHANGED <<uploads, dentries, oas>>
      BY <1>4 DEF ReconcileFinds, remote
    <2> HIDE DEF r
    <2> QED
      BY <1>0, <2>1, <2>2, VerifyKeepsReal DEF Save, RowAccepts
  <1>5. ASSUME NEW w \in Workers, Recycle(w)
        PROVE  RealInv'
    <2>1. uploads[job[w].file] \in Recycling /\ job[w].file \in Files
      BY <1>0, <1>5 DEF Recycle, RealInv, AttachmentsAreThere, TypeOK, Jobs, PlainSteps, FileSteps
    <2>2. /\ UNCHANGED <<row, uploads, oas>>
          /\ \A g \in Files \ {job[w].file} : dentries'[g] = dentries[g]
          /\ \A v \in Workers \ {w} : job'[v] = job[v]
          /\ job'[w].at = "recycled"
      BY <1>0, <1>5 DEF Recycle, At, TypeOK, local, oaSide
    <2> QED
      BY <2>1, <2>2 DEF RealInv, AttachmentsAreThere, VerifiedExists, Recycling, Delivered
  <1>6. ASSUME NEW w \in Workers, NEW f \in Files, BeginUploadCleanup(w, f)
        PROVE  RealInv'
    <2>1. /\ UNCHANGED <<row, dentries, oas>>
          /\ row.status = "ORPHAN_CLEANUP" /\ uploads'[f] = "CLEANUP_PENDING"
          /\ \A g \in Files \ {f} : uploads'[g] = uploads[g]
          /\ \A v \in Workers \ {w} : job'[v] = job[v]
          /\ job'[w].at = "recycle" /\ job'[w].file = f
      BY <1>0, <1>6 DEF BeginUploadCleanup, SaveUpload, At, TypeOK, remote
    <2>2. \A v \in Workers : job[v].at = "recycle" => job[v].file \in Files
      BY <1>0 DEF TypeOK, Jobs, PlainSteps, FileSteps
    <2> QED
      BY <2>1, <2>2 DEF RealInv, AttachmentsAreThere, VerifiedExists, Recycling, Delivered
  <1>7. ASSUME NEW f \in Files, AdminDeletesFile(f)
        PROVE  RealInv'
    <2>1. /\ UNCHANGED <<row, uploads, job, oas>> /\ uploads[f] \in UncertainStatuses
          /\ \A g \in Files \ {f} : dentries'[g] = dentries[g]
      BY <1>0, <1>7 DEF AdminDeletesFile, local, oaSide, TypeOK
    <2> QED
      BY <2>1 DEF RealInv, AttachmentsAreThere, VerifiedExists, Delivered, UncertainStatuses
  <1> QED
    BY <1>0, <1>1, <1>2, <1>3, <1>4, <1>5, <1>6, <1>7, PlainKeepsReal, PreparingPlain,
       UploadingPlain, CreatingPlain, ResolvingPlain, CleaningUpPlain, ClaimPlain, OthersPlain
       DEF Next, WorkerStep

LEMMA RealInvariant == Spec => [](CommitInv /\ RealInv)
  <1>1. Init => RealInv
    BY DEF Init, RealInv, AttachmentsAreThere, VerifiedExists, Delivered
  <1>2. CommitInv /\ RealInv /\ [Next]_vars => RealInv'
    BY RealStep
  <1> QED
    BY <1>1, <1>2, CommitInvariant, PTL DEF Spec

\* SUBMITTED is only ever reported of an approval that exists, with every attachment linked
\* and in place, stalled workers and erring administrators included.
THEOREM SubmittedReal == Spec => []SubmittedIsReal
  <1>1. ASSUME CommitInv, RealInv
        PROVE  SubmittedIsReal
    <2>1. \A f \in Files : dentries[f] \in 0..2 /\ dentries[f] <= 1
      BY <1>1 DEF CommitInv, TypeOK, AtMostOneDentry, MaxDentries
    <2>2. \A f \in Files : dentries[f] > 0 => dentries[f] = 1
      BY <2>1
    <2> QED
      BY <1>1, <2>2 DEF RealInv, AttachmentsAreThere, VerifiedExists, SubmittedIsReal, Delivered
  <1> QED
    BY <1>1, RealInvariant, PTL

-----------------------------------------------------------------------------
(* The inductive invariant of the promise.  It needs an administrator who      *)
(* attests only to what is so: the promise is about the code, and the code     *)
(* believes what the administrator says.                                       *)

\* A request to create the approval is out, has produced one, or is about to leave.
Asking == oaFlight \/ oas # {} \/ \E w \in Workers : job[w].at = "send"

\* Approvals come from the request only, and the row refers to one that exists.
AskedOnce ==
  /\ creates = 0 => oas = {} /\ ~oaFlight
  /\ oaFlight => oas = {}
  /\ oaBorn # None => oaBorn \in oas
  /\ row.instance # None => row.instance \in oas

AfterCheckpoint(r) ==
  \/ r.status \in {"OA_CREATING", "RECONCILING", "VERIFYING", "SUBMITTED", "MANUAL_REVIEW"}
  \/ r.resume = "VERIFYING"

\* From the checkpoint on, every attachment is committed and stays so.
AskedWithAll ==
  /\ Asking => AfterCheckpoint(row) /\ \A f \in Files : uploads[f] \in Delivered
  /\ row.status = "OA_CREATING" => \A f \in Files : uploads[f] = "COMMITTED"
  /\ \A w \in Workers : job[w].at = "create" /\ Fenced(w) => row.status = "OA_CREATING"

CommitOut(f) == commitFlight[f] \/ \E w \in Workers : job[w] = [at |-> "commit", file |-> f]

\* A commit that is out is on record, and nothing is asked for while one is.
UncertainIsEarly ==
  \A f \in Files :
    /\ CommitOut(f) => uploads[f] \in UncertainStatuses
    /\ uploads[f] \in UncertainStatuses =>
         /\ ~CreateStarted(row)
         /\ row.status \in {"UPLOADING", "MANUAL_REVIEW"} \/ row.resume = "UPLOADING"

Unstarted == {"ABSENT", "RESERVED", "PENDING", "DISCARDED"}

GeneratingStatuses == {"QUEUED", "VALIDATING", "GENERATING_EXCEL"}

\* An upload without a remote file has none, and a row that failed has no other uploads.
NothingLeft ==
  /\ \A f \in Files : uploads[f] \in NoRemoteFile => dentries[f] = 0
  /\ \A w \in Workers : job[w].at = "recycled" =>
       uploads[job[w].file] \in Recycling /\ dentries[job[w].file] = 0
  /\ \A f \in Files : uploads[f] \in Recycling => row.status \in {"ORPHAN_CLEANUP", "FAILED_FINAL"}
  /\ row.status = "FAILED_FINAL" => \A f \in Files : uploads[f] \in NoRemoteFile
  /\ row.status \in GeneratingStatuses \/ row.resume \in GeneratingStatuses =>
       \A f \in Files : uploads[f] \in Unstarted

PromiseInv == AskedOnce /\ AskedWithAll /\ UncertainIsEarly /\ NothingLeft

\* Everything the argument about one step may assume.
Before == CommitInv /\ CheckpointPassedOnce /\ AtMostOneCreate /\ RealInv /\ PromiseInv

\* A step of the submission is a step of the promise or invisible to it.
Promised == [Promise!Next]_(Promise!vars)

Kept == PromiseInv' /\ Promised

-----------------------------------------------------------------------------
(* Steps that change the row only *)

\* What PromiseInv says of the row, when nothing else changes.
RowOK(r) ==
  /\ r.instance # None => r.instance \in oas
  /\ Asking => AfterCheckpoint(r)
  /\ r.status = "OA_CREATING" => \A f \in Files : uploads[f] = "COMMITTED"
  /\ \A f \in Files : uploads[f] \in UncertainStatuses =>
       /\ ~CreateStarted(r)
       /\ r.status \in {"UPLOADING", "MANUAL_REVIEW"} \/ r.resume = "UPLOADING"
  /\ \A f \in Files : uploads[f] \in Recycling => r.status \in {"ORPHAN_CLEANUP", "FAILED_FINAL"}
  /\ r.status = "FAILED_FINAL" => \A f \in Files : uploads[f] \in NoRemoteFile
  /\ r.status \in GeneratingStatuses \/ r.resume \in GeneratingStatuses =>
       \A f \in Files : uploads[f] \in Unstarted

Closed == {"SUBMITTED", "FAILED_FINAL"}

\* What the promise says of the row, when nothing else changes.
PhaseMove(r) ==
  \/ r.instance = row.instance /\ r.status = row.status
  \/ r.instance = row.instance /\ row.status \notin Closed /\ r.status \notin Closed
  \/ /\ row.instance = None /\ row.status \notin Closed
     /\ r.instance \in oas /\ r.status \notin Closed \cup {"MANUAL_REVIEW"}
  \/ /\ row.status \notin Closed \cup {"MANUAL_REVIEW"} /\ r.status = "SUBMITTED"
     /\ r.instance = row.instance /\ row.instance \in oas
  \/ /\ row.status \notin Closed \cup {"MANUAL_REVIEW"} /\ r.status = "FAILED_FINAL"
     /\ r.instance = row.instance /\ row.instance = None
     /\ oas = {} /\ \A f \in Files : dentries[f] = 0

LEMMA MovePromised ==
  ASSUME TypeOK, PhaseMove(row'), UNCHANGED <<creates, oas, dentries>>
  PROVE  Promised
  <1> DEFINE stored == {f \in Files : dentries[f] > 0}
  <1>1. stored' = stored
    OBVIOUS
  <1>2. CASE row'.instance = row.instance /\ row'.status = row.status
    <2>1. Phase' = Phase
      BY <1>2 DEF Phase
    <2> QED
      BY <1>1, <1>2, <2>1 DEF Promised, Promise!vars
  <1>3. CASE row'.instance = row.instance /\ row.status \notin Closed /\ row'.status \notin Closed
    <2>1. Phase \in {"working", "review"} /\ Phase' \in {"working", "review"}
      BY <1>3 DEF Phase, Closed
    <2>2. Phase' = Phase \/ Phase' = IF Phase = "working" THEN "review" ELSE "working"
      BY <2>1
    <2> QED
      BY <1>1, <1>3, <2>1, <2>2
         DEF Promised, Promise!Next, Promise!HandOver, Promise!Open, Promise!vars
  <1>4. CASE /\ row.instance = None /\ row.status \notin Closed
             /\ row'.instance \in oas /\ row'.status \notin Closed \cup {"MANUAL_REVIEW"}
    <2>1. Phase \in {"working", "review"} /\ Phase' = "working"
      BY <1>4 DEF Phase, Closed
    <2>2. row'.instance \in Instances
      BY <1>4 DEF TypeOK
    <2> QED
      BY <1>1, <1>4, <2>1, <2>2 DEF Promised, Promise!Next, Promise!Bind, Promise!Open
  <1>5. CASE /\ row.status \notin Closed \cup {"MANUAL_REVIEW"} /\ row'.status = "SUBMITTED"
             /\ row'.instance = row.instance /\ row.instance \in oas
    <2>1. Phase = "working" /\ Phase' = "submitted"
      BY <1>5 DEF Phase, Closed
    <2> QED
      BY <1>1, <1>5, <2>1 DEF Promised, Promise!Next, Promise!Submit
  <1>6. CASE /\ row.status \notin Closed \cup {"MANUAL_REVIEW"} /\ row'.status = "FAILED_FINAL"
             /\ row'.instance = row.instance /\ row.instance = None
             /\ oas = {} /\ \A f \in Files : dentries[f] = 0
    <2>1. Phase = "working" /\ Phase' = "failed"
      BY <1>6 DEF Phase, Closed
    <2>2. stored = {}
      BY <1>6
    <2> QED
      BY <1>1, <1>6, <2>1, <2>2 DEF Promised, Promise!Next, Promise!Fail
  <1> QED
    BY <1>2, <1>3, <1>4, <1>5, <1>6 DEF PhaseMove

\* A worker at one of these steps tells something of the remote side.
WatchedSteps == {"send", "commit", "recycled"}

\* Where an update of the row's status leaves the worker.
QuietSteps == {"idle", "run", "release"}

Unwatched == \A v \in Workers : job'[v].at \in WatchedSteps => job'[v] = job[v]

LEMMA AtUnwatched ==
  ASSUME TypeOK, NEW w \in Workers, NEW step, step \notin WatchedSteps, NEW f, At(w, step, f)
  PROVE  Unwatched
  BY DEF TypeOK, At, Unwatched, WatchedSteps

LEMMA RowIsOK ==
  ASSUME PromiseInv
  PROVE  RowOK(row) /\ PhaseMove(row)
  BY DEF PromiseInv, AskedOnce, AskedWithAll, UncertainIsEarly, NothingLeft, RowOK, PhaseMove

\* A change of the row and of uploads that leaves the remote side alone.
LEMMA LocalKeeps ==
  ASSUME TypeOK, PromiseInv, UNCHANGED remote, Unwatched, RowOK(row)', PhaseMove(row'),
         \A v \in Workers : job'[v].at = "create" /\ Fenced(v)' => row'.status = "OA_CREATING",
         Asking => \A f \in Files : uploads'[f] \in Delivered,
         \A f \in Files : /\ CommitOut(f) => uploads'[f] \in UncertainStatuses
                          /\ uploads'[f] \in NoRemoteFile => dentries[f] = 0
                          /\ uploads[f] \in Recycling => uploads'[f] \in Recycling
  PROVE  Kept
  <1>1. Asking' => Asking
    BY DEF Asking, Unwatched, WatchedSteps, remote
  <1>2. \A f \in Files : CommitOut(f)' => CommitOut(f)
    <2>1. \A f \in Files, w \in Workers :
            job'[w] = [at |-> "commit", file |-> f] => job[w] = [at |-> "commit", file |-> f]
      BY DEF Unwatched, WatchedSteps
    <2>2. commitFlight' = commitFlight
      BY DEF remote
    <2> QED
      BY <2>1, <2>2 DEF CommitOut
  <1>3. AskedOnce' /\ AskedWithAll'
    <2>1. AskedOnce'
      BY DEF PromiseInv, AskedOnce, RowOK, remote
    <2>2. Asking' => AfterCheckpoint(row)' /\ \A f \in Files : uploads'[f] \in Delivered
      BY <1>1 DEF RowOK
    <2>3. row'.status = "OA_CREATING" => \A f \in Files : uploads'[f] = "COMMITTED"
      BY DEF RowOK
    <2> QED
      BY <2>1, <2>2, <2>3 DEF AskedWithAll
  <1>4. UncertainIsEarly'
    BY <1>2 DEF UncertainIsEarly, RowOK
  <1>5. NothingLeft'
    <2>1. \A w \in Workers : job'[w].at = "recycled" =>
            uploads'[job'[w].file] \in Recycling /\ dentries'[job'[w].file] = 0
      <3>1. \A w \in Workers : job[w].at = "recycled" => job[w].file \in Files
        BY DEF TypeOK, Jobs, PlainSteps, FileSteps
      <3> QED
        BY <3>1 DEF PromiseInv, NothingLeft, Unwatched, WatchedSteps, remote
    <2> QED
      BY <2>1 DEF NothingLeft, RowOK, remote
  <1>6. Promised
    BY MovePromised DEF remote
  <1> QED
    BY <1>3, <1>4, <1>5, <1>6 DEF Kept, PromiseInv

\* Uploads are the same, but for reservations made and given up before any upload started.
Reserving ==
  \A f \in Files : \/ uploads'[f] = uploads[f]
                   \/ uploads[f] \in Unstarted /\ uploads'[f] \in Unstarted

LEMMA RowKeeps ==
  ASSUME TypeOK, PromiseInv, uploads' = uploads \/ Reserving, UNCHANGED remote, Unwatched,
         RowOK(row'), PhaseMove(row'),
         \A v \in Workers : job'[v].at = "create" /\ Fenced(v)' => row'.status = "OA_CREATING"
  PROVE  Kept
  <1>0. \A f \in Files : \/ uploads'[f] = uploads[f]
                         \/ uploads[f] \in Unstarted /\ uploads'[f] \in Unstarted
    BY DEF Reserving
  <1>1. Asking' => Asking
    BY DEF Asking, Unwatched, WatchedSteps, remote
  <1>2. RowOK(row)'
    BY <1>0, <1>1 DEF RowOK, remote, Unstarted, UncertainStatuses, Recycling, NoRemoteFile
  <1>3. Asking => \A f \in Files : uploads'[f] \in Delivered
    BY <1>0 DEF PromiseInv, AskedWithAll, Delivered, Unstarted
  <1>4. \A f \in Files : /\ CommitOut(f) => uploads'[f] \in UncertainStatuses
                         /\ uploads'[f] \in NoRemoteFile => dentries[f] = 0
                         /\ uploads[f] \in Recycling => uploads'[f] \in Recycling
    BY <1>0 DEF PromiseInv, UncertainIsEarly, NothingLeft, Unstarted, UncertainStatuses,
       NoRemoteFile, Recycling
  <1> QED
    BY <1>2, <1>3, <1>4, LocalKeeps

\* A fenced update of the row keeps the lease or gives it up.
LEMMA SaveKeeps ==
  ASSUME TypeOK, PromiseInv, NEW w \in Workers, NEW r, NEW step, step \notin WatchedSteps,
         Save(w, r, step), r.owner \in {row.owner, None},
         uploads' = uploads \/ Reserving, UNCHANGED remote,
         step = "create" => r.status = "OA_CREATING",
         RowAccepts(r) => RowOK(r) /\ PhaseMove(r)
  PROVE  Kept
  <1>1. /\ \/ row' = row /\ At(w, "idle", 0)
           \/ row' = r /\ RowAccepts(r) /\ At(w, step, 0)
        /\ row.owner = w
    BY DEF Save, Fenced
  <1>2. Unwatched
    BY <1>1, AtUnwatched DEF WatchedSteps
  <1>3. \A v \in Workers : job'[v].at = "create" /\ Fenced(v)' => row'.status = "OA_CREATING"
    <2>1. \A v \in Workers : Fenced(v)' => v = w
      BY <1>1, NoneAssumption DEF Fenced
    <2>2. job'[w].at = "create" => row' = r /\ step = "create"
      BY <1>1 DEF At, TypeOK
    <2> QED
      BY <2>1, <2>2
  <1>4. RowOK(row') /\ PhaseMove(row')
    BY <1>1, RowIsOK
  <1> QED
    BY <1>2, <1>3, <1>4, RowKeeps

\* The status s, with resume status p, agrees with what has been uploaded and asked.
Fits(s, p) ==
  /\ Asking => AfterCheckpoint([status |-> s, resume |-> p])
  /\ s = "OA_CREATING" => \A f \in Files : uploads[f] = "COMMITTED"
  /\ \A f \in Files : uploads[f] \in UncertainStatuses =>
       s \in {"UPLOADING", "MANUAL_REVIEW"} \/ p = "UPLOADING"
  /\ s = "FAILED_FINAL" => \A f \in Files : uploads[f] \in NoRemoteFile
  /\ s \in GeneratingStatuses \/ p \in GeneratingStatuses =>
       \A f \in Files : uploads[f] \in Unstarted

LEMMA FitsOK ==
  ASSUME PromiseInv, NEW r, RowAccepts(r), Fits(r.status, r.resume),
         r.instance = row.instance, r.deadline = row.deadline
  PROVE  RowOK(r)
  BY DEF PromiseInv, AskedOnce, UncertainIsEarly, RowAccepts, CleanupGuard, Recycling,
         Fits, AfterCheckpoint, CreateStarted, RowOK

LEMMA FinishKeeps ==
  ASSUME TypeOK, PromiseInv, NEW w \in Workers, NEW status, UNCHANGED <<uploads, remote>>,
         Finish(w, status) \/ \E step \in QuietSteps : Advance(w, status, step),
         \A r \in Rows : RowAccepts(r) /\ r.status = status /\ r.instance = row.instance
                           => Fits(status, "NONE") /\ PhaseMove(r),
         status \in SubmissionStatus
  PROVE  Kept
  <1>1. PICK r \in Rows, step \in QuietSteps :
               /\ Save(w, r, step)
               /\ r.status = status /\ r.resume = "NONE" /\ r.owner \in {row.owner, None}
               /\ r.instance = row.instance /\ r.deadline = row.deadline
    <2> DEFINE r1 == [row EXCEPT !.status = status, !.resume = "NONE"]
               r2 == Unleased([row EXCEPT !.status = status, !.resume = "NONE"])
    <2>1. /\ r1 \in Rows /\ r1.status = status /\ r1.resume = "NONE" /\ r1.owner \in {row.owner, None}
          /\ r1.instance = row.instance /\ r1.deadline = row.deadline
      BY DEF TypeOK, Rows
    <2>2. /\ r2 \in Rows /\ r2.status = status /\ r2.resume = "NONE" /\ r2.owner \in {row.owner, None}
          /\ r2.instance = row.instance /\ r2.deadline = row.deadline
      BY DEF TypeOK, Rows, Unleased
    <2>3. "idle" \in QuietSteps
      BY DEF QuietSteps
    <2>4. Save(w, r2, "idle") \/ \E step \in QuietSteps : Save(w, r1, step)
      BY DEF Finish, Advance
    <2> HIDE DEF r1, r2
    <2> QED
      BY <2>1, <2>2, <2>3, <2>4
  <1> QED
    BY <1>1, SaveKeeps, FitsOK DEF QuietSteps, WatchedSteps

LEMMA RetryKeeps ==
  ASSUME TypeOK, PromiseInv, NEW w \in Workers, Retry(w),
         uploads' = uploads \/ Reserving, UNCHANGED remote
  PROVE  Kept
  <1> DEFINE r == Unleased([row EXCEPT !.status = "FAILED_RETRYABLE", !.resume = row.status])
  <1>1. /\ r.status = "FAILED_RETRYABLE" /\ r.resume = row.status /\ r.owner = None
        /\ r.instance = row.instance /\ r.deadline = row.deadline
    BY DEF TypeOK, Rows, Unleased
  <1>2. Save(w, r, "idle") /\ row.status \in RetryableStatuses /\ row.resume = "NONE"
    BY DEF Retry, TypeOK, RetryableStatuses
  <1> HIDE DEF r
  <1>3. PhaseMove(r)
    BY <1>1, <1>2 DEF PhaseMove, Closed, RetryableStatuses
  <1>4. RowAccepts(r) => Fits(r.status, r.resume)
    BY <1>1, <1>2 DEF Fits, PromiseInv, AskedWithAll, UncertainIsEarly, NothingLeft,
       AfterCheckpoint, RetryableStatuses, GeneratingStatuses
  <1>5. "idle" \notin WatchedSteps
    BY DEF WatchedSteps
  <1> QED
    BY <1>1, <1>2, <1>3, <1>4, <1>5, SaveKeeps, FitsOK

\* A move between two open statuses.
LEMMA OpenKeeps ==
  ASSUME TypeOK, PromiseInv, NEW w \in Workers, NEW status \in SubmissionStatus \ Closed,
         UNCHANGED <<uploads, remote>>, row.status \notin Closed, Fits(status, "NONE"),
         Finish(w, status) \/ \E step \in QuietSteps : Advance(w, status, step)
  PROVE  Kept
  BY FinishKeeps DEF PhaseMove

\* The row fails for good only when nothing was asked for and nothing is stored.
LEMMA FailKeeps ==
  ASSUME TypeOK, PromiseInv, NEW w \in Workers, UNCHANGED <<uploads, remote>>,
         Finish(w, "FAILED_FINAL"), \A f \in Files : uploads[f] \in NoRemoteFile,
         row.status \in {"VALIDATING", "GENERATING_EXCEL", "UPLOADING", "ORPHAN_CLEANUP"}
  PROVE  Kept
  <1>1. ~Asking /\ row.instance = None
    BY DEF PromiseInv, AskedOnce, AskedWithAll, AfterCheckpoint, TypeOK, Asking
  <1>2. \A f \in Files : dentries[f] = 0
    BY DEF PromiseInv, NothingLeft
  <1>3. Fits("FAILED_FINAL", "NONE")
    BY <1>1 DEF Fits, GeneratingStatuses, UncertainStatuses, NoRemoteFile
  <1>4. \A r \in Rows : r.status = "FAILED_FINAL" /\ r.instance = row.instance => PhaseMove(r)
    BY <1>1, <1>2 DEF PhaseMove, Asking, Closed
  <1> QED
    BY <1>3, <1>4, FinishKeeps DEF SubmissionStatus

\* Giving the row to a person fits everything but a failed row.
LEMMA ReviewFits == Fits("MANUAL_REVIEW", "NONE")
  BY DEF Fits, AfterCheckpoint, GeneratingStatuses

LEMMA EarlyFacts ==
  ASSUME TypeOK, PromiseInv, row.status \in {"QUEUED", "VALIDATING", "GENERATING_EXCEL", "UPLOADING"}
  PROVE  /\ ~Asking
         /\ row.status # "UPLOADING" => \A f \in Files : uploads[f] \in Unstarted
  BY DEF PromiseInv, AskedWithAll, NothingLeft, AfterCheckpoint, TypeOK, GeneratingStatuses

LEMMA PreparingRowKeeps ==
  ASSUME TypeOK, PromiseInv, NEW w \in Workers,
         \/ StartValidation(w) \/ ValidationPasses(w) \/ ValidationRejects(w)
         \/ ValidationUnavailable(w) \/ GenerationPostponed(w) \/ GenerationDone(w)
         \/ PreCreateRefused(w) \/ PreCreateUnavailable(w)
  PROVE  Kept
  <1>0. {"run", "idle"} \subseteq QuietSteps
    BY DEF QuietSteps
  <1>1. CASE StartValidation(w)
    <2>1. row.status = "QUEUED"
      BY <1>1 DEF StartValidation, Running
    <2>2. Fits("VALIDATING", "NONE")
      BY <2>1, EarlyFacts DEF Fits, Unstarted, UncertainStatuses
    <2> QED
      BY <1>0, <1>1, <2>1, <2>2, OpenKeeps DEF StartValidation, SubmissionStatus, Closed
  <1>2. CASE ValidationPasses(w)
    <2>1. row.status = "VALIDATING"
      BY <1>2 DEF ValidationPasses, Running
    <2>2. Fits("GENERATING_EXCEL", "NONE")
      BY <2>1, EarlyFacts DEF Fits, Unstarted, UncertainStatuses
    <2> QED
      BY <1>0, <1>2, <2>1, <2>2, OpenKeeps DEF ValidationPasses, SubmissionStatus, Closed
  <1>3. CASE ValidationRejects(w)
    <2>1. row.status = "VALIDATING"
      BY <1>3 DEF ValidationRejects, Running
    <2>2. \A f \in Files : uploads[f] \in NoRemoteFile
      BY <2>1, EarlyFacts DEF Unstarted, NoRemoteFile
    <2> QED
      BY <1>3, <2>1, <2>2, FailKeeps DEF ValidationRejects
  <1>4. CASE ValidationUnavailable(w) \/ GenerationPostponed(w) \/ PreCreateUnavailable(w)
    BY <1>4, RetryKeeps DEF ValidationUnavailable, GenerationPostponed, PreCreateUnavailable
  <1>5. CASE GenerationDone(w)
    <2>1. row.status = "GENERATING_EXCEL"
      BY <1>5 DEF GenerationDone, Running
    <2>2. Fits("UPLOADING", "NONE")
      BY <2>1, EarlyFacts DEF Fits, GeneratingStatuses
    <2> QED
      BY <1>0, <1>5, <2>1, <2>2, OpenKeeps DEF GenerationDone, SubmissionStatus, Closed
  <1>6. CASE PreCreateRefused(w)
    <2>1. row.status \in {"GENERATING_EXCEL", "UPLOADING"}
      BY <1>6 DEF PreCreateRefused, PreCreateSteps, Running
    <2>2. ~Asking
      BY <2>1, EarlyFacts
    <2>3. CASE PreCreateVerdict = "MANUAL_REVIEW"
      BY <1>6, <2>1, <2>3, ReviewFits, OpenKeeps DEF PreCreateRefused, SubmissionStatus, Closed
    <2>4. CASE PreCreateVerdict = "ORPHAN_CLEANUP"
      <3>1. Fits("ORPHAN_CLEANUP", "NONE")
        BY <2>2, <2>4 DEF Fits, PreCreateVerdict, Doubtful, GeneratingStatuses
      <3> QED
        BY <1>0, <1>6, <2>1, <2>4, <3>1, OpenKeeps DEF PreCreateRefused, SubmissionStatus, Closed
    <2>5. CASE PreCreateVerdict = "FAILED_FINAL"
      <3>1. \A f \in Files : uploads[f] \in NoRemoteFile
        BY <2>5 DEF PreCreateVerdict, Doubtful, TypeOK, UploadStatus, NoRemoteFile, UncertainStatuses
      <3> QED
        BY <1>6, <2>1, <2>5, <3>1, FailKeeps DEF PreCreateRefused
    <2> QED
      BY <2>3, <2>4, <2>5 DEF PreCreateVerdict
  <1> QED
    BY <1>1, <1>2, <1>3, <1>4, <1>5, <1>6

\* Reading the row only, and moving on to a step that tells nothing of the remote side.
LEMMA LookKeeps ==
  ASSUME TypeOK, PromiseInv, UNCHANGED <<row, uploads, remote>>, NEW w \in Workers,
         NEW step \in {"idle", "upload", "link"}, NEW f, At(w, step, f)
  PROVE  Kept
  <1>1. Unwatched
    BY AtUnwatched DEF WatchedSteps
  <1>2. \A v \in Workers : job'[v].at = "create" /\ Fenced(v)' => row'.status = "OA_CREATING"
    BY DEF At, TypeOK, PromiseInv, AskedWithAll, Fenced
  <1> QED
    BY <1>1, <1>2, RowIsOK, RowKeeps DEF RowOK, PhaseMove

LEMMA UploadingRowKeeps ==
  ASSUME Before, NEW w \in Workers,
         \/ BeginUploads(w) \/ \E f \in Files : ProbeExact(w, f) \/ ProbeNotExact(w, f)
         \/ CheckpointOaCreate(w)
  PROVE  Kept
  <1>0. TypeOK /\ PromiseInv
    BY DEF Before, CommitInv
  <1>1. CASE BeginUploads(w) \/ \E f \in Files : ProbeExact(w, f)
    BY <1>0, <1>1, LookKeeps DEF BeginUploads, ProbeExact, local
  <1>2. CASE \E f \in Files : ProbeNotExact(w, f)
    <2>1. row.status # "FAILED_FINAL"
      BY <1>0, <1>2 DEF ProbeNotExact, PromiseInv, NothingLeft, NoRemoteFile
    <2>2. \A r \in Rows : RowAccepts(r) /\ r.status = "MANUAL_REVIEW" /\ r.instance = row.instance
                            => PhaseMove(r)
      BY <2>1 DEF RowAccepts, PhaseMove, Closed
    <2> QED
      BY <1>0, <1>2, <2>2, ReviewFits, FinishKeeps DEF ProbeNotExact, SubmissionStatus
  <1>3. CASE CheckpointOaCreate(w)
    <2> DEFINE r == [row EXCEPT !.status = "OA_CREATING", !.deadline = "open"]
    <2>1. /\ r.status = "OA_CREATING" /\ r.resume = row.resume /\ r.instance = row.instance
          /\ r.owner = row.owner /\ CreateStarted(r)
      BY <1>0 DEF TypeOK, Rows, CreateStarted
    <2>2. /\ Save(w, r, "create") /\ UNCHANGED <<uploads, remote>>
          /\ row.status = "UPLOADING" /\ \A f \in Files : uploads[f] = "COMMITTED"
      BY <1>3 DEF CheckpointOaCreate
    <2> HIDE DEF r
    <2>3. RowAccepts(r) => RowOK(r) /\ PhaseMove(r)
      BY <1>0, <2>1, <2>2 DEF RowOK, PhaseMove, Closed, PromiseInv, AskedOnce, AskedWithAll,
         AfterCheckpoint, UncertainStatuses, Recycling, GeneratingStatuses, TypeOK
    <2> QED
      BY <1>0, <2>1, <2>2, <2>3, SaveKeeps DEF WatchedSteps
  <1> QED
    BY <1>1, <1>2, <1>3

\* The approval that was found is recorded, or the one already recorded is kept.
LEMMA BindKeeps ==
  ASSUME TypeOK, PromiseInv, NEW w \in Workers, UNCHANGED <<uploads, remote>>,
         NEW r, NEW step \in {"run", "link"}, Save(w, r, step),
         row.status \in {"OA_CREATING", "RECONCILING"}, r.status = "VERIFYING",
         r.instance \in oas, r.owner = row.owner, r.resume = row.resume, r.deadline = row.deadline
  PROVE  Kept
  <1>1. r.instance # None
    BY NoneAssumption DEF TypeOK
  <1>2. RowAccepts(r) => RowOK(r)
    <2>1. row.resume = "NONE"
      BY DEF TypeOK
    <2>2. \A f \in Files : uploads[f] \notin UncertainStatuses
      BY <2>1 DEF PromiseInv, UncertainIsEarly
    <2> QED
      BY <1>1, <2>1, <2>2 DEF RowOK, AfterCheckpoint, RowAccepts, CleanupGuard, Recycling,
         GeneratingStatuses
  <1>3. RowAccepts(r) => PhaseMove(r)
    BY DEF RowAccepts, PhaseMove, Closed
  <1> QED
    BY <1>2, <1>3, SaveKeeps DEF WatchedSteps

LEMMA CreatingRowKeeps ==
  ASSUME TypeOK, PromiseInv, NEW w \in Workers,
         RecordCreated(w) \/ CreateOutcomeUnknown(w) \/ ReleaseLease(w)
  PROVE  Kept
  <1>1. CASE RecordCreated(w)
    <2> DEFINE r == [row EXCEPT !.status = "VERIFYING", !.instance = oaBorn]
    <2>1. /\ r.status = "VERIFYING" /\ r.instance = oaBorn
          /\ r.owner = row.owner /\ r.resume = row.resume /\ r.deadline = row.deadline
      BY DEF TypeOK, Rows
    <2>2. /\ Save(w, r, "run") /\ UNCHANGED <<uploads, remote>>
          /\ row.status \in {"OA_CREATING", "RECONCILING"} /\ oaBorn \in oas
      BY <1>1 DEF RecordCreated, PromiseInv, AskedOnce
    <2> HIDE DEF r
    <2> QED
      BY <2>1, <2>2, BindKeeps
  <1>2. CASE CreateOutcomeUnknown(w)
    <2>1. Fits("RECONCILING", "NONE")
      BY <1>2 DEF CreateOutcomeUnknown, Fits, AfterCheckpoint, PromiseInv, AskedWithAll,
         UncertainStatuses, GeneratingStatuses
    <2> QED
      BY <1>2, <2>1, OpenKeeps DEF CreateOutcomeUnknown, QuietSteps, SubmissionStatus, Closed
  <1>3. CASE ReleaseLease(w)
    <2> DEFINE r == Unleased(row)
    <2>1. /\ r.status = row.status /\ r.instance = row.instance /\ r.owner = None
          /\ r.resume = row.resume /\ r.deadline = row.deadline
      BY DEF Unleased, TypeOK, Rows
    <2>2. Save(w, r, "idle") /\ UNCHANGED <<uploads, remote>>
      BY <1>3 DEF ReleaseLease
    <2> HIDE DEF r
    <2>3. RowOK(r) /\ PhaseMove(r)
      BY <2>1, RowIsOK DEF RowOK, PhaseMove, CreateStarted, AfterCheckpoint
    <2> QED
      BY <2>1, <2>2, <2>3, SaveKeeps DEF WatchedSteps
  <1> QED
    BY <1>1, <1>2, <1>3

LEMMA ResolvingRowKeeps ==
  ASSUME TypeOK, PromiseInv, NEW w \in Workers,
         \/ \E i \in Instances : ReconcileFinds(w, i)
         \/ ReconcileAmbiguous(w) \/ ReconcileLater(w) \/ ReconcileExpires(w)
         \/ VerifyUnavailable(w) \/ VerifyMismatch(w) \/ VerifyMatch(w) \/ MarkSubmitted(w)
  PROVE  Kept
  <1>1. CASE \E i \in Instances : ReconcileFinds(w, i)
    <2>1. PICK i \in Instances : ReconcileFinds(w, i)
      BY <1>1
    <2> DEFINE r == [row EXCEPT !.status = "VERIFYING", !.instance = i]
    <2>2. /\ r.status = "VERIFYING" /\ r.instance = i
          /\ r.owner = row.owner /\ r.resume = row.resume /\ r.deadline = row.deadline
      BY DEF TypeOK, Rows
    <2>3. /\ Save(w, r, "link") /\ UNCHANGED <<uploads, remote>>
          /\ row.status = "RECONCILING" /\ i \in oas
      BY <2>1 DEF ReconcileFinds, Running
    <2> HIDE DEF r
    <2> QED
      BY <2>2, <2>3, BindKeeps
  <1>2. CASE ReconcileAmbiguous(w) \/ ReconcileExpires(w) \/ VerifyMismatch(w)
    BY <1>2, ReviewFits, OpenKeeps DEF ReconcileAmbiguous, ReconcileExpires, VerifyMismatch, Running,
       SubmissionStatus, Closed
  <1>3. CASE ReconcileLater(w)
    <2>1. row.status = "RECONCILING" /\ row.resume = "NONE"
      BY <1>3 DEF ReconcileLater, Running, TypeOK
    <2>2. Fits("RECONCILING", "NONE")
      BY <2>1 DEF Fits, AfterCheckpoint, PromiseInv, UncertainIsEarly, GeneratingStatuses
    <2> QED
      BY <1>3, <2>1, <2>2, OpenKeeps DEF ReconcileLater, SubmissionStatus, Closed
  <1>4. CASE VerifyUnavailable(w)
    BY <1>4, RetryKeeps DEF VerifyUnavailable
  <1>5. CASE VerifyMatch(w)
    BY <1>5, LookKeeps DEF VerifyMatch, local
  <1>6. CASE MarkSubmitted(w)
    <2>1. /\ row.status = "VERIFYING" /\ \A f \in Files : uploads[f] = "LINKED"
          /\ Finish(w, "SUBMITTED") /\ UNCHANGED <<uploads, remote>>
      BY <1>6 DEF MarkSubmitted
    <2>2. Fits("SUBMITTED", "NONE")
      BY <2>1 DEF Fits, AfterCheckpoint, UncertainStatuses, GeneratingStatuses
    <2>3. \A r \in Rows : RowAccepts(r) /\ r.status = "SUBMITTED" /\ r.instance = row.instance
                            => PhaseMove(r)
      BY <2>1 DEF RowAccepts, PhaseMove, Closed, PromiseInv, AskedOnce
    <2> QED
      BY <2>1, <2>2, <2>3, FinishKeeps DEF SubmissionStatus
  <1> QED
    BY <1>1, <1>2, <1>3, <1>4, <1>5, <1>6

LEMMA CleaningUpRowKeeps ==
  ASSUME TypeOK, PromiseInv, NEW w \in Workers,
         RecycleUnavailable(w) \/ RecycleRefused(w) \/ CompleteOrphanCleanup(w)
  PROVE  Kept
  <1>1. CASE RecycleUnavailable(w)
    BY <1>1, RetryKeeps DEF RecycleUnavailable
  <1>2. CASE RecycleRefused(w)
    BY <1>2, ReviewFits, OpenKeeps DEF RecycleRefused, SubmissionStatus, Closed
  <1>3. CASE CompleteOrphanCleanup(w)
    BY <1>3, FailKeeps DEF CompleteOrphanCleanup, Running
  <1> QED
    BY <1>1, <1>2, <1>3

LEMMA ClaimKeeps ==
  ASSUME TypeOK, PromiseInv, NEW w \in Workers, Claim(w) \/ Crash(w) \/ Conflict(w)
  PROVE  Kept
  <1>1. CASE Crash(w) \/ Conflict(w)
    BY <1>1, LookKeeps DEF Crash, Conflict, local
  <1>2. CASE Claim(w)
    <2>1. /\ row'.status = EffectiveStatus /\ row'.resume = "NONE" /\ row'.owner = w
          /\ row'.instance = row.instance /\ row'.deadline = row.deadline
          /\ RowAccepts(row') /\ At(w, "run", 0) /\ UNCHANGED <<uploads, remote>>
      BY <1>2 DEF Claim, TypeOK, Rows
    <2>2. \/ row.status = row'.status /\ row.resume = "NONE"
          \/ row.status = "FAILED_RETRYABLE" /\ row.resume = row'.status
      BY <2>1 DEF EffectiveStatus, TypeOK
    <2>3. row'.status \in (ClaimableStatuses \cup RetryableStatuses) \ {"FAILED_RETRYABLE"}
      BY <1>2, <2>1 DEF Claim, EffectiveStatus, TypeOK, Rows, RetryableStatuses
    <2>4. Fits(row'.status, row'.resume)
      BY <2>1, <2>2, <2>3
         DEF Fits, AfterCheckpoint, PromiseInv, AskedWithAll, UncertainIsEarly, NothingLeft,
             GeneratingStatuses, ClaimableStatuses, RetryableStatuses
    <2>5. PhaseMove(row')
      BY <2>1, <2>2, <2>3 DEF PhaseMove, Closed, ClaimableStatuses, RetryableStatuses
    <2>6. job'[w].at = "run" /\ \A v \in Workers \ {w} : job'[v] = job[v]
      BY <2>1 DEF At, TypeOK
    <2>7. Unwatched
      BY <2>6 DEF Unwatched, WatchedSteps
    <2> QED
      BY <2>1, <2>4, <2>5, <2>6, <2>7, FitsOK, RowKeeps DEF Fenced
  <1> QED
    BY <1>1, <1>2

\* An update of the row by somebody who is not a worker and takes no lease.
LEMMA OutsideKeeps ==
  ASSUME TypeOK, PromiseInv, UNCHANGED <<uploads, job, remote>>, RowOK(row'), PhaseMove(row'),
         \/ ~LeaseHeld' \/ (row.owner = None /\ row'.owner = None)
         \/ row'.owner = row.owner /\ row'.live = row.live /\ row'.status = row.status
  PROVE  Kept
  <1>1. \A v \in Workers : job'[v].at = "create" /\ Fenced(v)' => row'.status = "OA_CREATING"
    BY NoneAssumption DEF LeaseHeld, Fenced, PromiseInv, AskedWithAll
  <1> QED
    BY <1>1, RowKeeps DEF Unwatched

LEMMA OutsideRowKeeps ==
  ASSUME TypeOK, PromiseInv, ~AdminMayErr,
         \/ RecoverLostCreate \/ LeaseExpires \/ DeadlinePasses \/ RequestRecheck
         \/ \E i \in Instances : AdminAttachesInstance(i)
  PROVE  Kept
  <1>1. CASE RecoverLostCreate
    <2>1. /\ row.status = "OA_CREATING" /\ row.resume = "NONE"
          /\ row'.status = "RECONCILING" /\ row'.resume = "NONE" /\ row'.owner = None
          /\ row'.instance = row.instance /\ row'.deadline = row.deadline
          /\ UNCHANGED <<uploads, job, remote>>
      BY <1>1 DEF RecoverLostCreate, Unleased, TypeOK, Rows
    <2>2. RowOK(row')
      BY <2>1, RowIsOK DEF RowOK, AfterCheckpoint, CreateStarted, GeneratingStatuses
    <2> QED
      BY <2>1, <2>2, OutsideKeeps DEF PhaseMove, Closed, LeaseHeld
  <1>2. CASE LeaseExpires \/ DeadlinePasses
    <2>1. /\ row'.status = row.status /\ row'.resume = row.resume /\ row'.owner = row.owner
          /\ row'.instance = row.instance /\ (CreateStarted(row') <=> CreateStarted(row))
          /\ row'.live = row.live \/ ~row'.live
          /\ UNCHANGED <<uploads, job, remote>>
      BY <1>2 DEF LeaseExpires, DeadlinePasses, CreateStarted, TypeOK, Rows
    <2>2. RowOK(row')
      BY <2>1, RowIsOK DEF RowOK, AfterCheckpoint
    <2> QED
      BY <2>1, <2>2, OutsideKeeps DEF PhaseMove, LeaseHeld
  <1>3. CASE RequestRecheck \/ \E i \in Instances : AdminAttachesInstance(i)
    <2>1. /\ row.status = "MANUAL_REVIEW" /\ row.owner = None /\ CreateStarted(row)
          /\ row'.status = "VERIFYING" /\ row'.resume = "NONE" /\ row'.owner = None
          /\ row'.deadline = row.deadline /\ RowAccepts(row')
          /\ row'.instance \in oas /\ (row.instance # None => row'.instance = row.instance)
          /\ UNCHANGED <<uploads, job, remote>>
      BY <1>3 DEF RequestRecheck, AdminAttachesInstance, TypeOK, Rows, PromiseInv, AskedOnce
    <2>2. row'.instance # None
      BY <2>1, NoneAssumption DEF TypeOK
    <2>3. RowOK(row')
      BY <2>1, <2>2, RowIsOK DEF RowOK, AfterCheckpoint, CreateStarted, RowAccepts, CleanupGuard,
         Recycling, GeneratingStatuses
    <2> QED
      BY <2>1, <2>3, OutsideKeeps DEF PhaseMove, Closed
  <1> QED
    BY <1>1, <1>2, <1>3

-----------------------------------------------------------------------------
(* Steps that change uploads *)

\* One upload changes while the row and the remote files stay.
LEMMA UploadKeeps ==
  ASSUME TypeOK, PromiseInv, row' = row, UNCHANGED <<oaSide, dentries>>,
         NEW f \in Files, NEW to, uploads' = [uploads EXCEPT ![f] = to],
         \A v \in Workers : job'[v].at \in {"create", "send"} => job'[v] = job[v],
         \A v \in Workers : job'[v].at = "recycled" =>
           job'[v] = job[v] /\ (job[v].file = f => to \in Recycling),
         \A g \in Files \ {f} : CommitOut(g)' => CommitOut(g),
         CommitOut(f)' => to \in UncertainStatuses,
         to \in UncertainStatuses => ~CreateStarted(row) /\ row.status = "UPLOADING",
         to \in NoRemoteFile => dentries[f] = 0,
         to \in Recycling => row.status = "ORPHAN_CLEANUP",
         Asking => to \in Delivered,
         row.status = "OA_CREATING" => to = "COMMITTED",
         row.status = "FAILED_FINAL" => to \in NoRemoteFile,
         row.status \in GeneratingStatuses \/ row.resume \in GeneratingStatuses => to \in Unstarted
  PROVE  Kept
  <1>1. uploads'[f] = to /\ \A g \in Files \ {f} : uploads'[g] = uploads[g]
    BY DEF TypeOK
  <1>2. Asking' => Asking
    BY DEF Asking, oaSide
  <1>3. AskedOnce'
    BY DEF PromiseInv, AskedOnce, oaSide
  <1>4. AskedWithAll'
    <2>1. Asking' => AfterCheckpoint(row') /\ \A g \in Files : uploads'[g] \in Delivered
      BY <1>1, <1>2 DEF PromiseInv, AskedWithAll
    <2>2. row'.status = "OA_CREATING" => \A g \in Files : uploads'[g] = "COMMITTED"
      BY <1>1 DEF PromiseInv, AskedWithAll
    <2>3. \A v \in Workers : job'[v].at = "create" /\ Fenced(v)' => row'.status = "OA_CREATING"
      BY DEF PromiseInv, AskedWithAll, Fenced
    <2> QED
      BY <2>1, <2>2, <2>3 DEF AskedWithAll
  <1>5. UncertainIsEarly'
    BY <1>1 DEF PromiseInv, UncertainIsEarly
  <1>6. NothingLeft'
    <2>1. \A g \in Files : /\ uploads'[g] \in NoRemoteFile => dentries'[g] = 0
                           /\ uploads'[g] \in Recycling => row'.status \in {"ORPHAN_CLEANUP", "FAILED_FINAL"}
      BY <1>1 DEF PromiseInv, NothingLeft
    <2>2. \A v \in Workers : job'[v].at = "recycled" =>
             uploads'[job'[v].file] \in Recycling /\ dentries'[job'[v].file] = 0
      <3>1. \A v \in Workers : job[v].at = "recycled" => job[v].file \in Files
        BY DEF TypeOK, Jobs, PlainSteps, FileSteps
      <3> QED
        BY <1>1, <3>1 DEF PromiseInv, NothingLeft
    <2>3. row'.status = "FAILED_FINAL" => \A g \in Files : uploads'[g] \in NoRemoteFile
      BY <1>1 DEF PromiseInv, NothingLeft
    <2>4. row'.status \in GeneratingStatuses \/ row'.resume \in GeneratingStatuses =>
             \A g \in Files : uploads'[g] \in Unstarted
      BY <1>1 DEF PromiseInv, NothingLeft
    <2> QED
      BY <2>1, <2>2, <2>3, <2>4 DEF NothingLeft
  <1>7. Promised
    BY MovePromised DEF PhaseMove, oaSide
  <1> QED
    BY <1>3, <1>4, <1>5, <1>6, <1>7 DEF Kept, PromiseInv

\* Making a reservation, filling it or giving it up.
LEMMA ReserveKeeps ==
  ASSUME TypeOK, PromiseInv, row' = row, UNCHANGED remote,
         NEW f \in Files, uploads[f] \in Unstarted, NEW to \in Unstarted,
         uploads' = [uploads EXCEPT ![f] = to],
         job' = job \/ \E w \in Workers : \E step \in {"write", "run"} : \E g : At(w, step, g)
  PROVE  Kept
  <1>1. Reserving
    BY DEF Reserving, TypeOK
  <1>2. Unwatched
    BY AtUnwatched DEF WatchedSteps, Unwatched
  <1>3. \A v \in Workers : job'[v].at = "create" /\ Fenced(v)' => row'.status = "OA_CREATING"
    BY DEF At, TypeOK, PromiseInv, AskedWithAll, Fenced
  <1> QED
    BY <1>1, <1>2, <1>3, RowIsOK, RowKeeps DEF PhaseMove

LEMMA GeneratingKeeps ==
  ASSUME TypeOK, PromiseInv,
         \/ \E f \in Files : ReclaimReservation(f)
         \/ \E w \in Workers : \/ \E f \in Files : RemoveDiscarded(w, f) \/ ReserveGenerated(w, f)
                               \/ FinalizeGenerated(w) \/ GenerateFails(w)
  PROVE  Kept
  <1>1. CASE \E f \in Files : ReclaimReservation(f)
    BY <1>1, ReserveKeeps DEF ReclaimReservation, Unstarted
  <1>2. CASE \E w \in Workers, f \in Files : RemoveDiscarded(w, f) \/ ReserveGenerated(w, f)
    BY <1>2, ReserveKeeps DEF RemoveDiscarded, ReserveGenerated, SaveUpload, Unstarted
  <1>3. CASE \E w \in Workers : FinalizeGenerated(w)
    <2>1. PICK w \in Workers : FinalizeGenerated(w)
      BY <1>3
    <2>2. job[w].file \in Files
      BY <2>1 DEF FinalizeGenerated, TypeOK, Jobs, PlainSteps, FileSteps
    <2> QED
      BY <2>1, <2>2, ReserveKeeps DEF FinalizeGenerated, SaveUpload, Unstarted
  <1>4. CASE \E w \in Workers : GenerateFails(w)
    <2>1. PICK w \in Workers : GenerateFails(w)
      BY <1>4
    <2>2. uploads' = uploads \/ Reserving
      BY <2>1 DEF GenerateFails, Reserving, Unstarted, TypeOK
    <2> QED
      BY <2>1, <2>2, RetryKeeps DEF GenerateFails
  <1> QED
    BY <1>1, <1>2, <1>3, <1>4

\* An uploading row has asked for nothing, and recycles nothing.
LEMMA UploadingFacts ==
  ASSUME Before, row.status = "UPLOADING"
  PROVE  /\ ~Asking /\ ~CreateStarted(row) /\ row.resume = "NONE"
         /\ \A f \in Files : uploads[f] \notin Recycling
  BY DEF Before, CommitInv, CheckpointPassedOnce, BeforeCreate, PromiseInv, AskedWithAll,
     NothingLeft, AfterCheckpoint, TypeOK

LEMMA CommitStays ==
  ASSUME commitFlight' = commitFlight, NEW w \in Workers, NEW step, step # "commit", NEW at,
         job'[w] = [at |-> step, file |-> at], \A v \in Workers \ {w} : job'[v] = job[v]
  PROVE  \A g \in Files : CommitOut(g)' => CommitOut(g)
  <1>1. \A g \in Files, v \in Workers :
          job'[v] = [at |-> "commit", file |-> g] => job[v] = [at |-> "commit", file |-> g]
    <2>1. job'[w].at # "commit"
      OBVIOUS
    <2> QED
      BY <2>1
  <1> QED
    BY <1>1 DEF CommitOut

LEMMA PutKeeps ==
  ASSUME Before, NEW w \in Workers,
         (\E f \in Files : BeginUploadPut(w, f)) \/ RecordUploadPutDone(w)
  PROVE  Kept
  <1>1. PICK f \in Files, to \in {"PUTTING", "PUT_DONE"}, step \in {"put", "putDone"} :
               /\ SaveUpload(w, f, "UPLOADING", {"PENDING", "PUTTING", "PUT_DONE"}, to)
               /\ At(w, step, f) /\ UNCHANGED <<row, remote>>
    <2>1. RecordUploadPutDone(w) => job[w].file \in Files
      BY DEF RecordUploadPutDone, Before, CommitInv, TypeOK, Jobs, PlainSteps, FileSteps
    <2> QED
      BY <2>1 DEF BeginUploadPut, RecordUploadPutDone, SaveUpload
  <1>2. /\ TypeOK /\ PromiseInv /\ row.status = "UPLOADING"
        /\ uploads[f] \in {"PENDING", "PUTTING", "PUT_DONE"}
        /\ uploads' = [uploads EXCEPT ![f] = to]
        /\ row' = row /\ UNCHANGED <<oaSide, dentries, commitFlight>>
    BY <1>1 DEF Before, CommitInv, SaveUpload, remote, oaSide
  <1>3. job'[w] = [at |-> step, file |-> f] /\ \A v \in Workers \ {w} : job'[v] = job[v]
    BY <1>1, <1>2 DEF At, TypeOK
  <1>4. \A g \in Files : CommitOut(g)' => CommitOut(g)
    BY <1>2, <1>3, CommitStays
  <1>5. ~CommitOut(f)
    BY <1>2 DEF PromiseInv, UncertainIsEarly, UncertainStatuses
  <1>6. \A v \in Workers : job'[v].at = "recycled" => job'[v] = job[v] /\ job[v].file # f
    BY <1>2, <1>3 DEF PromiseInv, NothingLeft, Recycling
  <1>7. dentries[f] = 0
    BY <1>2 DEF PromiseInv, NothingLeft, NoRemoteFile
  <1>8. to \notin UncertainStatuses \cup Recycling
    BY DEF UncertainStatuses, Recycling
  <1>9. /\ ~Asking
        /\ row.status \notin GeneratingStatuses /\ row.resume \notin GeneratingStatuses
    BY <1>2, UploadingFacts DEF GeneratingStatuses
  <1>10. \A v \in Workers : job'[v].at \in {"create", "send"} => job'[v] = job[v]
    BY <1>3
  <1> QED
    BY <1>2, <1>4, <1>5, <1>6, <1>7, <1>8, <1>9, <1>10, UploadKeeps

LEMMA CommitKeeps ==
  ASSUME Before, NEW w \in Workers,
         BeginUploadCommit(w) \/ RecordUploadCommitted(w) \/ CommitRejected(w)
  PROVE  Kept
  <1>0. TypeOK /\ PromiseInv /\ CommitStartedOnce /\ AtMostOneDentry
    BY DEF Before, CommitInv
  <1>1. PICK f \in Files : f = job[w].file
    BY <1>0 DEF BeginUploadCommit, RecordUploadCommitted, CommitRejected, TypeOK, Jobs, PlainSteps,
       FileSteps
  <1>2. /\ row.status = "UPLOADING" /\ row' = row /\ UNCHANGED <<oaSide, dentries>>
        /\ uploads[f] \in {"PUT_DONE", "COMMITTING"}
    BY <1>1 DEF BeginUploadCommit, RecordUploadCommitted, CommitRejected, SaveUpload, remote, oaSide
  <1>3. PICK to, step, at :
               /\ uploads' = [uploads EXCEPT ![f] = to]
               /\ At(w, step, at)
               /\ \/ to = "COMMITTING" /\ step = "commit" /\ at = f
                  \/ to = "COMMITTED" /\ step = "upload"
                  \/ to = "PENDING" /\ step = "rejected"
    BY <1>1 DEF BeginUploadCommit, RecordUploadCommitted, CommitRejected, SaveUpload
  <1>4. job'[w] = [at |-> step, file |-> at] /\ \A v \in Workers \ {w} : job'[v] = job[v]
    BY <1>0, <1>3 DEF At, TypeOK
  <1>5. \A g \in Files \ {f} : CommitOut(g)' => CommitOut(g)
    <2>1. \A g \in Files \ {f} : commitFlight'[g] = commitFlight[g]
      BY <1>0, <1>1 DEF BeginUploadCommit, RecordUploadCommitted, CommitRejected, remote, TypeOK
    <2> QED
      BY <1>3, <1>4, <2>1 DEF CommitOut
  <1>6. CommitOut(f)' => to = "COMMITTING"
    <2>1. CASE BeginUploadCommit(w)
      BY <1>0, <1>1, <1>3, <2>1 DEF BeginUploadCommit, SaveUpload, TypeOK
    <2>2. CASE RecordUploadCommitted(w) \/ CommitRejected(w)
      <3>1. ~commitFlight'[f] /\ (dentries[f] > 0 \/ commitFlight[f])
        BY <1>0, <1>1, <2>2 DEF RecordUploadCommitted, CommitRejected, remote, TypeOK
      <3>2. \A v \in Workers : job[v] # [at |-> "commit", file |-> f]
        BY <1>0, <1>1, <3>1 DEF CommitStartedOnce
      <3>3. job'[w].at # "commit"
        BY <1>0, <2>2 DEF RecordUploadCommitted, CommitRejected, At, TypeOK
      <3> QED
        BY <1>4, <3>1, <3>2, <3>3 DEF CommitOut
    <2> QED
      BY <2>1, <2>2
  <1>7. to \in NoRemoteFile => dentries[f] = 0
    <2>1. to \in NoRemoteFile => CommitRejected(w)
      BY <1>0, <1>1, <1>3 DEF BeginUploadCommit, RecordUploadCommitted, SaveUpload, TypeOK,
         NoRemoteFile
    <2>2. dentries[f] \in 0..2 /\ dentries[f] + (IF commitFlight[f] THEN 1 ELSE 0) <= 1
      BY <1>0, <1>1 DEF TypeOK, MaxDentries, AtMostOneDentry
    <2> QED
      BY <1>1, <2>1, <2>2 DEF CommitRejected
  <1>8. \A v \in Workers : job'[v].at = "recycled" => job'[v] = job[v] /\ job[v].file # f
    BY <1>0, <1>2, <1>3, <1>4 DEF PromiseInv, NothingLeft, Recycling
  <1> QED
    <2>1. /\ to \in UncertainStatuses <=> to = "COMMITTING"
          /\ to \notin Recycling
      BY <1>3 DEF UncertainStatuses, Recycling
    <2>2. /\ ~Asking /\ ~CreateStarted(row)
          /\ row.status \notin GeneratingStatuses /\ row.resume \notin GeneratingStatuses
      BY <1>2, UploadingFacts DEF GeneratingStatuses
    <2>3. \A v \in Workers : job'[v].at \in {"create", "send"} => job'[v] = job[v]
      BY <1>3, <1>4
    <2> QED
      BY <1>0, <1>2, <1>3, <1>5, <1>6, <1>7, <1>8, <2>1, <2>2, <2>3, UploadKeeps

LEMMA LinkKeeps ==
  ASSUME TypeOK, PromiseInv, NEW w \in Workers, NEW f \in Files, MarkUploadLinked(w, f)
  PROVE  Kept
  <1>1. /\ row.status = "VERIFYING" /\ row.resume = "NONE"
        /\ uploads[f] = "COMMITTED" /\ uploads' = [uploads EXCEPT ![f] = "LINKED"]
        /\ row' = row /\ job' = job /\ UNCHANGED <<oaSide, dentries, commitFlight>>
    BY DEF MarkUploadLinked, SaveUpload, TypeOK, remote, oaSide
  <1>2. \A g \in Files : CommitOut(g)' => CommitOut(g)
    BY <1>1 DEF CommitOut
  <1>3. ~CommitOut(f)
    BY <1>1 DEF PromiseInv, UncertainIsEarly, UncertainStatuses
  <1>4. \A v \in Workers : job[v].at = "recycled" => job[v].file # f
    BY <1>1 DEF PromiseInv, NothingLeft, Recycling
  <1> QED
    BY <1>1, <1>2, <1>3, <1>4, UploadKeeps
       DEF UncertainStatuses, Recycling, NoRemoteFile, Delivered, GeneratingStatuses

LEMMA CleanKeeps ==
  ASSUME TypeOK, PromiseInv, NEW w \in Workers,
         (\E f \in Files : BeginUploadCleanup(w, f)) \/ RecordUploadCleaned(w)
  PROVE  Kept
  <1>0. job[w].at = "recycled" => job[w].file \in Files
    BY DEF TypeOK, Jobs, PlainSteps, FileSteps
  <1>1. PICK f, to, step, at :
               /\ f \in Files /\ to \in Recycling /\ step \in {"recycle", "run"}
               /\ uploads' = [uploads EXCEPT ![f] = to] /\ At(w, step, at)
               /\ to = "CLEANED" => dentries[f] = 0
               /\ uploads[f] \in {"COMMITTED", "CLEANUP_PENDING"}
    BY <1>0 DEF BeginUploadCleanup, RecordUploadCleaned, SaveUpload, Recycling, PromiseInv,
       NothingLeft
  <1>2. /\ row.status = "ORPHAN_CLEANUP" /\ row.resume = "NONE"
        /\ row' = row /\ UNCHANGED <<oaSide, dentries, commitFlight>>
    BY DEF BeginUploadCleanup, RecordUploadCleaned, SaveUpload, TypeOK, remote, oaSide
  <1>3. job'[w] = [at |-> step, file |-> at] /\ \A v \in Workers \ {w} : job'[v] = job[v]
    BY <1>1 DEF At, TypeOK
  <1>4. \A g \in Files : CommitOut(g)' => CommitOut(g)
    BY <1>1, <1>2, <1>3, CommitStays
  <1>5. ~CommitOut(f)
    BY <1>1 DEF PromiseInv, UncertainIsEarly, UncertainStatuses
  <1>6. ~Asking
    BY <1>2 DEF PromiseInv, AskedWithAll, AfterCheckpoint
  <1> QED
    <2>1. /\ to \notin UncertainStatuses
          /\ to \in NoRemoteFile => to = "CLEANED"
          /\ row.status \notin GeneratingStatuses /\ row.resume \notin GeneratingStatuses
      BY <1>1, <1>2 DEF UncertainStatuses, Recycling, NoRemoteFile, GeneratingStatuses
    <2>2. \A v \in Workers : /\ job'[v].at \in {"create", "send"} => job'[v] = job[v]
                             /\ job'[v].at = "recycled" => job'[v] = job[v]
      BY <1>1, <1>3
    <2> QED
      BY <1>1, <1>2, <1>4, <1>5, <1>6, <2>1, <2>2, UploadKeeps

\* A commit whose outcome is unknown goes to a person together with the row.
LEMMA UnknownKeeps ==
  ASSUME Before, row.status = "UPLOADING",
         row'.status = "MANUAL_REVIEW", row'.resume = "NONE", row'.owner = None,
         row'.instance = row.instance, row'.deadline = row.deadline, UNCHANGED remote, Unwatched,
         \A g \in Files : \/ uploads'[g] = uploads[g]
                          \/ uploads[g] \in UncertainStatuses /\ uploads'[g] \in UncertainStatuses
  PROVE  Kept
  <1>0. TypeOK /\ PromiseInv
    BY DEF Before, CommitInv
  <1>1. ~Asking /\ ~Asking'
    BY UploadingFacts DEF Asking, Unwatched, WatchedSteps, remote
  <1>2. RowOK(row)'
    <2>1. \A g \in Files : uploads'[g] \notin Recycling
      BY UploadingFacts DEF UncertainStatuses, Recycling
    <2>2. ~CreateStarted(row')
      BY UploadingFacts DEF CreateStarted
    <2> QED
      BY <1>0, <1>1, <2>1, <2>2
         DEF RowOK, PromiseInv, AskedOnce, GeneratingStatuses, remote
  <1>3. PhaseMove(row')
    BY DEF PhaseMove, Closed
  <1>4. \A v \in Workers : ~Fenced(v)'
    BY NoneAssumption DEF Fenced
  <1>5. \A g \in Files : /\ CommitOut(g) => uploads'[g] \in UncertainStatuses
                         /\ uploads'[g] \in NoRemoteFile => dentries[g] = 0
                         /\ uploads[g] \in Recycling => uploads'[g] \in Recycling
    BY <1>0 DEF PromiseInv, UncertainIsEarly, NothingLeft, UncertainStatuses, NoRemoteFile, Recycling
  <1> QED
    BY <1>0, <1>1, <1>2, <1>3, <1>4, <1>5, LocalKeeps

LEMMA UnknownCommitKeeps ==
  ASSUME Before, RecoverLostCommit \/ \E w \in Workers : CommitOutcomeUnknown(w)
  PROVE  Kept
  <1>0. TypeOK
    BY DEF Before, CommitInv
  <1>1. CASE RecoverLostCommit
    <2>1. /\ row.status = "UPLOADING" /\ row'.status = "MANUAL_REVIEW" /\ row'.resume = "NONE"
          /\ row'.owner = None /\ row'.instance = row.instance /\ row'.deadline = row.deadline
          /\ UNCHANGED <<job, remote>>
      BY <1>0, <1>1 DEF RecoverLostCommit, NeedsRecovery, Unleased, TypeOK, Rows
    <2>2. \A g \in Files : \/ uploads'[g] = uploads[g]
                           \/ uploads[g] \in UncertainStatuses /\ uploads'[g] \in UncertainStatuses
      BY <1>1 DEF RecoverLostCommit, UncertainStatuses
    <2> QED
      BY <2>1, <2>2, UnknownKeeps DEF Unwatched
  <1>2. ASSUME NEW w \in Workers, CommitOutcomeUnknown(w)
        PROVE  Kept
    <2>1. /\ row.status = "UPLOADING" /\ row'.status = "MANUAL_REVIEW" /\ row'.resume = "NONE"
          /\ row'.owner = None /\ row'.instance = row.instance /\ row'.deadline = row.deadline
          /\ UNCHANGED remote /\ At(w, "idle", 0)
      BY <1>0, <1>2 DEF CommitOutcomeUnknown, SaveUpload, Unleased, TypeOK, Rows
    <2>2. \A g \in Files : \/ uploads'[g] = uploads[g]
                           \/ uploads[g] \in UncertainStatuses /\ uploads'[g] \in UncertainStatuses
      BY <1>0, <1>2 DEF CommitOutcomeUnknown, SaveUpload, UncertainStatuses, TypeOK
    <2>3. Unwatched
      BY <1>0, <2>1, AtUnwatched DEF WatchedSteps
    <2> QED
      BY <2>1, <2>2, <2>3, UnknownKeeps
  <1> QED
    BY <1>1, <1>2

\* An administrator who establishes that nothing was created turns uncertain uploads into
\* ones without a file, which is what they are.
LEMMA ConfirmKeeps ==
  ASSUME TypeOK, PromiseInv, ~AdminMayErr, AdminConfirmsNotCreated
  PROVE  Kept
  <1>1. /\ row.status = "MANUAL_REVIEW" /\ row'.status = "ORPHAN_CLEANUP" /\ row'.resume = "NONE"
        /\ row.instance = None /\ row'.instance = None /\ row'.owner = None
        /\ UNCHANGED <<job, remote>>
    BY DEF AdminConfirmsNotCreated, TypeOK, Rows
  <1>2. \A g \in Files : uploads'[g] = IF uploads[g] \in UncertainStatuses THEN "PENDING"
                                                                        ELSE uploads[g]
    BY DEF AdminConfirmsNotCreated
  <1>3. NothingCreated
    BY DEF AdminConfirmsNotCreated
  <1>4. ~Asking /\ ~Asking'
    BY <1>1, <1>3 DEF NothingCreated, Asking, remote
  <1>5. \A g \in Files : uploads'[g] \notin UncertainStatuses
    BY <1>2 DEF UncertainStatuses
  <1>6. RowOK(row)'
    BY <1>1, <1>4, <1>5 DEF RowOK, GeneratingStatuses
  <1>7. \A g \in Files : CommitOut(g) => uploads'[g] \in UncertainStatuses
    BY <1>3 DEF NothingCreated, CommitOut, PromiseInv, UncertainIsEarly
  <1>8. \A g \in Files : /\ uploads'[g] \in NoRemoteFile => dentries[g] = 0
                         /\ uploads[g] \in Recycling => uploads'[g] \in Recycling
    BY <1>2, <1>3 DEF NothingCreated, PromiseInv, NothingLeft, UncertainStatuses, Recycling
  <1>9. Unwatched /\ PhaseMove(row') /\ \A v \in Workers : ~Fenced(v)'
    BY <1>1, NoneAssumption DEF Unwatched, PhaseMove, Closed, Fenced
  <1> QED
    BY <1>1, <1>4, <1>6, <1>7, <1>8, <1>9, LocalKeeps

-----------------------------------------------------------------------------
(* Steps that change the remote side *)

LEMMA RemoteKeeps ==
  ASSUME TypeOK, PromiseInv, UNCHANGED <<row, uploads>>, AskedOnce',
         Asking' => AfterCheckpoint(row) /\ \A f \in Files : uploads[f] \in Delivered,
         \A v \in Workers : job'[v].at = "create" => job'[v] = job[v],
         \A f \in Files : CommitOut(f)' => CommitOut(f),
         \A f \in Files : uploads[f] \in NoRemoteFile => dentries'[f] = 0,
         \A v \in Workers : job'[v].at = "recycled" =>
           uploads[job'[v].file] \in Recycling /\ dentries'[job'[v].file] = 0
  PROVE  PromiseInv'
  <1>1. AskedWithAll'
    BY DEF PromiseInv, AskedWithAll, Fenced
  <1>2. UncertainIsEarly'
    BY DEF PromiseInv, UncertainIsEarly
  <1>3. NothingLeft'
    BY DEF PromiseInv, NothingLeft
  <1> QED
    BY <1>1, <1>2, <1>3 DEF PromiseInv

\* While the approval is asked for, its attachments are stored and the submission is not closed.
LEMMA AskingFacts ==
  ASSUME Before, Asking
  PROVE  /\ {f \in Files : dentries[f] > 0} = Files
         /\ row.status # "FAILED_FINAL"
         /\ oas = {} => row.status \notin Closed
         /\ AfterCheckpoint(row) /\ \A f \in Files : uploads[f] \in Delivered
  <1>1. AfterCheckpoint(row) /\ \A f \in Files : uploads[f] \in Delivered
    BY DEF Before, PromiseInv, AskedWithAll
  <1>2. row.status # "FAILED_FINAL"
    BY <1>1 DEF AfterCheckpoint, Before, CommitInv, TypeOK
  <1>3. oas = {} => row.status # "SUBMITTED"
    BY DEF Before, RealInv, VerifiedExists
  <1> QED
    BY <1>1, <1>2, <1>3 DEF Before, RealInv, AttachmentsAreThere, Closed

LEMMA OpenPhase ==
  ASSUME row.status \notin Closed
  PROVE  Phase \in {"working", "review"}
  BY DEF Phase, Closed

LEMMA RenewKeeps ==
  ASSUME Before, NEW w \in Workers, RenewBeforeCreate(w)
  PROVE  Kept
  <1>0. TypeOK /\ PromiseInv
    BY DEF Before, CommitInv
  <1>1. /\ Fenced(w) /\ job[w].at = "create" /\ UNCHANGED <<row, uploads>> /\ UNCHANGED remote
        /\ job'[w] = [at |-> "send", file |-> 0] /\ \A v \in Workers \ {w} : job'[v] = job[v]
    BY <1>0 DEF RenewBeforeCreate, At, TypeOK, local
  <1>2. row.status = "OA_CREATING" /\ \A f \in Files : uploads[f] \in Delivered
    BY <1>0, <1>1 DEF PromiseInv, AskedWithAll, Delivered
  <1>3. AskedOnce'
    BY <1>0, <1>1 DEF PromiseInv, AskedOnce, remote
  <1>4. \A f \in Files : CommitOut(f)' => CommitOut(f)
    BY <1>1, CommitStays DEF remote
  <1>5. /\ \A v \in Workers : job'[v].at = "create" => job'[v] = job[v]
        /\ \A v \in Workers : job'[v].at = "recycled" => job'[v] = job[v]
    BY <1>1
  <1>6. PromiseInv'
    BY <1>0, <1>1, <1>2, <1>3, <1>4, <1>5, RemoteKeeps
       DEF AfterCheckpoint, remote, PromiseInv, NothingLeft
  <1> QED
    BY <1>0, <1>1, <1>6, MovePromised DEF Kept, PhaseMove, remote

LEMMA SendCreateKeeps ==
  ASSUME Before, NEW w \in Workers, SendCreate(w)
  PROVE  Kept
  <1>0. TypeOK /\ PromiseInv
    BY DEF Before, CommitInv
  <1>1. /\ job[w].at = "send" /\ UNCHANGED <<row, uploads>> /\ UNCHANGED <<oaBorn, oas>>
        /\ UNCHANGED <<commitFlight, dentries>> /\ creates' = creates + 1
        /\ job'[w] = [at |-> "createWait", file |-> 0] /\ \A v \in Workers \ {w} : job'[v] = job[v]
    BY <1>0 DEF SendCreate, At, TypeOK, local, fileSide
  <1>2. creates = 0 /\ oas = {}
    BY <1>0, <1>1 DEF Before, CheckpointPassedOnce, AboutToCreate, PromiseInv, AskedOnce
  <1>3. AskedOnce'
    BY <1>0, <1>1, <1>2 DEF PromiseInv, AskedOnce
  <1>4. \A f \in Files : CommitOut(f)' => CommitOut(f)
    BY <1>1, CommitStays
  <1>5. /\ \A v \in Workers : job'[v].at = "create" => job'[v] = job[v]
        /\ \A v \in Workers : job'[v].at = "recycled" => job'[v] = job[v]
    BY <1>1
  <1>6. Asking
    BY <1>1 DEF Asking
  <1>7. PromiseInv'
    BY <1>0, <1>1, <1>3, <1>4, <1>5, <1>6, AskingFacts, RemoteKeeps DEF PromiseInv, NothingLeft
  <1>8. Phase' = Phase /\ Phase \in {"working", "review"}
    BY <1>1, <1>2, <1>6, AskingFacts, OpenPhase DEF Phase
  <1>9. Promised
    BY <1>1, <1>2, <1>6, <1>8, AskingFacts
       DEF Promised, Promise!Next, Promise!Ask, Promise!Open
  <1> QED
    BY <1>7, <1>9 DEF Kept

LEMMA RejectedKeeps ==
  ASSUME Before, NEW w \in Workers, CreateRejected(w)
  PROVE  Kept
  <1>0. TypeOK /\ PromiseInv
    BY DEF Before, CommitInv
  <1> DEFINE r == [row EXCEPT !.status = "ORPHAN_CLEANUP", !.resume = "NONE"]
  <1>1. /\ r.status = "ORPHAN_CLEANUP" /\ r.resume = "NONE" /\ r.owner = row.owner
        /\ r.instance = row.instance /\ r.deadline = row.deadline
    BY <1>0 DEF TypeOK, Rows
  <1>2. /\ Save(w, r, "run") /\ row.status = "OA_CREATING" /\ row.resume = "NONE"
        /\ oaFlight /\ ~oaFlight'
        /\ UNCHANGED <<uploads, creates, oaBorn, oas, commitFlight, dentries>>
    BY <1>0 DEF CreateRejected, Advance, TypeOK, fileSide
  <1> HIDE DEF r
  <1>3. PICK step \in {"run", "idle"} : At(w, step, 0) /\ (row' = row \/ (row' = r /\ step = "run"))
    BY <1>2 DEF Save
  <1>4. job'[w] = [at |-> step, file |-> 0] /\ \A v \in Workers \ {w} : job'[v] = job[v]
    BY <1>0, <1>3 DEF At, TypeOK
  <1>5. row.owner = w /\ row'.owner = w
    BY <1>1, <1>2, <1>3 DEF Save, Fenced
  <1>6. oas = {} /\ creates # 0
    BY <1>0, <1>2 DEF PromiseInv, AskedOnce
  <1>7. ~Asking'
    <2>1. \A v \in Workers : job[v].at # "send"
      BY <1>6 DEF Before, CheckpointPassedOnce, AboutToCreate
    <2> QED
      BY <1>2, <1>4, <1>6, <2>1 DEF Asking
  <1>8. AskedOnce' /\ AskedWithAll'
    <2>1. AskedOnce'
      BY <1>0, <1>1, <1>2, <1>3 DEF PromiseInv, AskedOnce
    <2>2. row'.status = "OA_CREATING" => \A f \in Files : uploads'[f] = "COMMITTED"
      BY <1>0, <1>1, <1>2, <1>3 DEF PromiseInv, AskedWithAll
    <2>3. \A v \in Workers : job'[v].at = "create" => ~Fenced(v)'
      BY <1>4, <1>5 DEF Fenced
    <2> QED
      BY <1>7, <2>1, <2>2, <2>3 DEF AskedWithAll
  <1>9. UncertainIsEarly'
    <2>1. \A f \in Files : CommitOut(f)' => CommitOut(f)
      BY <1>2, <1>4, CommitStays
    <2> QED
      BY <1>0, <1>2, <2>1 DEF PromiseInv, UncertainIsEarly
  <1>10. NothingLeft'
    <2>1. \A v \in Workers : job'[v].at = "recycled" => job'[v] = job[v]
      BY <1>4
    <2>2. \A f \in Files : uploads[f] \notin Recycling
      BY <1>0, <1>2 DEF PromiseInv, NothingLeft
    <2>3. /\ row'.status # "FAILED_FINAL"
          /\ row'.status \notin GeneratingStatuses /\ row'.resume \notin GeneratingStatuses
      BY <1>1, <1>2, <1>3 DEF GeneratingStatuses
    <2> QED
      BY <1>0, <1>2, <2>1, <2>2, <2>3 DEF PromiseInv, NothingLeft
  <1>11. Promised
    BY <1>0, <1>1, <1>2, <1>3, MovePromised DEF PhaseMove, Closed
  <1> QED
    BY <1>8, <1>9, <1>10, <1>11 DEF Kept, PromiseInv

\* Where no worker moves on, what the jobs tell of the remote side stays true of the rows.
LEMMA LandsKeeps ==
  ASSUME Before, UNCHANGED <<row, uploads, job>>, AskedOnce', Asking' => Asking,
         \A f \in Files : CommitOut(f)' => CommitOut(f),
         \A f \in Files : dentries'[f] # dentries[f] => uploads[f] \in UncertainStatuses
  PROVE  PromiseInv'
  <1>0. TypeOK /\ PromiseInv
    BY DEF Before, CommitInv
  <1>1. \A v \in Workers : job[v].at = "recycled" => job[v].file \in Files
    BY <1>0 DEF TypeOK, Jobs, PlainSteps, FileSteps
  <1>2. \A f \in Files : uploads[f] \in NoRemoteFile \cup Recycling => dentries'[f] = dentries[f]
    BY DEF UncertainStatuses, NoRemoteFile, Recycling
  <1>3. \A f \in Files : uploads[f] \in NoRemoteFile => dentries'[f] = 0
    BY <1>0, <1>2 DEF PromiseInv, NothingLeft
  <1>4. \A v \in Workers : job'[v].at = "recycled" =>
          uploads[job'[v].file] \in Recycling /\ dentries'[job'[v].file] = 0
    BY <1>0, <1>1, <1>2 DEF PromiseInv, NothingLeft
  <1>5. Asking' => AfterCheckpoint(row) /\ \A f \in Files : uploads[f] \in Delivered
    BY <1>0 DEF PromiseInv, AskedWithAll
  <1> QED
    BY <1>0, <1>3, <1>4, <1>5, RemoteKeeps

LEMMA AppearKeeps ==
  ASSUME Before, NEW i \in Instances, CreateLands(i) \/ EmployeeResubmits(i)
  PROVE  Kept
  <1>0. TypeOK /\ PromiseInv
    BY DEF Before, CommitInv
  <1>1. /\ UNCHANGED <<row, uploads, job>> /\ UNCHANGED <<creates, commitFlight, dentries>>
        /\ i \notin oas /\ oas' = oas \cup {i}
        /\ oaFlight \/ oas # {}
        /\ oaBorn' = i \/ oaBorn' = oaBorn
        /\ ~oaFlight' \/ (oaFlight' = oaFlight /\ oas # {})
    BY DEF CreateLands, EmployeeResubmits, fileSide
  <1>2. Asking /\ creates # 0
    BY <1>0, <1>1 DEF Asking, PromiseInv, AskedOnce
  <1>3. creates = 1
    BY <1>0, <1>2 DEF Before, AtMostOneCreate, TypeOK, MaxCreates
  <1>4. AskedOnce'
    BY <1>0, <1>1, <1>2 DEF PromiseInv, AskedOnce
  <1>5. \A f \in Files : CommitOut(f)' => CommitOut(f)
    BY <1>1 DEF CommitOut
  <1>6. PromiseInv'
    BY <1>1, <1>2, <1>4, <1>5, LandsKeeps
  <1>7. /\ Phase' = Phase /\ Phase # "failed"
        /\ oas = {} => Phase \in {"working", "review"}
    BY <1>1, <1>2, AskingFacts, OpenPhase DEF Phase
  <1>8. Promised
    BY <1>1, <1>2, <1>3, <1>7, AskingFacts
       DEF Promised, Promise!Next, Promise!Appear, Promise!Open
  <1> QED
    BY <1>6, <1>8 DEF Kept

LEMMA LostKeeps ==
  ASSUME Before, CreateIsLost \/ \E f \in Files : CommitIsLost(f)
  PROVE  Kept
  <1>0. TypeOK /\ PromiseInv
    BY DEF Before, CommitInv
  <1>1. /\ UNCHANGED <<row, uploads, job>> /\ UNCHANGED <<creates, oaBorn, oas, dentries>>
        /\ oaFlight' => oaFlight
        /\ \A f \in Files : commitFlight'[f] => commitFlight[f]
    BY <1>0 DEF CreateIsLost, CommitIsLost, fileSide, oaSide, TypeOK
  <1>2. AskedOnce' /\ (Asking' => Asking)
    BY <1>0, <1>1 DEF PromiseInv, AskedOnce, Asking
  <1>3. \A f \in Files : CommitOut(f)' => CommitOut(f)
    BY <1>1 DEF CommitOut
  <1>4. PromiseInv'
    BY <1>1, <1>2, <1>3, LandsKeeps
  <1> QED
    BY <1>0, <1>1, <1>4, MovePromised DEF Kept, PhaseMove

\* A commit that is out may still make the file while nothing has been asked for.
LEMMA StoreKeeps ==
  ASSUME Before, NEW f \in Files, CommitLands(f)
  PROVE  Kept
  <1>0. TypeOK /\ PromiseInv /\ AtMostOneDentry
    BY DEF Before, CommitInv
  <1>1. /\ UNCHANGED <<row, uploads, job>> /\ UNCHANGED <<creates, oaFlight, oaBorn, oas>>
        /\ commitFlight[f]
        /\ commitFlight' = [commitFlight EXCEPT ![f] = FALSE]
        /\ dentries' = [dentries EXCEPT ![f] = dentries[f] + 1]
    BY DEF CommitLands, oaSide
  <1>2. dentries[f] = 0
    BY <1>0, <1>1 DEF AtMostOneDentry, TypeOK, MaxDentries
  <1>3. dentries'[f] = 1 /\ \A g \in Files \ {f} : dentries'[g] = dentries[g]
    BY <1>0, <1>1, <1>2 DEF TypeOK
  <1>4. uploads[f] \in UncertainStatuses
    BY <1>0, <1>1 DEF PromiseInv, UncertainIsEarly, CommitOut
  <1>5. creates = 0 /\ row.status \notin Closed
    BY <1>0, <1>4 DEF PromiseInv, UncertainIsEarly, Before, CheckpointPassedOnce, TypeOK, Closed
  <1>6. AskedOnce' /\ (Asking' => Asking)
    BY <1>0, <1>1 DEF PromiseInv, AskedOnce, Asking
  <1>7. \A g \in Files : CommitOut(g)' => CommitOut(g)
    BY <1>0, <1>1 DEF CommitOut, TypeOK
  <1>8. PromiseInv'
    BY <1>1, <1>3, <1>4, <1>6, <1>7, LandsKeeps
  <1>9. Phase' = Phase /\ Phase \in {"working", "review"}
    BY <1>1, <1>5, OpenPhase DEF Phase
  <1>10. {g \in Files : dentries'[g] > 0} = {g \in Files : dentries[g] > 0} \cup {f}
    BY <1>2, <1>3
  <1>11. Promised
    BY <1>1, <1>2, <1>5, <1>9, <1>10 DEF Promised, Promise!Next, Promise!Store, Promise!Open
  <1> QED
    BY <1>8, <1>11 DEF Kept

LEMMA SendCommitKeeps ==
  ASSUME Before, NEW w \in Workers, SendCommit(w)
  PROVE  Kept
  <1>0. TypeOK /\ PromiseInv
    BY DEF Before, CommitInv
  <1>1. PICK f \in Files : job[w] = [at |-> "commit", file |-> f]
    BY <1>0 DEF SendCommit, TypeOK, Jobs, PlainSteps, FileSteps
  <1>2. /\ UNCHANGED <<row, uploads>> /\ UNCHANGED <<creates, oaFlight, oaBorn, oas, dentries>>
        /\ \A g \in Files \ {f} : commitFlight'[g] = commitFlight[g]
        /\ job'[w] = [at |-> "commitWait", file |-> f] /\ \A v \in Workers \ {w} : job'[v] = job[v]
    BY <1>0, <1>1 DEF SendCommit, At, TypeOK, local, oaSide
  <1>3. \A g \in Files : CommitOut(g)' => CommitOut(g)
    <2>1. \A g \in Files, v \in Workers :
            job'[v] = [at |-> "commit", file |-> g] => job[v] = [at |-> "commit", file |-> g]
      <3>1. job'[w].at # "commit"
        BY <1>2
      <3> QED
        BY <1>2, <3>1
    <2>2. CommitOut(f)
      BY <1>1 DEF CommitOut
    <2> QED
      BY <1>2, <2>1, <2>2 DEF CommitOut
  <1>4. /\ \A v \in Workers : job'[v].at = "create" => job'[v] = job[v]
        /\ \A v \in Workers : job'[v].at = "recycled" => job'[v] = job[v]
    BY <1>2
  <1>5. AskedOnce' /\ (Asking' => Asking)
    BY <1>0, <1>2 DEF PromiseInv, AskedOnce, Asking
  <1>6. PromiseInv'
    BY <1>0, <1>2, <1>3, <1>4, <1>5, RemoteKeeps DEF PromiseInv, AskedWithAll, NothingLeft
  <1> QED
    BY <1>0, <1>2, <1>6, MovePromised DEF Kept, PhaseMove

\* A file goes away while nothing is asked for.
LEMMA RemovePromised ==
  ASSUME Before, ~Asking, row' = row, UNCHANGED <<creates, oas>>, row.status # "SUBMITTED",
         NEW f \in Files, dentries' = [dentries EXCEPT ![f] = 0],
         row.status = "FAILED_FINAL" => dentries[f] = 0
  PROVE  Promised
  <1>0. TypeOK
    BY DEF Before, CommitInv
  <1>1. CASE dentries[f] = 0
    <2>1. dentries' = dentries
      BY <1>0, <1>1 DEF TypeOK
    <2> QED
      BY <1>0, <2>1, MovePromised DEF PhaseMove
  <1>2. CASE dentries[f] # 0
    <2>1. dentries[f] > 0 /\ dentries'[f] = 0 /\ \A g \in Files \ {f} : dentries'[g] = dentries[g]
      BY <1>0, <1>2 DEF TypeOK
    <2>2. {g \in Files : dentries'[g] > 0} = {g \in Files : dentries[g] > 0} \ {f}
      BY <2>1
    <2>3. Phase' = Phase /\ Phase \in {"working", "review"}
      BY <1>2, OpenPhase DEF Phase, Closed
    <2>4. oas = {}
      BY DEF Asking
    <2> QED
      BY <2>1, <2>2, <2>3, <2>4 DEF Promised, Promise!Next, Promise!Remove, Promise!Open
  <1> QED
    BY <1>1, <1>2

LEMMA RecycleKeeps ==
  ASSUME Before, NEW w \in Workers, Recycle(w)
  PROVE  Kept
  <1>0. TypeOK /\ PromiseInv /\ RealInv
    BY DEF Before, CommitInv
  <1>1. PICK f \in Files : f = job[w].file
    BY <1>0 DEF Recycle, TypeOK, Jobs, PlainSteps, FileSteps
  <1>2. /\ UNCHANGED <<row, uploads>> /\ UNCHANGED <<creates, oaFlight, oaBorn, oas, commitFlight>>
        /\ dentries' = [dentries EXCEPT ![f] = 0]
        /\ job'[w] = [at |-> "recycled", file |-> f] /\ \A v \in Workers \ {w} : job'[v] = job[v]
    BY <1>0, <1>1 DEF Recycle, At, TypeOK, local, oaSide
  <1>3. dentries'[f] = 0 /\ \A g \in Files : dentries'[g] \in {0, dentries[g]}
    BY <1>0, <1>2 DEF TypeOK
  <1>4. uploads[f] \in Recycling
    BY <1>0, <1>1 DEF Recycle, RealInv, AttachmentsAreThere
  <1>5. ~Asking
    BY <1>0, <1>4 DEF PromiseInv, AskedWithAll, Delivered, Recycling
  <1>6. /\ row.status \in {"ORPHAN_CLEANUP", "FAILED_FINAL"}
        /\ row.status = "FAILED_FINAL" => dentries[f] = 0
    BY <1>0, <1>4 DEF PromiseInv, NothingLeft
  <1>7. AskedOnce' /\ ~Asking'
    BY <1>0, <1>2, <1>5 DEF PromiseInv, AskedOnce, Asking
  <1>8. \A g \in Files : CommitOut(g)' => CommitOut(g)
    BY <1>2, CommitStays
  <1>9. \A v \in Workers : job'[v].at = "create" => job'[v] = job[v]
    BY <1>2
  <1>10. \A g \in Files : uploads[g] \in NoRemoteFile => dentries'[g] = 0
    BY <1>0, <1>3 DEF PromiseInv, NothingLeft
  <1>11. ASSUME NEW v \in Workers, job'[v].at = "recycled"
         PROVE  uploads[job'[v].file] \in Recycling /\ dentries'[job'[v].file] = 0
    <2>1. CASE v = w
      BY <1>2, <1>3, <1>4, <2>1
    <2>2. CASE v # w
      <3>1. job'[v] = job[v] /\ job[v].file \in Files
        BY <1>0, <1>2, <1>11, <2>2 DEF TypeOK, Jobs, PlainSteps, FileSteps
      <3> QED
        BY <1>0, <1>3, <1>11, <3>1 DEF PromiseInv, NothingLeft
    <2> QED
      BY <2>1, <2>2
  <1>12. PromiseInv'
    BY <1>0, <1>2, <1>7, <1>8, <1>9, <1>10, <1>11, RemoteKeeps
  <1>13. Promised
    BY <1>2, <1>5, <1>6, RemovePromised
  <1> QED
    BY <1>12, <1>13 DEF Kept

LEMMA DeleteKeeps ==
  ASSUME Before, NEW f \in Files, AdminDeletesFile(f)
  PROVE  Kept
  <1>0. TypeOK /\ PromiseInv
    BY DEF Before, CommitInv
  <1>1. /\ UNCHANGED <<row, uploads, job>> /\ UNCHANGED <<creates, oaFlight, oaBorn, oas, commitFlight>>
        /\ row.status = "MANUAL_REVIEW" /\ uploads[f] \in UncertainStatuses
        /\ dentries' = [dentries EXCEPT ![f] = 0]
    BY DEF AdminDeletesFile, local, oaSide
  <1>2. \A g \in Files : dentries'[g] # dentries[g] => uploads[g] \in UncertainStatuses
    BY <1>0, <1>1 DEF TypeOK
  <1>3. ~Asking
    BY <1>0, <1>1 DEF PromiseInv, AskedWithAll, Delivered, UncertainStatuses
  <1>4. AskedOnce' /\ ~Asking'
    BY <1>0, <1>1, <1>3 DEF PromiseInv, AskedOnce, Asking
  <1>5. \A g \in Files : CommitOut(g)' => CommitOut(g)
    BY <1>1 DEF CommitOut
  <1>6. PromiseInv'
    BY <1>1, <1>2, <1>4, <1>5, LandsKeeps
  <1>7. Promised
    BY <1>1, <1>3, RemovePromised
  <1> QED
    BY <1>6, <1>7 DEF Kept

-----------------------------------------------------------------------------
LEMMA PromiseStep ==
  ASSUME Before, ~AdminMayErr, [Next]_vars
  PROVE  Kept
  <1>0. TypeOK /\ PromiseInv
    BY DEF Before, CommitInv
  <1>1. CASE Done \/ UNCHANGED vars
    <2>1. UNCHANGED <<row, uploads, job>> /\ UNCHANGED remote
      BY <1>1 DEF Done, vars, remote
    <2> QED
      BY <1>0, <2>1, RowIsOK, OutsideKeeps
  <1>2. ASSUME NEW w \in Workers, WorkerStep(w)
        PROVE  Kept
    <2>1. CASE Claim(w) \/ Crash(w) \/ Conflict(w)
      BY <1>0, <2>1, ClaimKeeps
    <2>2. CASE Preparing(w)
      BY <1>0, <2>2, PreparingRowKeeps, GeneratingKeeps DEF Preparing
    <2>3. CASE UploadingFiles(w)
      BY <1>0, <2>3, UploadingRowKeeps, PutKeeps, CommitKeeps, SendCommitKeeps, UnknownCommitKeeps
         DEF UploadingFiles
    <2>4. CASE Creating(w)
      BY <1>0, <2>4, CreatingRowKeeps, RenewKeeps, SendCreateKeeps, RejectedKeeps DEF Creating
    <2>5. CASE Resolving(w)
      BY <1>0, <2>5, ResolvingRowKeeps, LinkKeeps DEF Resolving
    <2>6. CASE CleaningUp(w)
      BY <1>0, <2>6, CleaningUpRowKeeps, CleanKeeps, RecycleKeeps DEF CleaningUp
    <2> QED
      BY <1>2, <2>1, <2>2, <2>3, <2>4, <2>5, <2>6 DEF WorkerStep
  <1>3. CASE Database
    BY <1>0, <1>3, OutsideRowKeeps, GeneratingKeeps, UnknownCommitKeeps DEF Database
  <1>4. CASE People
    BY <1>0, <1>4, OutsideRowKeeps, DeleteKeeps, ConfirmKeeps DEF People
  <1>5. CASE DingTalk
    BY <1>5, AppearKeeps, LostKeeps, StoreKeeps DEF DingTalk
  <1> QED
    BY <1>1, <1>2, <1>3, <1>4, <1>5 DEF Next

\* With an administrator who attests only to what is so, whatever workers, services and
\* the employee do is what the promise allows: OaSubmission implements SubmissionPromise.
THEOREM PromiseKept ==
  ASSUME ~AdminMayErr
  PROVE  Spec => KeepsPromise
  <1>1. Init => PromiseInv /\ Promise!Init
    <2> SUFFICES ASSUME Init PROVE PromiseInv /\ Promise!Init
      OBVIOUS
    <2>1. /\ row.status = "QUEUED" /\ row.resume = "NONE" /\ row.instance = None
          /\ creates = 0 /\ oaFlight = FALSE /\ oaBorn = None /\ oas = {}
          /\ \A f \in Files : uploads[f] = "ABSENT" /\ ~commitFlight[f] /\ dentries[f] = 0
          /\ \A w \in Workers : job[w].at = "idle"
      BY DEF Init
    <2>2. AskedOnce /\ AskedWithAll /\ NothingLeft
      BY <2>1 DEF AskedOnce, AskedWithAll, NothingLeft, Asking, Unstarted, NoRemoteFile, Recycling
    <2>3. UncertainIsEarly
      BY <2>1 DEF UncertainIsEarly, CommitOut, UncertainStatuses
    <2>4. Phase = "working"
      BY <2>1 DEF Phase
    <2>5. {f \in Files : dentries[f] > 0} = {}
      BY <2>1
    <2> QED
      BY <2>1, <2>2, <2>3, <2>4, <2>5 DEF PromiseInv, Promise!Init
  <1>2. Before /\ [Next]_vars => PromiseInv' /\ Promised
    BY PromiseStep DEF Kept
  <1>3. Before <=> CommitInv /\ CheckpointPassedOnce /\ AtMostOneCreate /\ RealInv /\ PromiseInv
    BY DEF Before
  <1> QED
    BY <1>1, <1>2, <1>3, RealInvariant, CheckpointOnce, CreatedOnce, PTL
       DEF Spec, KeepsPromise, Promise!Spec, Promised

=============================================================================
