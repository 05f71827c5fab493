--------------------------- MODULE DraftFilesProofs ---------------------------
(***************************************************************************)
(* Theorems about DraftFiles for any number of files, requests and         *)
(* workers: types, the bytes of active and of submitted files, and the     *)
(* quota that pays for what is on disk.                                    *)
(***************************************************************************)
EXTENDS DraftFiles, FiniteSetTheorems, TLAPS

USE SweeperAssumption, WorkersAssumption, FilesAssumption, BoundAssumption, SwitchAssumption

-----------------------------------------------------------------------------
(* Type correctness *)

Drafts == [status : DraftStatus, revision : 1..(MaxRevision + 1), due : BOOLEAN,
           submitted : BOOLEAN]

\* What the row may become in one step of its own.
LEMMA DraftRowType ==
  ASSUME draft \in Drafts
  PROVE  /\ Bump \/ Review \/ Submit =>
              draft' \in Drafts /\ draft'.revision \in 0..MaxRevision \cap 0..(MaxRevision + 1)
         /\ Submitted \/ DraftDue =>
              draft' \in Drafts /\ draft'.revision = draft.revision /\ draft'.status = draft.status
  <1>1. MaxRevision \in Nat /\ draft.revision \in Nat \ {0}
    BY DEF Drafts
  <1>2. ASSUME NEW status \in DraftStatus, draft.revision < MaxRevision,
               draft' = [draft EXCEPT !.revision = draft.revision + 1, !.status = status]
        PROVE  draft' \in Drafts /\ draft'.revision \in 0..MaxRevision \cap 0..(MaxRevision + 1)
    <2>1. draft.revision + 1 \in 1..(MaxRevision + 1) /\ draft.revision + 1 \in 0..MaxRevision \cap 0..(MaxRevision + 1)
      BY <1>1, <1>2
    <2>2. draft' \in Drafts
      BY <1>2, <2>1 DEF Drafts
    <2>3. draft'.revision = draft.revision + 1
      BY <1>2 DEF Drafts
    <2> QED
      BY <2>1, <2>2, <2>3
  <1>3. ASSUME Bump
        PROVE  draft' \in Drafts /\ draft'.revision \in 0..MaxRevision \cap 0..(MaxRevision + 1)
    <2>1. draft' = [draft EXCEPT !.revision = draft.revision + 1, !.status = "DRAFT"]
      BY <1>3 DEF Bump
    <2>2. "DRAFT" \in DraftStatus /\ draft.revision < MaxRevision
      BY <1>3 DEF Bump, DraftStatus
    <2> QED
      BY <1>2, <2>1, <2>2
  <1>4. ASSUME Review
        PROVE  draft' \in Drafts /\ draft'.revision \in 0..MaxRevision \cap 0..(MaxRevision + 1)
    <2>1. draft' = [draft EXCEPT !.revision = draft.revision + 1, !.status = "REVIEW_READY"]
      BY <1>4 DEF Review
    <2>2. "REVIEW_READY" \in DraftStatus /\ draft.revision < MaxRevision
      BY <1>4 DEF Review, DraftStatus
    <2> QED
      BY <1>2, <2>1, <2>2
  <1>5. ASSUME Submit
        PROVE  draft' \in Drafts /\ draft'.revision \in 0..MaxRevision \cap 0..(MaxRevision + 1)
    <2>1. draft' = [draft EXCEPT !.revision = draft.revision + 1, !.status = "LOCKED"]
      BY <1>5 DEF Submit
    <2>2. "LOCKED" \in DraftStatus /\ draft.revision < MaxRevision
      BY <1>5 DEF Submit, DraftStatus
    <2> QED
      BY <1>2, <2>1, <2>2
  <1>6. ASSUME Submitted \/ DraftDue
        PROVE  /\ draft' \in Drafts /\ draft'.revision = draft.revision
               /\ draft'.status = draft.status
    <2>1. \/ draft' = [draft EXCEPT !.submitted = TRUE]
          \/ draft' = [draft EXCEPT !.due = TRUE]
      BY <1>6 DEF Submitted, DraftDue
    <2> QED
      BY <2>1 DEF Drafts
  <1> QED
    BY <1>3, <1>4, <1>5, <1>6

LEMMA BeginType ==
  ASSUME SystemTypeOK, NEW c \in Cleaners, NEW kind \in {"file", "sweep", "draft", "release"},
         NEW discard \in SUBSET Files, NEW erase \in SUBSET Files,
         NEW revision \in 0..(MaxRevision + 1), Begin(c, kind, discard, erase, revision)
  PROVE  job' \in [Cleaners -> Jobs]
  BY DEF SystemTypeOK, Begin, Jobs

LEMMA ContinueType ==
  ASSUME SystemTypeOK, NEW c \in Cleaners, NEW j \in Jobs, Continue(c, j)
  PROVE  job' \in [Cleaners -> Jobs]
  <1>1. Idle \in Jobs
    BY DEF Idle, Jobs
  <1> QED
    BY <1>1 DEF SystemTypeOK, Continue

LEMMA OutcomeType == DiskOutcome \subseteq BOOLEAN /\ \A f \in Files : DeleteOutcome(f) = DiskOutcome
  BY DEF DiskOutcome, DeleteOutcome

LEMMA RemovedType ==
  ASSUME SystemTypeOK, NEW f \in Files, NEW ok \in BOOLEAN, Discarded(f, ok) \/ Deleted(f, ok)
  PROVE  /\ disk' \in [Files -> SUBSET {"part", "final"}]
         /\ \A g \in Files : disk'[g] \subseteq disk[g]
         /\ \A g \in Files \ {f} : disk'[g] = disk[g]
         /\ ok => disk'[f] = {}
         /\ f \notin LateFailures /\ "final" \in disk[f] /\ ~ok => "final" \in disk'[f]
  BY DEF SystemTypeOK, Discarded, Deleted, Removed

\* A file is taken off the books, or an upload moves on.
LEMMA StepTypes ==
  ASSUME SystemTypeOK, NEW f \in Files
  PROVE  /\ draft \in Drafts /\ draft.revision \in 0..(MaxRevision + 1)
         /\ \A step \in UploadSteps : UploadAt(f, step) => upload' \in [Files -> Uploads]
         /\ UploadEnds(f) => upload' \in [Files -> Uploads]
         /\ Purge(f) => file' \in [Files -> FileStatus] /\ overdue' \subseteq Files
  <1>1. draft \in Drafts /\ draft.revision \in 0..(MaxRevision + 1)
    BY DEF SystemTypeOK, Drafts
  <1>2. \A step \in UploadSteps : UploadAt(f, step) => upload' \in [Files -> Uploads]
    BY DEF SystemTypeOK, UploadAt, Uploads
  <1>3. UploadOver \in Uploads
    BY DEF UploadOver, Uploads, UploadSteps
  <1>4. UploadEnds(f) => upload' \in [Files -> Uploads]
    BY <1>3 DEF SystemTypeOK, UploadEnds
  <1>5. Purge(f) => file' \in [Files -> FileStatus] /\ overdue' \subseteq Files
    BY DEF SystemTypeOK, Purge, FileStatus
  <1> QED
    BY <1>1, <1>2, <1>4, <1>5

LEMMA UploadStepType ==
  ASSUME SystemTypeOK, NEW f \in Files, UploadStep(f)
  PROVE  SystemTypeOK'
  <1>0. /\ draft \in Drafts /\ draft.revision \in 0..(MaxRevision + 1)
        /\ \A step \in UploadSteps : UploadAt(f, step) => upload' \in [Files -> Uploads]
        /\ UploadEnds(f) => upload' \in [Files -> Uploads]
        /\ Purge(f) => file' \in [Files -> FileStatus] /\ overdue' \subseteq Files
    BY StepTypes
  <1>1. CASE Reserve(f)
    BY <1>0, <1>1, DraftRowType DEF Reserve, SystemTypeOK, Drafts, FileStatus, Uploads, UploadSteps
  <1>2. CASE MarkWriting(f)
    BY <1>0, <1>2 DEF MarkWriting, SystemTypeOK, FileStatus, UploadSteps
  <1>3. CASE OpenPart(f)
    BY <1>0, <1>3 DEF OpenPart, SystemTypeOK, UploadSteps
  <1>4. CASE WriteFails(f)
    BY <1>0, <1>4 DEF WriteFails, SystemTypeOK, UploadSteps
  <1>5. CASE LinkFinal(f)
    BY <1>0, <1>5 DEF LinkFinal, SystemTypeOK, UploadSteps
  <1>6. CASE UnlinkPart(f)
    BY <1>0, <1>6 DEF UnlinkPart, SystemTypeOK, UploadSteps
  <1>7. CASE Finalize(f)
    BY <1>0, <1>7 DEF Finalize, SystemTypeOK, FileStatus, UploadSteps
  <1>8. CASE CancelUpload(f)
    BY <1>0, <1>8 DEF CancelUpload, SystemTypeOK, UploadSteps
  <1>9. CASE Abandon(f)
    <2>1. disk' \in [Files -> SUBSET {"part", "final"}]
      BY <1>9, OutcomeType, RemovedType DEF Abandon, SystemTypeOK
    <2>2. file' \in [Files -> FileStatus] /\ overdue' \subseteq Files
      BY <1>0, <1>9 DEF Abandon, SystemTypeOK
    <2> QED
      BY <1>0, <1>9, <2>1, <2>2 DEF Abandon, SystemTypeOK
  <1> QED
    BY <1>1, <1>2, <1>3, <1>4, <1>5, <1>6, <1>7, <1>8, <1>9 DEF UploadStep

\* Only a draft that is being deleted goes beyond the bound.
WithinRevisions == draft.status \in {"EXPIRED", "GONE"} \/ draft.revision <= MaxRevision

LEMMA DraftDeleteType ==
  ASSUME SystemTypeOK, WithinRevisions, NEW c \in Cleaners, BeginDraftDelete(c)
  PROVE  SystemTypeOK'
  <1>1. draft' \in Drafts /\ draft'.revision \in 0..(MaxRevision + 1)
    <2>1. CASE draft.status = "EXPIRED"
      BY <2>1 DEF SystemTypeOK, Drafts, BeginDraftDelete
    <2>2. CASE draft.status # "EXPIRED"
      <3>1. draft.revision + 1 \in 1..(MaxRevision + 1) /\ MaxRevision \in Nat
        BY <2>2 DEF SystemTypeOK, DraftStatus, BeginDraftDelete, Deletable, WithinRevisions
      <3>2. draft' = [draft EXCEPT !.status = "EXPIRED", !.revision = draft.revision + 1]
        BY <2>2 DEF BeginDraftDelete
      <3>3. draft' \in Drafts /\ draft'.revision = draft.revision + 1
        BY <3>1, <3>2 DEF SystemTypeOK, Drafts, DraftStatus
      <3> QED
        BY <3>1, <3>3
    <2> QED
      BY <2>1, <2>2
  <1>2. file' \in [Files -> FileStatus]
    BY DEF SystemTypeOK, FileStatus, BeginDraftDelete
  <1>3. job' \in [Cleaners -> Jobs]
    BY <1>1, BeginType DEF BeginDraftDelete
  <1> QED
    BY <1>1, <1>2, <1>3 DEF BeginDraftDelete, SystemTypeOK, Drafts

LEMMA CleanerStepType ==
  ASSUME SystemTypeOK, NEW c \in Cleaners, CleanerStep(c)
  PROVE  SystemTypeOK'
  <1>0. /\ job[c] \in Jobs /\ Idle \in Jobs
        /\ \A f \in Files : Purge(f) => file' \in [Files -> FileStatus] /\ overdue' \subseteq Files
    BY DEF SystemTypeOK, Jobs, Idle, Purge, FileStatus
  <1>1. CASE DropDraft(c)
    BY <1>0, <1>1 DEF DropDraft, SystemTypeOK, DraftStatus, FileStatus
  <1>2. ASSUME NEW f \in Files, Erase(c, f)
        PROVE  SystemTypeOK'
    <2>1. PICK ok \in BOOLEAN :
            /\ Deleted(f, ok)
            /\ Continue(c, [job[c] EXCEPT !.erase = @ \ {f},
                                          !.rows = IF ok THEN @ \cup {f} ELSE @])
      BY <1>2 DEF Erase, DeleteOutcome, DiskOutcome
    <2>2. [job[c] EXCEPT !.erase = @ \ {f}, !.rows = IF ok THEN @ \cup {f} ELSE @] \in Jobs
      BY <1>0 DEF Jobs
    <2> QED
      BY <1>2, <2>1, <2>2, ContinueType, RemovedType DEF Erase, SystemTypeOK
  <1>3. ASSUME NEW f \in Files, ReleaseRow(c, f)
        PROVE  SystemTypeOK'
    <2>1. [job[c] EXCEPT !.rows = @ \ {f}] \in Jobs
      BY <1>0 DEF Jobs
    <2>2. job' \in [Cleaners -> Jobs]
      BY <1>3, <2>1, ContinueType DEF ReleaseRow
    <2> QED
      BY <1>0, <1>3, <2>2 DEF ReleaseRow, SystemTypeOK
  <1>4. ASSUME NEW f \in Files, EraseForDraft(c, f)
        PROVE  SystemTypeOK'
    <2>1. [job[c] EXCEPT !.discard = @ \ {f}, !.erase = @ \ {f}] \in Jobs
      BY <1>0 DEF Jobs
    <2>2. job' \in [Cleaners -> Jobs]
      BY <1>0, <1>4, <2>1 DEF EraseForDraft, SystemTypeOK
    <2>3. disk' \in [Files -> SUBSET {"part", "final"}]
      BY <1>4, RemovedType DEF EraseForDraft
    <2> QED
      BY <1>4, <2>2, <2>3 DEF EraseForDraft, SystemTypeOK
  <1> QED
    BY <1>1, <1>2, <1>3, <1>4 DEF CleanerStep

LEMMA RequestStepType ==
  ASSUME SystemTypeOK, WithinRevisions, NEW c \in Requests, RequestStep(c)
  PROVE  SystemTypeOK'
  <1>0. c \in Cleaners /\ draft \in Drafts /\ draft.revision \in 0..(MaxRevision + 1)
    BY DEF Cleaners, SystemTypeOK, Drafts
  <1>1. CASE ClearFiles(c)
    <2>1. file' \in [Files -> FileStatus]
      BY <1>1 DEF ClearFiles, SystemTypeOK, FileStatus
    <2>2. draft' \in Drafts /\ job' \in [Cleaners -> Jobs]
      BY <1>0, <1>1, DraftRowType, BeginType DEF ClearFiles
    <2> QED
      BY <1>1, <2>1, <2>2 DEF ClearFiles, SystemTypeOK, Drafts
  <1>2. CASE DeleteDraft(c)
    BY <1>0, <1>2, DraftDeleteType DEF DeleteDraft
  <1>3. CASE \E f \in Files : DeleteFile(c, f)
    <2>1. PICK f \in Files : DeleteFile(c, f)
      BY <1>3
    <2>2. file' \in [Files -> FileStatus]
      BY <2>1 DEF DeleteFile, SystemTypeOK, FileStatus
    <2>3. draft' \in Drafts /\ job' \in [Cleaners -> Jobs]
      BY <1>0, <2>1, DraftRowType, BeginType DEF DeleteFile
    <2> QED
      BY <2>1, <2>2, <2>3 DEF DeleteFile, SystemTypeOK, Drafts
  <1>4. CASE \E f \in Files : ResumeDelete(c, f)
    BY <1>0, <1>4, BeginType DEF ResumeDelete, SystemTypeOK
  <1> QED
    BY <1>1, <1>2, <1>3, <1>4 DEF RequestStep

\* What changes the draft's row.
LEMMA DraftMoves ==
  ASSUME [Next]_vars
  PROVE  \/ draft' = draft
         \/ Bump
         \/ Review \/ Submit \/ Submitted \/ DraftDue
         \/ \E c \in Cleaners : BeginDraftDelete(c) \/ DropDraft(c)
  <1>0. Sweeper \in Cleaners /\ Requests \subseteq Cleaners
    BY DEF Cleaners
  <1>1. ASSUME NEW f \in Files, UploadStep(f)
        PROVE  draft' = draft \/ Bump
    BY <1>1 DEF UploadStep, Reserve, MarkWriting, OpenPart, WriteFails, LinkFinal, UnlinkPart,
                Finalize, CancelUpload, Abandon
  <1>2. ASSUME NEW c \in Requests, RequestStep(c)
        PROVE  draft' = draft \/ Bump \/ BeginDraftDelete(c)
    BY <1>2 DEF RequestStep, ClearFiles, DeleteDraft, DeleteFile, ResumeDelete
  <1>3. ASSUME NEW c \in Cleaners, CleanerStep(c)
        PROVE  draft' = draft \/ DropDraft(c)
    BY <1>3 DEF CleanerStep, Erase, ReleaseRow, EraseForDraft
  <1>4. ASSUME SweepStep
        PROVE  draft' = draft \/ BeginDraftDelete(Sweeper)
    BY <1>4 DEF SweepStep, SweepDraft, SweepReservation, SweepDeleting
  <1>5. Edit => Bump
    BY DEF Edit
  <1>6. Restart \/ (\E w \in Workers : ReleaseSources(w))
        \/ (\E f \in Files : ReservationDue(f)) \/ UNCHANGED vars => draft' = draft
    BY DEF Restart, ReleaseSources, ReservationDue, vars, system
  <1> QED
    BY <1>0, <1>1, <1>2, <1>3, <1>4, <1>5, <1>6 DEF Next, Step

LEMMA RevisionsStay ==
  ASSUME SystemTypeOK, WithinRevisions, [Next]_vars
  PROVE  WithinRevisions'
  <1>1. CASE draft' = draft
    BY <1>1 DEF WithinRevisions
  <1>2. CASE Bump \/ Review \/ Submit \/ Submitted \/ DraftDue
    <2>1. draft \in Drafts
      BY DEF SystemTypeOK, Drafts
    <2> QED
      BY <1>2, <2>1, DraftRowType DEF Submitted, DraftDue, Open, WithinRevisions
  <1>3. CASE \E c \in Cleaners : BeginDraftDelete(c) \/ DropDraft(c)
    BY <1>3 DEF BeginDraftDelete, DropDraft, SystemTypeOK, WithinRevisions
  <1> QED
    BY <1>1, <1>2, <1>3, DraftMoves

LEMMA TypeStep ==
  ASSUME SystemTypeOK, WithinRevisions, [Next]_vars
  PROVE  SystemTypeOK'
  <1>0. /\ draft \in Drafts /\ draft.revision \in 0..(MaxRevision + 1)
        /\ Sweeper \in Cleaners /\ Workers \subseteq Cleaners /\ Idle \in Jobs
        /\ \A f \in Files : Purge(f) => file' \in [Files -> FileStatus] /\ overdue' \subseteq Files
    BY DEF SystemTypeOK, Drafts, Cleaners, Idle, Jobs, Purge, FileStatus
  <1>1. CASE Edit
    BY <1>0, <1>1, DraftRowType DEF Edit, SystemTypeOK, Drafts
  <1>9. CASE Review \/ Submit \/ Submitted \/ DraftDue
    BY <1>9, DraftRowType DEF Review, Submit, Submitted, DraftDue, SystemTypeOK, Drafts
  <1>2. CASE Restart
    BY <1>0, <1>2 DEF Restart, SystemTypeOK, FileStatus, Uploads, UploadSteps, NoUpload, UploadOver
  <1>3. CASE SweepDraft
    BY <1>0, <1>3, DraftDeleteType DEF SweepDraft
  <1>4. CASE \E f \in Files : SweepReservation(f)
    <2> PICK f \in Files : SweepReservation(f)
      BY <1>4
    <2>1. PICK ok \in BOOLEAN : Discarded(f, ok)
      BY OutcomeType DEF SweepReservation
    <2>2. disk' \in [Files -> SUBSET {"part", "final"}]
      BY <2>1, RemovedType
    <2>3. file' \in [Files -> FileStatus] /\ overdue' \subseteq Files
      BY <1>0 DEF SweepReservation, SystemTypeOK
    <2> QED
      BY <2>2, <2>3 DEF SweepReservation, SystemTypeOK
  <1>5. CASE \E f \in Files : SweepDeleting(f)
    BY <1>0, <1>5, BeginType DEF SweepDeleting, SystemTypeOK
  <1>6. CASE \E w \in Workers : ReleaseSources(w)
    BY <1>0, <1>6, BeginType DEF ReleaseSources, SystemTypeOK
  <1>7. CASE \E f \in Files : ReservationDue(f)
    BY <1>7 DEF ReservationDue, SystemTypeOK
  <1>8. CASE UNCHANGED vars
    BY <1>8 DEF vars, system, SystemTypeOK
  <1> QED
    BY <1>1, <1>2, <1>3, <1>4, <1>5, <1>6, <1>7, <1>8, <1>9, UploadStepType, RequestStepType,
       CleanerStepType DEF Next, Step, SweepStep

\* Every variable stays in its domain; the revision goes at most one beyond its bound.
THEOREM FilesTyped == Spec => []TypeOK
  <1>1. Init => SystemTypeOK /\ WithinRevisions
    BY DEF WithinRevisions, Init, SystemTypeOK, DraftStatus, FileStatus, Uploads, UploadSteps, NoUpload, Jobs, Idle
  <1>2. SystemTypeOK /\ WithinRevisions /\ [Next]_vars => (SystemTypeOK /\ WithinRevisions)'
    BY TypeStep, RevisionsStay
  <1>3. Init => overtaken \subseteq Files
    BY DEF Init
  <1>4. overtaken \subseteq Files /\ [Next]_vars => (overtaken \subseteq Files)'
    BY DEF Next, Recorded, vars
  <1>5. SystemTypeOK /\ overtaken \subseteq Files => TypeOK
    BY DEF TypeOK
  <1> QED
    BY <1>1, <1>2, <1>3, <1>4, <1>5, PTL DEF Spec

-----------------------------------------------------------------------------
(* The bytes of active files *)

Ending == draft.status \in {"EXPIRED", "GONE"}

\* Nobody is after a file that can still be used: what a request or the sweep erases is
\* on its way out for good, a draft's deletion ends it, and a release waits for the end.
JobsAreAimed ==
  /\ \A c \in Cleaners :
       /\ job[c].kind \in {"file", "sweep"} =>
            \A f \in job[c].erase \cup job[c].rows :
              file[f] \in {"DELETING", "PURGED"} \/ draft.status = "GONE"
       /\ job[c].kind = "draft" => Ending
       /\ job[c].kind = "release" => draft.submitted
  /\ draft.submitted => draft.status = "LOCKED"
  /\ Ending => \A f \in Files : file[f] # "ACTIVE"

\* An upload that may still be finalised has its object.
StagedHasItsBytes ==
  \A f \in Files \ LateFailures :
    upload[f].at \in {"linked", "staged"} /\ Unfinished(f) /\ Open => "final" \in disk[f]

BytesInv == JobsAreAimed /\ StagedHasItsBytes /\ ActiveHasItsBytes

\* What SubmittedFilesStay says of a step.
KeepsSubmitted ==
  draft.status = "LOCKED" /\ ~draft.submitted =>
    \A f \in Files : file[f] = "ACTIVE" =>
      file'[f] = "ACTIVE" /\ ("final" \in disk[f] => "final" \in disk'[f])

\* Rows only move towards their end while jobs and draft stay as they are.
LEMMA StillAimed ==
  ASSUME SystemTypeOK, JobsAreAimed, job' = job, draft' = draft,
         \A f \in Files :
           /\ file[f] \in {"DELETING", "PURGED"} => file'[f] \in {"DELETING", "PURGED"}
           /\ file'[f] = "ACTIVE" => file[f] = "ACTIVE" \/ ~Ending
  PROVE  JobsAreAimed'
  BY DEF SystemTypeOK, JobsAreAimed, Ending, Jobs

LEMMA UploadStepBytes ==
  ASSUME SystemTypeOK, BytesInv, NEW f \in Files, UploadStep(f)
  PROVE  BytesInv' /\ KeepsSubmitted
  <1> USE DEF BytesInv, JobsAreAimed, StagedHasItsBytes, ActiveHasItsBytes, KeepsSubmitted,
              Ending, Open, Unfinished, SystemTypeOK, Uploads
  <1>1. CASE Reserve(f)
    BY <1>1 DEF Reserve, Bump, Mutable, Open
  <1>2. CASE MarkWriting(f)
    <2>1. JobsAreAimed'
      <3>1. job' = job /\ draft' = draft
        BY <1>2 DEF MarkWriting
      <3>2. \A g \in Files :
              /\ file[g] \in {"DELETING", "PURGED"} => file'[g] \in {"DELETING", "PURGED"}
              /\ file'[g] = "ACTIVE" => file[g] = "ACTIVE" \/ ~Ending
        BY <1>2 DEF MarkWriting, UploadAt, Owned, Mutable, Open
      <3> QED
        BY <3>1, <3>2, StillAimed
    <2>2. StagedHasItsBytes'
      <3>1. upload'[f].at \in {"marked", "failed"} /\ disk' = disk /\ draft' = draft
        BY <1>2 DEF MarkWriting, UploadAt
      <3>2. \A g \in Files \ {f} : upload'[g] = upload[g] /\ file'[g] = file[g]
        BY <1>2 DEF MarkWriting, UploadAt
      <3> QED
        BY <3>1, <3>2
    <2>3. ActiveHasItsBytes'
      BY <1>2 DEF MarkWriting, UploadAt, Owned, Mutable, Open
    <2>4. KeepsSubmitted
      BY <1>2 DEF MarkWriting, UploadAt, Owned, Mutable, Open
    <2> QED
      BY <2>1, <2>2, <2>3, <2>4
  <1>3. CASE OpenPart(f)
    BY <1>3 DEF OpenPart, UploadAt
  <1>4. CASE WriteFails(f)
    BY <1>4 DEF WriteFails, UploadAt
  <1>5. CASE LinkFinal(f)
    <2>1. JobsAreAimed'
      BY <1>5 DEF LinkFinal, UploadAt
    <2>2. StagedHasItsBytes'
      <3>1. upload'[f].at = "failed" \/ "final" \in disk'[f]
        BY <1>5 DEF LinkFinal, UploadAt
      <3>2. \A g \in Files \ {f} : upload'[g] = upload[g] /\ disk'[g] = disk[g]
        BY <1>5 DEF LinkFinal, UploadAt
      <3>3. file' = file /\ draft' = draft
        BY <1>5 DEF LinkFinal
      <3> QED
        BY <3>1, <3>2, <3>3
    <2>3. \A g \in Files : disk[g] \subseteq disk'[g]
      BY <1>5 DEF LinkFinal
    <2>4. ActiveHasItsBytes' /\ KeepsSubmitted
      BY <1>5, <2>3 DEF LinkFinal
    <2> QED
      BY <2>1, <2>2, <2>4
  <1>6. CASE UnlinkPart(f)
    BY <1>6 DEF UnlinkPart, UploadAt
  <1>7. CASE Finalize(f)
    <2>1. JobsAreAimed'
      <3>1. job' = job /\ draft' = draft
        BY <1>7 DEF Finalize
      <3>2. \A g \in Files :
              /\ file[g] \in {"DELETING", "PURGED"} => file'[g] \in {"DELETING", "PURGED"}
              /\ file'[g] = "ACTIVE" => file[g] = "ACTIVE" \/ ~Ending
        BY <1>7 DEF Finalize, UploadAt, UploadEnds, UploadOver, Owned, Mutable, Open
      <3> QED
        BY <3>1, <3>2, StillAimed
    <2>2. StagedHasItsBytes'
      BY <1>7 DEF Finalize, UploadAt, UploadEnds, UploadOver, Owned, Mutable, Open
    <2>3. ActiveHasItsBytes'
      BY <1>7 DEF Finalize, UploadAt, UploadEnds, UploadOver, Owned, Mutable, Open
    <2>4. KeepsSubmitted
      BY <1>7 DEF Finalize, UploadAt, UploadEnds, UploadOver, Owned, Mutable, Open
    <2> QED
      BY <2>1, <2>2, <2>3, <2>4
  <1>8. CASE CancelUpload(f)
    BY <1>8 DEF CancelUpload, UploadAt
  <1>9. CASE Abandon(f)
    <2>1. JobsAreAimed'
      <3>1. job' = job /\ draft' = draft
        BY <1>9 DEF Abandon
      <3>2. \A g \in Files :
              /\ file[g] \in {"DELETING", "PURGED"} => file'[g] \in {"DELETING", "PURGED"}
              /\ file'[g] = "ACTIVE" => file[g] = "ACTIVE" \/ ~Ending
        BY <1>9 DEF Abandon, UploadEnds, UploadOver, Purge
      <3> QED
        BY <3>1, <3>2, StillAimed
    <2>2. StagedHasItsBytes'
      BY <1>9, OutcomeType, RemovedType DEF Abandon, UploadEnds, UploadOver, Purge
    <2>3. ActiveHasItsBytes'
      BY <1>9, OutcomeType, RemovedType DEF Abandon, UploadEnds, UploadOver, Purge
    <2>4. KeepsSubmitted
      BY <1>9, OutcomeType, RemovedType DEF Abandon, UploadEnds, UploadOver, Purge
    <2> QED
      BY <2>1, <2>2, <2>3, <2>4
  <1> QED
    BY <1>1, <1>2, <1>3, <1>4, <1>5, <1>6, <1>7, <1>8, <1>9 DEF UploadStep

\* A job begins with files that are on their way out.
LEMMA BeginAims ==
  ASSUME SystemTypeOK, JobsAreAimed, NEW c \in Cleaners, NEW kind, NEW discard, NEW erase, NEW revision,
         Begin(c, kind, discard, erase, revision),
         kind \in {"file", "sweep"} =>
           \A f \in erase : file'[f] \in {"DELETING", "PURGED"} \/ draft'.status = "GONE",
         kind = "draft" => Ending',
         kind = "release" => draft'.submitted,
         draft.status = "GONE" => draft'.status = "GONE",
         Ending => Ending',
         draft'.submitted = draft.submitted, draft'.submitted => draft'.status = "LOCKED",
         \A f \in Files :
           /\ file[f] \in {"DELETING", "PURGED"} => file'[f] \in {"DELETING", "PURGED"}
           /\ Ending' => file'[f] # "ACTIVE"
  PROVE  JobsAreAimed'
  <1>1. \A d \in Cleaners \ {c} : job'[d] = job[d]
    BY DEF Begin, SystemTypeOK
  <1>2. /\ job'[c].kind = kind /\ job'[c].erase = erase /\ job'[c].rows = {}
    BY DEF Begin, SystemTypeOK
  <1> QED
    BY <1>1, <1>2 DEF JobsAreAimed, SystemTypeOK, Jobs, Ending

LEMMA DraftDeleteBytes ==
  ASSUME SystemTypeOK, BytesInv, NEW c \in Cleaners, BeginDraftDelete(c)
  PROVE  BytesInv' /\ KeepsSubmitted
  <1>1. Ending' /\ draft'.submitted = draft.submitted /\ ~draft.submitted
    BY DEF BeginDraftDelete, Deletable, Ending, SystemTypeOK, BytesInv, JobsAreAimed
  <1>2. \A f \in Files : file'[f] # "ACTIVE"
    BY DEF BeginDraftDelete, SystemTypeOK
  <1>3. \A f \in Files :
          file[f] \in {"DELETING", "PURGED"} => file'[f] \in {"DELETING", "PURGED"}
    BY DEF BeginDraftDelete, SystemTypeOK
  <1>4. JobsAreAimed'
    <2>1. draft.status # "GONE"
      BY DEF BeginDraftDelete, Deletable
    <2> QED
      BY <1>1, <1>2, <1>3, <2>1, BeginAims DEF BeginDraftDelete, BytesInv
  <1> QED
    BY <1>1, <1>2, <1>4
       DEF BytesInv, StagedHasItsBytes, ActiveHasItsBytes, KeepsSubmitted, BeginDraftDelete, Deletable,
           Ending, Open

LEMMA RequestStepBytes ==
  ASSUME SystemTypeOK, BytesInv, NEW c \in Requests, RequestStep(c)
  PROVE  BytesInv' /\ KeepsSubmitted
  <1>0. c \in Cleaners
    BY DEF Cleaners
  <1>1. CASE ClearFiles(c)
    <2>1. /\ Open /\ ~Ending /\ ~Ending' /\ draft.status # "LOCKED"
          /\ ~draft.submitted /\ draft'.submitted = draft.submitted
      BY <1>1 DEF ClearFiles, Bump, Mutable, Open, Ending, SystemTypeOK, BytesInv, JobsAreAimed
    <2>2. \A g \in Files :
            /\ file'[g] = file[g] \/ file'[g] = "DELETING"
            /\ file[g] \in {"DELETING", "PURGED"} => file'[g] \in {"DELETING", "PURGED"}
      BY <1>1 DEF ClearFiles, SystemTypeOK
    <2>3. JobsAreAimed'
      <3> DEFINE targets == {f \in Files : file[f] \in {"ACTIVE", "DELETING"}}
      <3>1. Begin(c, "file", {}, targets, draft'.revision)
        BY <1>1 DEF ClearFiles
      <3>2. \A g \in targets : file'[g] = "DELETING"
        BY <1>1 DEF ClearFiles, SystemTypeOK
      <3>3. draft.status # "GONE"
        BY <2>1 DEF Ending
      <3> QED
        BY <1>0, <2>1, <2>2, <3>1, <3>2, <3>3, BeginAims DEF BytesInv
    <2> QED
      BY <1>1, <2>1, <2>2, <2>3
         DEF ClearFiles, BytesInv, StagedHasItsBytes, ActiveHasItsBytes, KeepsSubmitted, Unfinished, Open
  <1>2. CASE DeleteDraft(c)
    BY <1>0, <1>2, DraftDeleteBytes DEF DeleteDraft
  <1>3. CASE \E f \in Files : DeleteFile(c, f)
    <2>0. PICK f \in Files : DeleteFile(c, f)
      BY <1>3
    <2>1. /\ Open /\ ~Ending /\ ~Ending' /\ draft.status # "LOCKED"
          /\ ~draft.submitted /\ draft'.submitted = draft.submitted
      BY <2>0 DEF DeleteFile, Bump, Mutable, Open, Ending, SystemTypeOK, BytesInv, JobsAreAimed
    <2>2. \A g \in Files :
            /\ file'[g] = file[g] \/ file'[g] = "DELETING"
            /\ file[g] \in {"DELETING", "PURGED"} => file'[g] \in {"DELETING", "PURGED"}
      BY <2>0 DEF DeleteFile, SystemTypeOK
    <2>3. JobsAreAimed'
      <3>1. Begin(c, "file", {}, {f}, draft'.revision) /\ file'[f] = "DELETING"
        BY <2>0 DEF DeleteFile, SystemTypeOK
      <3>2. draft.status # "GONE"
        BY <2>1 DEF Ending
      <3> QED
        BY <1>0, <2>1, <2>2, <3>1, <3>2, BeginAims DEF BytesInv
    <2> QED
      BY <2>0, <2>1, <2>2, <2>3
         DEF DeleteFile, BytesInv, StagedHasItsBytes, ActiveHasItsBytes, KeepsSubmitted, Unfinished, Open
  <1>4. CASE \E f \in Files : ResumeDelete(c, f)
    BY <1>0, <1>4, BeginAims
       DEF ResumeDelete, Ending, Open, Unfinished, SystemTypeOK, BytesInv, JobsAreAimed, StagedHasItsBytes,
           ActiveHasItsBytes, KeepsSubmitted
  <1> QED
    BY <1>1, <1>2, <1>3, <1>4 DEF RequestStep

\* A job goes on, with less to do.
LEMMA ContinueAims ==
  ASSUME SystemTypeOK, JobsAreAimed, NEW c \in Cleaners, NEW j \in Jobs, Continue(c, j),
         j.kind = job[c].kind, j.erase \cup j.rows \subseteq job[c].erase \cup job[c].rows,
         draft' = draft,
         \A f \in Files :
           /\ file[f] \in {"DELETING", "PURGED"} => file'[f] \in {"DELETING", "PURGED"}
           /\ file'[f] = "ACTIVE" => file[f] = "ACTIVE"
  PROVE  JobsAreAimed'
  <1>1. \A d \in Cleaners \ {c} : job'[d] = job[d]
    BY DEF Continue, SystemTypeOK
  <1>2. job'[c] \in {j, Idle}
    BY DEF Continue, SystemTypeOK
  <1>3. Idle.kind = "idle"
    BY DEF Idle
  <1> QED
    BY <1>1, <1>2, <1>3 DEF JobsAreAimed, SystemTypeOK, Jobs, Ending

\* What an erasure does to the disk and to its job.
LEMMA EraseEffect ==
  ASSUME SystemTypeOK, NEW c \in Cleaners, NEW f \in Files, Erase(c, f)
  PROVE  \E ok \in BOOLEAN, j \in Jobs :
           /\ Deleted(f, ok) /\ Continue(c, j) /\ j.kind = job[c].kind
           /\ j.erase = job[c].erase \ {f}
           /\ j.rows = IF ok THEN job[c].rows \cup {f} ELSE job[c].rows
  <1>0. job[c] \in Jobs
    BY DEF SystemTypeOK
  <1>1. PICK ok \in BOOLEAN :
          /\ Deleted(f, ok)
          /\ Continue(c, [job[c] EXCEPT !.erase = @ \ {f},
                                        !.rows = IF ok THEN @ \cup {f} ELSE @])
    BY DEF Erase, DeleteOutcome, DiskOutcome
  <1> DEFINE j == [job[c] EXCEPT !.erase = @ \ {f},
                                 !.rows = IF ok THEN @ \cup {f} ELSE @]
  <1>2. /\ j \in Jobs /\ j.kind = job[c].kind /\ j.erase = job[c].erase \ {f}
        /\ j.rows = IF ok THEN job[c].rows \cup {f} ELSE job[c].rows
    BY <1>0 DEF Jobs
  <1>3. Deleted(f, ok) /\ Continue(c, j)
    BY <1>1
  <1> HIDE DEF j
  <1> QED
    BY <1>2, <1>3

LEMMA CleanerStepBytes ==
  ASSUME SystemTypeOK, BytesInv, NEW c \in Cleaners, CleanerStep(c)
  PROVE  BytesInv' /\ KeepsSubmitted
  <1>0. job[c] \in Jobs
    BY DEF SystemTypeOK
  <1>1. CASE DropDraft(c)
    <2>1. \A d \in Cleaners : job'[d].kind \in {"file", "sweep", "release"} => job'[d] = job[d]
      BY <1>1 DEF DropDraft, SystemTypeOK, Idle
    <2>2. CASE draft.status = "EXPIRED" /\ draft.revision = job[c].revision
      <3>1. draft'.status = "GONE" /\ draft'.submitted = draft.submitted
        BY <1>1, <2>2 DEF DropDraft, SystemTypeOK
      <3>2. \A f \in Files : file'[f] = "NONE"
        BY <1>1, <2>2 DEF DropDraft
      <3>3. ~draft.submitted
        BY <2>2 DEF BytesInv, JobsAreAimed
      <3>4. JobsAreAimed'
        BY <2>1, <3>1, <3>2, <3>3 DEF BytesInv, JobsAreAimed, Ending
      <3> QED
        BY <2>2, <3>1, <3>2, <3>4
           DEF BytesInv, StagedHasItsBytes, ActiveHasItsBytes, KeepsSubmitted, Open
    <2>3. CASE UNCHANGED <<draft, file, overdue>>
      <3>1. UNCHANGED <<disk, upload>>
        BY <1>1 DEF DropDraft
      <3>2. \A d \in Cleaners : job'[d] = job[d] \/ job'[d].kind = "idle"
        BY <1>1 DEF DropDraft, SystemTypeOK, Idle
      <3>3. JobsAreAimed'
        BY <2>3, <3>2 DEF BytesInv, JobsAreAimed, Ending
      <3> QED
        BY <2>3, <3>1, <3>3
           DEF BytesInv, StagedHasItsBytes, ActiveHasItsBytes, KeepsSubmitted, Unfinished, Open
    <2> QED
      BY <1>1, <2>2, <2>3 DEF DropDraft
  <1>2. ASSUME NEW f \in Files, Erase(c, f)
        PROVE  BytesInv' /\ KeepsSubmitted
    <2>1. PICK ok \in BOOLEAN, j \in Jobs :
            /\ Deleted(f, ok) /\ Continue(c, j) /\ j.kind = job[c].kind
            /\ j.erase = job[c].erase \ {f}
            /\ j.rows = IF ok THEN job[c].rows \cup {f} ELSE job[c].rows
      BY <1>2, EraseEffect
    <2>2. j.erase \cup j.rows \subseteq job[c].erase \cup job[c].rows
      BY <1>2, <2>1 DEF Erase
    <2>3. draft' = draft /\ file' = file
      BY <1>2 DEF Erase
    <2>4. JobsAreAimed'
      BY <2>1, <2>2, <2>3, ContinueAims DEF BytesInv
    <2>5. (file[f] # "ACTIVE" \/ draft.submitted) /\ (~Unfinished(f) \/ ~Open)
      <3>1. /\ job[c].kind \in {"file", "sweep", "release"}
            /\ f \in job[c].erase \cup job[c].rows
        BY <1>2 DEF Erase
      <3>2. \/ file[f] \in {"DELETING", "PURGED"}
            \/ draft.status = "GONE" /\ file[f] # "ACTIVE"
            \/ draft.submitted /\ draft.status = "LOCKED"
        BY <3>1 DEF BytesInv, JobsAreAimed, Ending
      <3> QED
        BY <3>2 DEF Unfinished, Open
    <2>6. draft' = draft /\ file' = file /\ upload' = upload
      BY <1>2 DEF Erase
    <2>7. \A g \in Files \ {f} : disk'[g] = disk[g]
      BY <2>1, RemovedType
    <2>8. draft.submitted => draft.status = "LOCKED"
      BY DEF BytesInv, JobsAreAimed
    <2> QED
      BY <2>4, <2>5, <2>6, <2>7, <2>8
         DEF BytesInv, StagedHasItsBytes, ActiveHasItsBytes, KeepsSubmitted, Unfinished, Ending, Open
  <1>3. ASSUME NEW f \in Files, ReleaseRow(c, f)
        PROVE  BytesInv' /\ KeepsSubmitted
    <2> DEFINE j == [job[c] EXCEPT !.rows = @ \ {f}]
    <2>1. Continue(c, j) /\ draft' = draft /\ disk' = disk /\ upload' = upload
      BY <1>3 DEF ReleaseRow
    <2>2. /\ j \in Jobs /\ j.kind = job[c].kind
          /\ j.erase \cup j.rows \subseteq job[c].erase \cup job[c].rows
      BY <1>0 DEF Jobs
    <2>3. \A g \in Files : file'[g] = file[g] \/ file'[g] = "PURGED"
      BY <1>3 DEF ReleaseRow, Purge, SystemTypeOK
    <2>4. file'[f] = file[f] \/ file[f] = "DELETING" \/ draft.submitted
      BY <1>3 DEF ReleaseRow, Purge, Released, SystemTypeOK
    <2>5. \A g \in Files \ {f} : file'[g] = file[g]
      BY <1>3 DEF ReleaseRow, Purge, SystemTypeOK
    <2>6. JobsAreAimed'
      BY <2>1, <2>2, <2>3, ContinueAims DEF BytesInv
    <2> QED
      BY <2>1, <2>3, <2>4, <2>5, <2>6
         DEF BytesInv, StagedHasItsBytes, ActiveHasItsBytes, KeepsSubmitted, Unfinished, Ending, Open
  <1>4. ASSUME NEW f \in Files, EraseForDraft(c, f)
        PROVE  BytesInv' /\ KeepsSubmitted
    <2>1. draft' = draft /\ file' = file /\ upload' = upload
      BY <1>4 DEF EraseForDraft
    <2>2. Ending /\ draft.status # "LOCKED" /\ \A g \in Files : file[g] # "ACTIVE"
      BY <1>4 DEF EraseForDraft, BytesInv, JobsAreAimed, Ending
    <2>3. \A d \in Cleaners : job'[d].kind \in {"file", "sweep", "release"} => job'[d] = job[d]
      BY <1>0, <1>4 DEF EraseForDraft, SystemTypeOK, Jobs, Idle
    <2>4. JobsAreAimed'
      BY <2>1, <2>2, <2>3 DEF BytesInv, JobsAreAimed, Ending
    <2> QED
      BY <2>1, <2>2, <2>4
         DEF BytesInv, StagedHasItsBytes, ActiveHasItsBytes, KeepsSubmitted, Unfinished, Ending, Open
  <1> QED
    BY <1>1, <1>2, <1>3, <1>4 DEF CleanerStep

LEMMA BytesStep ==
  ASSUME SystemTypeOK, BytesInv, [Next]_vars
  PROVE  BytesInv' /\ KeepsSubmitted
  <1>0. Sweeper \in Cleaners /\ Workers \subseteq Cleaners
    BY DEF Cleaners
  <1>1. CASE Edit \/ Review \/ Submit \/ Submitted \/ DraftDue
    <2>1. UNCHANGED <<file, disk, upload, job>>
      BY <1>1 DEF Edit, Review, Submit, Submitted, DraftDue
    <2>2. /\ ~Open => ~Open'
          /\ ~Ending /\ ~Ending'
          /\ draft.submitted => draft'.submitted
          /\ draft'.submitted => draft'.status = "LOCKED"
      BY <1>1 DEF Edit, Review, Submit, Submitted, DraftDue, Bump, Mutable, Open, Ending, SystemTypeOK,
                  BytesInv, JobsAreAimed
    <2>3. JobsAreAimed'
      BY <2>1, <2>2 DEF BytesInv, JobsAreAimed, Ending
    <2> QED
      BY <2>1, <2>2, <2>3
         DEF BytesInv, StagedHasItsBytes, ActiveHasItsBytes, KeepsSubmitted, Unfinished
  <1>2. CASE Restart
    <2>1. draft' = draft
      BY <1>2 DEF Restart
    <2>2. /\ \A c \in Cleaners : job'[c].kind = "idle"
          /\ \A f \in Files : upload'[f].at \in {"none", "done"}
      BY <1>2 DEF Restart, Idle, NoUpload, UploadOver
    <2>3. \A f \in Files : file[f] = "ACTIVE" => file'[f] = "ACTIVE" /\ disk'[f] = disk[f]
      BY <1>2 DEF Restart, Interrupted, Unfinished
    <2>4. \A f \in Files : file'[f] = "ACTIVE" => file[f] = "ACTIVE"
      BY <1>2 DEF Restart
    <2> QED
      BY <2>1, <2>2, <2>3, <2>4
         DEF BytesInv, JobsAreAimed, StagedHasItsBytes, ActiveHasItsBytes, KeepsSubmitted, Ending
  <1>3. CASE SweepDraft
    BY <1>0, <1>3, DraftDeleteBytes DEF SweepDraft
  <1>4. CASE \E f \in Files : SweepReservation(f)
    <2>0. PICK f \in Files : SweepReservation(f)
      BY <1>4
    <2>1. draft' = draft /\ job' = job /\ upload' = upload
      BY <2>0 DEF SweepReservation
    <2>2. /\ Unfinished(f) /\ file'[f] \in {file[f], "PURGED"}
          /\ \A g \in Files \ {f} : file'[g] = file[g]
      BY <2>0 DEF SweepReservation, Abandoned, Purge, SystemTypeOK
    <2>3. \A g \in Files \ {f} : disk'[g] = disk[g]
      BY <2>0, RemovedType DEF SweepReservation, DiskOutcome
    <2>4. f \notin LateFailures /\ "final" \in disk[f] /\ file'[f] # "PURGED" => "final" \in disk'[f]
      <3>1. PICK ok \in BOOLEAN : Discarded(f, ok) /\ IF ok THEN Purge(f) ELSE UNCHANGED <<file, overdue>>
        BY <2>0 DEF SweepReservation, DiskOutcome
      <3>2. ok => file'[f] = "PURGED"
        BY <3>1 DEF Purge, SystemTypeOK
      <3> QED
        BY <3>1, <3>2, RemovedType
    <2>5. JobsAreAimed'
      BY <2>1, <2>2, StillAimed DEF BytesInv, Unfinished
    <2>6. StagedHasItsBytes'
      BY <2>1, <2>2, <2>3, <2>4 DEF BytesInv, StagedHasItsBytes, Unfinished, Open
    <2>7. ActiveHasItsBytes' /\ KeepsSubmitted
      BY <2>1, <2>2, <2>3 DEF BytesInv, ActiveHasItsBytes, KeepsSubmitted, Unfinished
    <2> QED
      BY <2>5, <2>6, <2>7 DEF BytesInv
  <1>5. CASE \E f \in Files : SweepDeleting(f)
    <2>0. PICK f \in Files : SweepDeleting(f)
      BY <1>5
    <2>1. UNCHANGED <<draft, file, disk, upload>>
      BY <2>0 DEF SweepDeleting
    <2>2. Begin(Sweeper, "sweep", {}, {f}, draft.revision) /\ file[f] = "DELETING"
      BY <2>0 DEF SweepDeleting
    <2>3. JobsAreAimed'
      BY <1>0, <2>1, <2>2, BeginAims DEF BytesInv, JobsAreAimed, Ending
    <2> QED
      BY <2>1, <2>3
         DEF BytesInv, StagedHasItsBytes, ActiveHasItsBytes, KeepsSubmitted, Unfinished, Open
  <1>6. CASE \E w \in Workers : ReleaseSources(w)
    <2>0. PICK w \in Workers : ReleaseSources(w)
      BY <1>6
    <2>1. UNCHANGED <<draft, file, disk, upload>>
      BY <2>0 DEF ReleaseSources
    <2>2. /\ Begin(w, "release", {}, {f \in Files : Released(f)}, draft.revision)
          /\ draft.submitted
      BY <2>0 DEF ReleaseSources, Released
    <2>3. JobsAreAimed'
      BY <1>0, <2>1, <2>2, BeginAims DEF BytesInv, JobsAreAimed, Ending
    <2> QED
      BY <2>1, <2>3
         DEF BytesInv, StagedHasItsBytes, ActiveHasItsBytes, KeepsSubmitted, Unfinished, Open
  <1>7. CASE (\E f \in Files : ReservationDue(f)) \/ UNCHANGED vars
    <2>1. UNCHANGED <<draft, file, disk, upload, job>>
      BY <1>7 DEF ReservationDue, vars, system
    <2> QED
      BY <2>1 DEF BytesInv, JobsAreAimed, StagedHasItsBytes, ActiveHasItsBytes, KeepsSubmitted,
                  Ending, Open, Unfinished
  <1> QED
    BY <1>1, <1>2, <1>3, <1>4, <1>5, <1>6, <1>7, UploadStepBytes, RequestStepBytes,
       CleanerStepBytes DEF Next, Step, SweepStep

LEMMA BytesInvariant == Spec => [](SystemTypeOK /\ BytesInv)
  <1>1. Init => BytesInv
    BY DEF Init, BytesInv, JobsAreAimed, StagedHasItsBytes, ActiveHasItsBytes, Ending, Unfinished,
           Idle, NoUpload
  <1>2. SystemTypeOK /\ SystemTypeOK' /\ BytesInv /\ [Next]_vars => BytesInv'
    BY BytesStep
  <1>3. TypeOK => SystemTypeOK
    BY DEF TypeOK
  <1> QED
    BY <1>1, <1>2, <1>3, FilesTyped, PTL DEF Spec

\* What the employee sees as uploaded is there: no upload, deletion, sweep, release or restart
\* takes the object of an ACTIVE row away before the approval has it.
THEOREM ActiveKeepsBytes == Spec => []ActiveHasItsBytes
  BY BytesInvariant, PTL DEF BytesInv

\* Nothing that was still under way when the draft was locked touches its files before the
\* approval has them.
THEOREM SubmittedStay == Spec => SubmittedFilesStay
  <1>1. SystemTypeOK /\ BytesInv /\ [Next]_vars =>
          [draft.status = "LOCKED" /\ ~draft.submitted =>
             \A f \in Files : file[f] = "ACTIVE" =>
                file'[f] = "ACTIVE" /\ ("final" \in disk[f] => "final" \in disk'[f])]_vars
    BY BytesStep DEF KeepsSubmitted
  <1> QED
    BY <1>1, BytesInvariant, PTL DEF Spec, SubmittedFilesStay

\* What happens to rows: a reservation, an upload that ends, a row released, or a deletion
\* that takes the review back or ends the draft.
LEMMA FileMoves ==
  ASSUME SystemTypeOK, [Next]_vars
  PROVE  \/ \E f \in Files : Reserve(f)
         \/ \A f \in Files :
              \/ file'[f] = file[f] \/ file'[f] \in {"NONE", "PURGED"} \/ Unfinished(f)
              \/ /\ file[f] = "ACTIVE" /\ file'[f] = "DELETING"
                 /\ draft'.status \in {"DRAFT", "EXPIRED"}
  <1> USE DEF SystemTypeOK, Purge
  <1>0. Sweeper \in Cleaners /\ Requests \subseteq Cleaners
    BY DEF Cleaners
  <1>1. ASSUME NEW f \in Files, UploadStep(f), ~Reserve(f)
        PROVE  \A g \in Files :
                 file'[g] = file[g] \/ file'[g] \in {"NONE", "PURGED"} \/ Unfinished(g)
    BY <1>1 DEF UploadStep, MarkWriting, OpenPart, WriteFails, LinkFinal, UnlinkPart,
                Finalize, CancelUpload, Abandon, Owned
  <1>2. ASSUME NEW c \in Cleaners, BeginDraftDelete(c)
        PROVE  \A g \in Files : \/ file'[g] = file[g]
                                \/ /\ file[g] = "ACTIVE" /\ file'[g] = "DELETING"
                                   /\ draft'.status \in {"DRAFT", "EXPIRED"}
    BY <1>2 DEF BeginDraftDelete
  <1>3. ASSUME NEW c \in Requests, RequestStep(c)
        PROVE  \A g \in Files : \/ file'[g] = file[g]
                                \/ /\ file[g] = "ACTIVE" /\ file'[g] = "DELETING"
                                   /\ draft'.status \in {"DRAFT", "EXPIRED"}
    BY <1>0, <1>2, <1>3 DEF RequestStep, ClearFiles, DeleteDraft, DeleteFile, ResumeDelete, Bump
  <1>4. ASSUME NEW c \in Cleaners, CleanerStep(c)
        PROVE  \A g \in Files : file'[g] = file[g] \/ file'[g] \in {"NONE", "PURGED"}
    BY <1>4 DEF CleanerStep, DropDraft, Erase, ReleaseRow, EraseForDraft
  <1>5. CASE SweepStep
    BY <1>0, <1>2, <1>5 DEF SweepStep, SweepDraft, SweepReservation, SweepDeleting
  <1>6. CASE Restart
    BY <1>6 DEF Restart
  <1>7. CASE \/ Edit \/ Review \/ Submit \/ Submitted \/ DraftDue \/ UNCHANGED vars
             \/ (\E w \in Workers : ReleaseSources(w)) \/ \E f \in Files : ReservationDue(f)
    BY <1>7 DEF Edit, Review, Submit, Submitted, DraftDue, vars, system, ReleaseSources, ReservationDue
  <1> QED
    BY <1>1, <1>3, <1>4, <1>5, <1>6, <1>7 DEF Next, Step

\* Nothing comes or goes between the review and the end of the submitted draft.
THEOREM ReviewedSettled == Spec => []ReviewedIsSettled
  <1>1. Init => ReviewedIsSettled
    BY DEF Init, ReviewedIsSettled
  <1>2. ASSUME SystemTypeOK, BytesInv, ReviewedIsSettled, [Next]_vars
        PROVE  ReviewedIsSettled'
    <2>1. CASE \E f \in Files : Reserve(f)
      BY <2>1 DEF Reserve, Bump, ReviewedIsSettled, SystemTypeOK
    <2>2. CASE draft'.status \notin {"REVIEW_READY", "LOCKED"}
      BY <2>2 DEF ReviewedIsSettled
    <2>3. CASE draft.status \in {"REVIEW_READY", "LOCKED"}
      BY <1>2, <2>1, <2>2, <2>3, FileMoves DEF ReviewedIsSettled, Unfinished
    <2>4. CASE draft.status \notin {"REVIEW_READY", "LOCKED"} /\ draft'.status \in {"REVIEW_READY", "LOCKED"}
      <3>1. Review
        BY <1>2, <2>4, DraftMoves
           DEF Bump, Submit, Submitted, DraftDue, BeginDraftDelete, DropDraft, SystemTypeOK
      <3> QED
        BY <1>2, <3>1 DEF Review, Settled, Unfinished, ReviewedIsSettled, SystemTypeOK, FileStatus
    <2> QED
      BY <2>2, <2>3, <2>4
  <1> QED
    BY <1>1, <1>2, BytesInvariant, PTL DEF Spec

-----------------------------------------------------------------------------
(* The quota *)

\* The rows never claim more than there is room for.
WithinQuota == Cardinality(Charged) <= Capacity

LEMMA ChargedIsFinite == IsFiniteSet(Charged) /\ Cardinality(Charged) \in Nat
  <1>1. Charged \subseteq Files
    BY DEF Charged
  <1> QED
    BY <1>1, FS_Subset, FS_CardinalityType

THEOREM QuotaHolds == Spec => []WithinQuota
  <1>1. Init => WithinQuota
    <2> SUFFICES ASSUME Init PROVE WithinQuota
      OBVIOUS
    <2>1. Charged = {}
      BY DEF Init, Charged
    <2> QED
      BY <2>1, FS_EmptySet DEF WithinQuota
  <1>2. ASSUME SystemTypeOK, SystemTypeOK', WithinQuota, [Next]_vars
        PROVE  WithinQuota'
    <2>1. CASE \E f \in Files : Reserve(f)
      <3>1. PICK f \in Files : Reserve(f)
        BY <2>1
      <3>2. Charged' = Charged \cup {f}
        BY <1>2, <3>1 DEF Charged, Reserve, SystemTypeOK
      <3>3. Cardinality(Charged) < Capacity /\ f \notin Charged
        BY <3>1 DEF Reserve, HasRoom, Charged
      <3>4. Cardinality(Charged \cup {f}) = Cardinality(Charged) + 1
        BY <3>3, ChargedIsFinite, FS_AddElement
      <3>5. Cardinality(Charged') <= Capacity
        BY <3>2, <3>3, <3>4, ChargedIsFinite
      <3> QED
        BY <3>5 DEF WithinQuota
    <2>2. CASE ~\E f \in Files : Reserve(f)
      <3>1. Charged' \subseteq Charged
        BY <1>2, <2>2, FileMoves DEF Charged, Unfinished
      <3>2. Cardinality(Charged') \in Nat /\ Cardinality(Charged') <= Cardinality(Charged)
        BY <3>1, ChargedIsFinite, FS_Subset, FS_CardinalityType
      <3>3. Cardinality(Charged') <= Capacity
        BY <1>2, <3>2, ChargedIsFinite DEF WithinQuota
      <3> QED
        BY <3>3 DEF WithinQuota
    <2> QED
      BY <2>1, <2>2
  <1>3. TypeOK => SystemTypeOK
    BY DEF TypeOK
  <1> QED
    BY <1>1, <1>2, <1>3, FilesTyped, PTL DEF Spec

-----------------------------------------------------------------------------
(* What is on disk is paid for *)

\* Where an upload stands by the status of its row: one that is about to write is WRITING,
\* unless a cleanup has given it up, and an object that has been handed over is written no more.
UploadsFollowRows ==
  \A f \in Files :
    /\ upload[f].at = "marked" /\ f \notin overtaken => file[f] = "WRITING"
    /\ file[f] \in {"ACTIVE", "DELETING"} => upload[f].at = "done"

\* What a job has dealt with is gone from the disk and does not come back, but for the objects of
\* threads it did not see coming.
DoneBy(c) ==
  /\ \A f \in job[c].erase \cup job[c].rows : upload[f].at = "done"
  /\ \A f \in job[c].rows : disk[f] = {}
  /\ job[c].kind = "draft" =>
       \A f \in Files \ (job[c].discard \cup job[c].erase \cup overtaken) :
         disk[f] = {} /\ upload[f].at # "marked"

DoneIsGone == \A c \in Cleaners : DoneBy(c)

QuotaInv == UploadsFollowRows /\ DoneIsGone /\ DiskIsCharged

\* Jobs stay as they are, or have their own reason; no object comes back and no upload of a
\* draft that is being deleted is about to write.
LEMMA DoneStays ==
  ASSUME SystemTypeOK, BytesInv, QuotaInv,
         \A f \in Files :
           /\ upload[f].at = "done" => upload'[f].at = "done"
           /\ disk[f] = {} => disk'[f] = {} \/ upload[f].at = "marked"
           /\ upload'[f].at = "marked" => upload[f].at = "marked" \/ ~Ending,
         \A c \in Cleaners : job'[c] = job[c] \/ DoneBy(c)', overtaken \subseteq overtaken'
  PROVE  DoneIsGone'
  <1> SUFFICES ASSUME NEW c \in Cleaners, job'[c] = job[c]
               PROVE  DoneBy(c)'
    BY DEF DoneIsGone
  <1>1. DoneBy(c) /\ job[c] \in Jobs
    BY DEF QuotaInv, DoneIsGone, SystemTypeOK
  <1>2. job[c].kind = "draft" => Ending
    BY DEF BytesInv, JobsAreAimed
  <1> QED
    BY <1>1, <1>2 DEF DoneBy, Jobs

LEMMA UploadStepQuota ==
  ASSUME SystemTypeOK, BytesInv, QuotaInv, NEW f \in Files, UploadStep(f),
         overtaken \subseteq overtaken'
  PROVE  QuotaInv'
  <1> USE DEF SystemTypeOK
  <1>0. /\ job' = job
        /\ \A g \in Files \ {f} : upload'[g] = upload[g] /\ disk'[g] = disk[g] /\ file'[g] = file[g]
    BY OutcomeType, RemovedType
       DEF UploadStep, Reserve, MarkWriting, OpenPart, WriteFails, LinkFinal, UnlinkPart,
           Finalize, CancelUpload, Abandon, UploadAt, UploadEnds, Purge
  <1>1. /\ upload[f].at = "done" => upload'[f].at = "done"
        /\ disk[f] = {} => disk'[f] = {} \/ upload[f].at = "marked"
        /\ upload'[f].at = "marked" => upload[f].at = "marked" \/ ~Ending
    <2> USE DEF UploadAt, UploadEnds, UploadOver, Uploads
    <2>1. CASE Reserve(f)
      BY <2>1 DEF Reserve
    <2>2. CASE MarkWriting(f)
      BY <2>2 DEF MarkWriting, Owned, Mutable, Open, Ending
    <2>3. CASE OpenPart(f) \/ WriteFails(f) \/ LinkFinal(f) \/ UnlinkPart(f) \/ Finalize(f)
               \/ CancelUpload(f)
      BY <2>3 DEF OpenPart, WriteFails, LinkFinal, UnlinkPart, Finalize, CancelUpload
    <2>4. CASE Abandon(f)
      <3>1. upload'[f].at = "done"
        BY <2>4 DEF Abandon
      <3>2. disk'[f] \subseteq disk[f]
        BY <2>4, OutcomeType, RemovedType DEF Abandon
      <3> QED
        BY <3>1, <3>2
    <2> QED
      BY <2>1, <2>2, <2>3, <2>4 DEF UploadStep
  <1>2. DoneIsGone'
    BY <1>0, <1>1, DoneStays
  <1>3. /\ upload'[f].at = "marked" /\ f \notin overtaken => file'[f] = "WRITING"
        /\ file'[f] \in {"ACTIVE", "DELETING"} => upload'[f].at = "done"
        /\ disk'[f] # {} /\ f \notin overtaken => file'[f] \notin {"NONE", "PURGED"}
    <2>0. /\ upload[f].at = "marked" /\ f \notin overtaken => file[f] = "WRITING"
          /\ file[f] \in {"ACTIVE", "DELETING"} => upload[f].at = "done"
          /\ disk[f] # {} /\ f \notin overtaken => file[f] \notin {"NONE", "PURGED"}
      BY DEF QuotaInv, UploadsFollowRows, DiskIsCharged, Stored, Charged
    <2> USE DEF UploadAt, UploadEnds, UploadOver, Uploads
    <2>1. CASE Reserve(f)
      BY <2>0, <2>1 DEF Reserve
    <2>2. CASE MarkWriting(f)
      BY <2>0, <2>2 DEF MarkWriting, Owned
    <2>3. CASE OpenPart(f) \/ WriteFails(f) \/ UnlinkPart(f) \/ CancelUpload(f)
      BY <2>0, <2>3 DEF OpenPart, WriteFails, UnlinkPart, CancelUpload
    <2>4. CASE LinkFinal(f)
      BY <2>0, <2>4 DEF LinkFinal
    <2>5. CASE Finalize(f)
      BY <2>0, <2>5 DEF Finalize, Owned
    <2>6. CASE Abandon(f)
      <3>1. upload'[f].at = "done"
        BY <2>6 DEF Abandon
      <3>2. disk'[f] \subseteq disk[f]
        BY <2>6, OutcomeType, RemovedType DEF Abandon
      <3>3. file'[f] = file[f] \/ disk'[f] = {}
        BY <2>6, OutcomeType, RemovedType DEF Abandon
      <3> QED
        BY <2>0, <3>1, <3>2, <3>3
    <2> QED
      BY <2>1, <2>2, <2>3, <2>4, <2>5, <2>6 DEF UploadStep
  <1> QED
    BY <1>0, <1>2, <1>3 DEF QuotaInv, UploadsFollowRows, DiskIsCharged, Stored, Charged

\* A new job is for files that were handed over; the deletion of a draft leaves out only
\* files that have neither bytes nor a writer.
LEMMA BeginIsDone ==
  ASSUME SystemTypeOK, QuotaInv, NEW c \in Cleaners, NEW kind, NEW discard, NEW erase, NEW revision,
         Begin(c, kind, discard, erase, revision), disk' = disk, upload' = upload,
         \A f \in erase : upload[f].at = "done",
         kind = "draft" =>
           \A f \in Files \ (discard \cup erase) : file[f] \in {"NONE", "PURGED"},
         overtaken \subseteq overtaken'
  PROVE  \A d \in Cleaners : job'[d] = job[d] \/ DoneBy(d)'
  <1>1. /\ \A d \in Cleaners \ {c} : job'[d] = job[d]
        /\ job'[c].kind = kind /\ job'[c].erase = erase /\ job'[c].discard = discard
        /\ job'[c].rows = {}
    BY DEF Begin, SystemTypeOK
  <1>2. \A f \in Files \ overtaken :
          file[f] \in {"NONE", "PURGED"} => disk[f] = {} /\ upload[f].at # "marked"
    BY DEF QuotaInv, UploadsFollowRows, DiskIsCharged, Stored, Charged
  <1>3. DoneBy(c)'
    BY <1>1, <1>2 DEF DoneBy
  <1> QED
    BY <1>1, <1>3

\* Neither the disk nor a row moves except as the quota allows.
LEMMA RowsOnly ==
  ASSUME SystemTypeOK, QuotaInv, disk' = disk, upload' = upload, overtaken \subseteq overtaken',
         \A f \in Files : \/ file'[f] = file[f]
                          \/ file[f] = "ACTIVE" /\ file'[f] = "DELETING"
                          \/ /\ file'[f] \in {"NONE", "PURGED"}
                             /\ f \in overtaken \/ (disk[f] = {} /\ upload[f].at # "marked")
  PROVE  UploadsFollowRows' /\ DiskIsCharged'
  BY DEF QuotaInv, UploadsFollowRows, DiskIsCharged, Stored, Charged

LEMMA BeginQuota ==
  ASSUME SystemTypeOK, BytesInv, QuotaInv, NEW c \in Cleaners,
         \/ BeginDraftDelete(c) \/ ClearFiles(c) \/ ReleaseSources(c)
         \/ \E f \in Files : DeleteFile(c, f) \/ ResumeDelete(c, f)
         \/ c = Sweeper /\ \E f \in Files : SweepDeleting(f),
         overtaken \subseteq overtaken'
  PROVE  QuotaInv'
  <1>1. /\ disk' = disk /\ upload' = upload
        /\ \A f \in Files : \/ file'[f] = file[f]
                            \/ file[f] = "ACTIVE" /\ file'[f] = "DELETING"
    <2>1. CASE BeginDraftDelete(c)
      BY <2>1 DEF SystemTypeOK, BeginDraftDelete
    <2>2. CASE ClearFiles(c)
      BY <2>2 DEF SystemTypeOK, ClearFiles
    <2>3. CASE \E f \in Files : DeleteFile(c, f)
      BY <2>3 DEF SystemTypeOK, DeleteFile
    <2>4. CASE (\E f \in Files : ResumeDelete(c, f) \/ SweepDeleting(f)) \/ ReleaseSources(c)
      BY <2>4 DEF ResumeDelete, SweepDeleting, ReleaseSources
    <2> QED
      BY <2>1, <2>2, <2>3, <2>4
  <1>2. UploadsFollowRows' /\ DiskIsCharged'
    BY <1>1, RowsOnly
  <1>3. \A f \in Files : file[f] \in {"ACTIVE", "DELETING"} => upload[f].at = "done"
    BY DEF QuotaInv, UploadsFollowRows
  <1>4. \A d \in Cleaners : job'[d] = job[d] \/ DoneBy(d)'
    <2>1. CASE BeginDraftDelete(c)
      <3>1. \A f \in Files \ ({g \in Files : Unfinished(g)}
                              \cup {g \in Files : file[g] \in {"ACTIVE", "DELETING"}}) :
              file[f] \in {"NONE", "PURGED"}
        BY DEF SystemTypeOK, FileStatus, Unfinished
      <3> QED
        BY <1>1, <1>3, <2>1, <3>1, BeginIsDone DEF BeginDraftDelete
    <2>2. CASE \E f \in Files : DeleteFile(c, f) \/ ResumeDelete(c, f)
      <3>1. PICK f \in Files : DeleteFile(c, f) \/ ResumeDelete(c, f)
        BY <2>2
      <3>2. PICK revision : Begin(c, "file", {}, {f}, revision)
        BY <3>1 DEF DeleteFile, ResumeDelete
      <3>3. upload[f].at = "done"
        BY <1>3, <3>1 DEF DeleteFile, ResumeDelete
      <3> QED
        BY <1>1, <3>2, <3>3, BeginIsDone
    <2>3. CASE ClearFiles(c)
      BY <1>1, <1>3, <2>3, BeginIsDone DEF ClearFiles
    <2>4. CASE ReleaseSources(c)
      BY <1>1, <1>3, <2>4, BeginIsDone DEF ReleaseSources, Released
    <2>5. CASE c = Sweeper /\ \E f \in Files : SweepDeleting(f)
      BY <1>1, <1>3, <2>5, BeginIsDone DEF SweepDeleting
    <2> QED
      BY <2>1, <2>2, <2>3, <2>4, <2>5
  <1>5. DoneIsGone'
    BY <1>1, <1>4, DoneStays
  <1> QED
    BY <1>2, <1>5 DEF QuotaInv

LEMMA CleanerStepQuota ==
  ASSUME SystemTypeOK, BytesInv, QuotaInv, NEW c \in Cleaners, CleanerStep(c), Recorded
  PROVE  QuotaInv'
  <1>r. overtaken \subseteq overtaken'
    BY DEF Recorded
  <1>0. /\ job[c] \in Jobs /\ DoneBy(c) /\ upload' = upload
        /\ \A d \in Cleaners \ {c} : job'[d] = job[d]
    BY DEF SystemTypeOK, QuotaInv, DoneIsGone, CleanerStep, DropDraft, Erase, ReleaseRow, EraseForDraft,
           Continue
  <1>i. DoneBy(c)' \/ job'[c] # Idle
    BY DEF Idle, DoneBy
  <1>1. CASE DropDraft(c)
    <2>1. \A f \in Files \ overtaken : disk[f] = {} /\ upload[f].at # "marked"
      BY <1>0, <1>1 DEF DropDraft, DoneBy
    <2>2. \A f \in Files : file'[f] = file[f] \/ file'[f] = "NONE"
      BY <1>1 DEF DropDraft
    <2>3. disk' = disk /\ job'[c] = Idle
      BY <1>1 DEF DropDraft, SystemTypeOK
    <2>4. UploadsFollowRows' /\ DiskIsCharged'
      <3>1. \A f \in Files : \/ file'[f] = file[f]
                             \/ /\ file'[f] \in {"NONE", "PURGED"}
                                /\ f \in overtaken \/ (disk[f] = {} /\ upload[f].at # "marked")
        BY <2>1, <2>2
      <3> QED
        BY <1>r, <1>0, <2>3, <3>1, RowsOnly
    <2>5. DoneIsGone'
      BY <1>r, <1>0, <1>i, <2>3, DoneStays
    <2> QED
      BY <2>4, <2>5 DEF QuotaInv
  <1>2. ASSUME NEW f \in Files, Erase(c, f)
        PROVE  QuotaInv'
    <2>1. PICK ok \in BOOLEAN, j \in Jobs :
            /\ Deleted(f, ok) /\ Continue(c, j) /\ j.kind = job[c].kind
            /\ j.erase = job[c].erase \ {f}
            /\ j.rows = IF ok THEN job[c].rows \cup {f} ELSE job[c].rows
      BY <1>2, EraseEffect
    <2>2. /\ \A g \in Files : disk'[g] \subseteq disk[g]
          /\ ok => disk'[f] = {}
      BY <2>1, RemovedType
    <2>3. job'[c] \in {j, Idle} /\ job[c].kind # "draft" /\ f \in job[c].erase /\ file' = file
      BY <1>2, <2>1 DEF Erase, Continue, SystemTypeOK
    <2>4. DoneBy(c)' \/ job'[c] # j
      BY <1>0, <2>1, <2>2, <2>3 DEF DoneBy, Jobs
    <2>5. DoneIsGone'
      BY <1>r, <1>0, <1>i, <2>2, <2>3, <2>4, DoneStays
    <2> QED
      BY <1>0, <1>r, <2>2, <2>3, <2>5 DEF QuotaInv, UploadsFollowRows, DiskIsCharged, Stored, Charged
  <1>3. ASSUME NEW f \in Files, ReleaseRow(c, f)
        PROVE  QuotaInv'
    <2> DEFINE j == [job[c] EXCEPT !.rows = @ \ {f}]
    <2>1. /\ j.kind = job[c].kind /\ j.erase = job[c].erase /\ j.rows = job[c].rows \ {f}
          /\ j.discard = job[c].discard
      BY <1>0 DEF Jobs
    <2>2. Continue(c, j) /\ disk' = disk /\ job[c].kind # "draft"
      BY <1>3 DEF ReleaseRow
    <2> HIDE DEF j
    <2>3. job'[c] \in {j, Idle}
      BY <2>2 DEF Continue, SystemTypeOK
    <2>4. \A g \in Files : \/ file'[g] = file[g]
                           \/ g = f /\ file'[g] = "PURGED" /\ file[g] \in {"ACTIVE", "DELETING"}
      BY <1>3 DEF ReleaseRow, Purge, Released, SystemTypeOK
    <2>5. disk[f] = {} /\ upload[f].at # "marked"
      BY <1>0, <1>3 DEF ReleaseRow, RowsDue, DoneBy
    <2>6. UploadsFollowRows' /\ DiskIsCharged'
      BY <1>r, <1>0, <2>2, <2>4, <2>5, RowsOnly
    <2>7. DoneBy(c)' \/ job'[c] # j
      BY <1>0, <2>1, <2>2 DEF DoneBy
    <2>8. DoneIsGone'
      BY <1>r, <1>0, <1>i, <2>2, <2>3, <2>7, DoneStays
    <2> QED
      BY <2>6, <2>8 DEF QuotaInv
  <1>4. ASSUME NEW f \in Files, EraseForDraft(c, f)
        PROVE  QuotaInv'
    <2> DEFINE j == [job[c] EXCEPT !.discard = @ \ {f}, !.erase = @ \ {f}]
    <2>1. PICK ok \in BOOLEAN :
            /\ \/ f \in job[c].discard /\ ok \in DiskOutcome /\ Discarded(f, ok)
               \/ f \in job[c].erase /\ ok \in DeleteOutcome(f) /\ Deleted(f, ok)
            /\ job' = [job EXCEPT ![c] = IF ok THEN j ELSE Idle]
      BY <1>4 DEF EraseForDraft
    <2>2. /\ j.kind = job[c].kind /\ j.erase = job[c].erase \ {f} /\ j.rows = job[c].rows
          /\ j.discard = job[c].discard \ {f}
      BY <1>0 DEF Jobs
    <2>3. job'[c] = IF ok THEN j ELSE Idle
      BY <2>1 DEF SystemTypeOK
    <2> HIDE DEF j
    <2>4. /\ \A g \in Files : disk'[g] \subseteq disk[g]
          /\ ok => disk'[f] = {}
      BY <2>1, RemovedType
    <2>5. upload[f].at = "marked" /\ ok => f \in overtaken'
      <3>1. SUFFICES ASSUME upload[f].at = "marked", ok
                     PROVE  GivenUp(f)
        BY <1>0 DEF Recorded
      <3>2. f \in job[c].discard /\ job[c].kind = "draft"
        BY <1>0, <1>4, <2>1, <3>1 DEF DoneBy, EraseForDraft
      <3> QED
        BY <2>2, <2>3, <3>1, <3>2 DEF GivenUp
    <2>6. DoneBy(c)' \/ job'[c] # j \/ ~ok
      BY <1>0, <1>r, <2>2, <2>4, <2>5 DEF DoneBy, Jobs
    <2>7. file' = file
      BY <1>4 DEF EraseForDraft
    <2>8. DoneIsGone'
      BY <1>r, <1>0, <1>i, <2>3, <2>4, <2>6, DoneStays
    <2> QED
      BY <1>0, <1>r, <2>4, <2>7, <2>8 DEF QuotaInv, UploadsFollowRows, DiskIsCharged, Stored, Charged
  <1> QED
    BY <1>1, <1>2, <1>3, <1>4 DEF CleanerStep

LEMMA QuotaStep ==
  ASSUME SystemTypeOK, BytesInv, QuotaInv, [Next]_vars
  PROVE  QuotaInv'
  <1>0. Sweeper \in Cleaners /\ Workers \subseteq Cleaners /\ Requests \subseteq Cleaners
    BY DEF Cleaners
  <1>r. overtaken \subseteq overtaken' /\ (Recorded \/ UNCHANGED vars)
    BY DEF Next, Recorded, vars
  <1>1. ASSUME UNCHANGED <<file, disk, upload, job>>
        PROVE  QuotaInv'
    BY <1>1, <1>r DEF QuotaInv, UploadsFollowRows, DoneIsGone, DoneBy, DiskIsCharged, Stored, Charged
  <1>2. CASE \/ Edit \/ Review \/ Submit \/ Submitted \/ DraftDue \/ UNCHANGED vars
             \/ \E f \in Files : ReservationDue(f)
    BY <1>1, <1>2 DEF Edit, Review, Submit, Submitted, DraftDue, ReservationDue, vars, system
  <1>3. CASE Restart
    <2>1. /\ \A c \in Cleaners : job'[c] = Idle
          /\ \A f \in Files : upload'[f].at \in {"none", "done"} /\
                              (upload[f].at = "done" => upload'[f].at = "done")
          /\ \A f \in Files : file'[f] \in {"ACTIVE", "DELETING"} =>
                                upload'[f].at = "done"
      BY <1>3 DEF Restart, NoUpload, UploadOver, QuotaInv, UploadsFollowRows
    <2>2. \A f \in Files : \/ disk'[f] = {}
                           \/ disk'[f] = disk[f] /\ file'[f] = file[f]
      BY <1>3 DEF Restart
    <2> QED
      BY <1>r, <2>1, <2>2 DEF QuotaInv, UploadsFollowRows, DoneIsGone, DoneBy, DiskIsCharged, Stored, Charged, Idle
  <1>4. CASE SweepDraft
    BY <1>0, <1>4, <1>r, BeginQuota DEF SweepDraft
  <1>5. CASE \E f \in Files : SweepReservation(f)
    <2>0. PICK f \in Files : SweepReservation(f)
      BY <1>5
    <2>1. PICK ok \in BOOLEAN :
            Discarded(f, ok) /\ IF ok THEN Purge(f) ELSE UNCHANGED <<file, overdue>>
      BY <2>0 DEF SweepReservation, DiskOutcome
    <2>2. upload' = upload /\ job' = job
      BY <2>0 DEF SweepReservation
    <2>3. /\ \A g \in Files : disk'[g] \subseteq disk[g]
          /\ ok => disk'[f] = {}
      BY <2>1, RemovedType
    <2>4. \A g \in Files : \/ file'[g] = file[g]
                           \/ g = f /\ ok /\ file'[g] = "PURGED"
      BY <2>1 DEF Purge, SystemTypeOK
    <2>5. DoneIsGone'
      BY <1>r, <2>2, <2>3, DoneStays
    <2>6. upload[f].at = "marked" /\ file'[f] = "PURGED" => f \in overtaken' \/ file'[f] = file[f]
      BY <1>r, <2>2 DEF Recorded, GivenUp, vars, system
    <2> QED
      BY <1>r, <2>2, <2>3, <2>4, <2>5, <2>6 DEF QuotaInv, UploadsFollowRows, DiskIsCharged, Stored, Charged
  <1>6. CASE \E f \in Files : SweepDeleting(f)
    BY <1>0, <1>6, <1>r, BeginQuota
  <1>7. CASE \E w \in Workers : ReleaseSources(w)
    BY <1>0, <1>7, <1>r, BeginQuota
  <1>8. CASE \E c \in Requests : RequestStep(c)
    BY <1>0, <1>8, <1>r, BeginQuota DEF RequestStep, DeleteDraft
  <1> QED
    BY <1>2, <1>3, <1>4, <1>5, <1>6, <1>7, <1>8, <1>r, UploadStepQuota, CleanerStepQuota
       DEF Next, Step, SweepStep

\* Whatever the staging directory holds, a row still pays for it, but for an object whose thread
\* opened it after a cleanup had given its reservation up.
THEOREM DiskCharged == Spec => []DiskIsCharged
  <1>1. Init => QuotaInv
    BY DEF Init, QuotaInv, UploadsFollowRows, DoneIsGone, DoneBy, DiskIsCharged, Stored, Idle, NoUpload
  <1>2. SystemTypeOK /\ BytesInv /\ QuotaInv /\ [Next]_vars => QuotaInv'
    BY QuotaStep
  <1>3. QuotaInv => DiskIsCharged
    BY DEF QuotaInv
  <1> QED
    BY <1>1, <1>2, <1>3, BytesInvariant, PTL DEF Spec

\* Rows and bytes together stay within the room there is, but for those objects.
THEOREM CapacityHolds == Spec => []WithinCapacity
  <1>1. ASSUME WithinQuota, DiskIsCharged
        PROVE  WithinCapacity
    <2>1. Charged \cup Stored = Charged
      BY <1>1 DEF DiskIsCharged
    <2> QED
      BY <1>1, <2>1 DEF WithinQuota, WithinCapacity
  <1> QED
    BY <1>1, DiskCharged, QuotaHolds, PTL

\* The module's whole invariant.
THEOREM FilesInvariant == Spec => []Inv
  BY FilesTyped, DiskCharged, CapacityHolds, ReviewedSettled, PTL DEF Inv
=============================================================================
