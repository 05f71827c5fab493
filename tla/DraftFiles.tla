------------------------------ MODULE DraftFiles ------------------------------
(***************************************************************************)
(* The files of one reimbursement draft: their rows, the bytes behind them *)
(* in the staging directory, and the storage quota the rows stand for.     *)
(*                                                                         *)
(* An upload reserves quota and a storage key, writes a .part object in a  *)
(* worker thread, links it to its final name and turns the row ACTIVE.     *)
(* Deleting is a durable intent (DELETING) followed by the disk and then   *)
(* the row.  Uploads, deletions of files and of the whole draft, and the   *)
(* periodic sweep run side by side in one server process; a restart kills  *)
(* them all.  Once the approval has its attachments, the submission        *)
(* workers release what is left.  One step is a transaction, or one change *)
(* of a directory.                                                         *)
(***************************************************************************)
EXTENDS Naturals, FiniteSets

CONSTANTS
  Files,         \* the uploads of this draft, each with its own row and key
  Requests,      \* concurrent delete requests
  Sweeper,       \* the periodic sweep
  Workers,       \* the submission workers
  Capacity,      \* files the quota has room for
  MaxRevision,   \* bound on the revision; expiry may still take it one further
  DiskFaults,    \* may a disk operation of a cleanup fail?
  LateFailures   \* files where it may fail after it removed everything, as fsync can

ASSUME SweeperAssumption == Sweeper \notin Requests \cup Workers
ASSUME WorkersAssumption == Requests \cap Workers = {}
ASSUME FilesAssumption == IsFiniteSet(Files)
ASSUME BoundAssumption == Capacity \in Nat /\ MaxRevision \in Nat \ {0}
ASSUME SwitchAssumption ==
  DiskFaults \in BOOLEAN /\ LateFailures \subseteq Files

VARIABLES
  draft,    \* the reimbursement_drafts row, and whether its submission is SUBMITTED
  file,     \* file_status per file, NONE before the row exists and after it is gone
  overdue,  \* files whose reservation_expires_at has passed
  disk,     \* the names each file has in the staging directory
  upload,   \* the request that uploads each file
  job,      \* what each delete request and the sweep is doing
  overtaken \* files whose reservation a cleanup gave up before their thread had
            \* opened its part object.  A history variable: no step depends on it.

system == <<draft, file, overdue, disk, upload, job>>
vars == <<system, overtaken>>

Cleaners == Requests \cup {Sweeper} \cup Workers

DraftStatus == {"DRAFT", "REVIEW_READY", "LOCKED", "EXPIRED", "GONE"}
FileStatus == {"NONE", "RESERVED", "WRITING", "ACTIVE", "DELETING", "PURGED"}

\* reserved, then marked as being written; writing: the part object is open;
\* linked: it also has its final name; staged: the thread has returned.
UploadSteps == {"none", "reserved", "marked", "writing", "linked", "staged", "failed", "done"}

Uploads == [at : UploadSteps, revision : 0..(MaxRevision + 1)]

\* The sweep's own deletions carry stronger conditions than a request's.
Jobs == [kind : {"idle", "file", "sweep", "draft", "release"}, revision : 0..(MaxRevision + 1),
         discard : SUBSET Files, erase : SUBSET Files, rows : SUBSET Files]

NoUpload == [at |-> "none", revision |-> 0]
UploadOver == [at |-> "done", revision |-> 0]
Idle == [kind |-> "idle", revision |-> 0, discard |-> {}, erase |-> {}, rows |-> {}]

Init ==
  /\ draft = [status |-> "DRAFT", revision |-> 1, due |-> FALSE, submitted |-> FALSE]
  /\ file = [f \in Files |-> "NONE"]
  /\ overdue = {}
  /\ disk = [f \in Files |-> {}]
  /\ upload = [f \in Files |-> NoUpload]
  /\ job = [c \in Cleaners |-> Idle]
  /\ overtaken = {}

-----------------------------------------------------------------------------
(* The draft row *)

Open == draft.status \in {"DRAFT", "REVIEW_READY"}
Mutable == Open /\ ~draft.due

\* bump_owned_draft_revision with the revision the caller expects; every change
\* of what the draft holds goes through it and takes the review back.
Bump ==
  /\ Mutable
  /\ draft.revision < MaxRevision
  /\ draft' = [draft EXCEPT !.revision = @ + 1, !.status = "DRAFT"]

Unfinished(f) == file[f] \in {"RESERVED", "WRITING"}

\* Rows whose reserved_bytes the quota counts.
Charged == {f \in Files : file[f] \notin {"NONE", "PURGED"}}

\* Any other change of the draft: its input, its approvals, a file's purpose.
Edit == Bump /\ UNCHANGED <<file, overdue, disk, upload, job>>

\* A file that is neither coming nor going.
Settled(f) == ~Unfinished(f) /\ file[f] # "DELETING"

\* mark_reimbursement_draft_review_ready
Review ==
  /\ Mutable
  /\ draft.status = "DRAFT"
  /\ draft.revision < MaxRevision
  /\ \A f \in Files : Settled(f)
  /\ draft' = [draft EXCEPT !.revision = @ + 1, !.status = "REVIEW_READY"]
  /\ UNCHANGED <<file, overdue, disk, upload, job>>

\* create_submission locks the reviewed revision.
Submit ==
  /\ draft.status = "REVIEW_READY"
  /\ ~draft.due
  /\ draft.revision < MaxRevision
  /\ draft' = [draft EXCEPT !.revision = @ + 1, !.status = "LOCKED"]
  /\ UNCHANGED <<file, overdue, disk, upload, job>>

\* mark_submission_submitted: the approval was read back with every attachment.
Submitted ==
  /\ draft.status = "LOCKED" /\ ~draft.submitted
  /\ draft' = [draft EXCEPT !.submitted = TRUE]
  /\ UNCHANGED <<file, overdue, disk, upload, job>>

DraftDue ==
  /\ Open /\ ~draft.due
  /\ draft' = [draft EXCEPT !.due = TRUE]
  /\ UNCHANGED <<file, overdue, disk, upload, job>>

ReservationDue(f) ==
  /\ Unfinished(f) /\ f \notin overdue
  /\ overdue' = overdue \cup {f}
  /\ UNCHANGED <<draft, file, disk, upload, job>>

-----------------------------------------------------------------------------
(* Uploading *)

UploadAt(f, step) == upload' = [upload EXCEPT ![f].at = step]

UploadEnds(f) == upload' = [upload EXCEPT ![f] = UploadOver]

\* _admit: what is asked for fits into what is left.
HasRoom == Cardinality(Charged) < Capacity

\* reserve_draft_file: admission, revision and row in one write transaction.
Reserve(f) ==
  /\ file[f] = "NONE" /\ upload[f].at = "none"
  /\ HasRoom
  /\ Bump
  /\ file' = [file EXCEPT ![f] = "RESERVED"]
  /\ upload' = [upload EXCEPT ![f] = [at |-> "reserved", revision |-> draft'.revision]]
  /\ UNCHANGED <<overdue, disk, job>>

\* Faulty variant: whatever became of the draft, the reservation counts.
OwnedWhateverDraft(f) == Unfinished(f)

\* _owned_record: the reservation is still the caller's and so is the revision.
Owned(f) ==
  /\ Unfinished(f)
  /\ Mutable
  /\ draft.revision = upload[f].revision

MarkWriting(f) ==
  /\ upload[f].at = "reserved"
  /\ IF Owned(f) /\ file[f] = "RESERVED" /\ f \notin overdue
     THEN file' = [file EXCEPT ![f] = "WRITING"] /\ UploadAt(f, "marked")
     ELSE UNCHANGED file /\ UploadAt(f, "failed")
  /\ UNCHANGED <<draft, overdue, disk, job>>

OpenPart(f) ==
  /\ upload[f].at = "marked"
  /\ disk' = [disk EXCEPT ![f] = @ \cup {"part"}]
  /\ UploadAt(f, "writing")
  /\ UNCHANGED <<draft, file, overdue, job>>

\* Wrong size, full disk: the thread takes its part object back.
WriteFails(f) ==
  /\ upload[f].at \in {"marked", "writing"}
  /\ disk' = [disk EXCEPT ![f] = @ \ {"part"}]
  /\ UploadAt(f, "failed")
  /\ UNCHANGED <<draft, file, overdue, job>>

\* The link fails when a cleanup has taken the part object away.
LinkFinal(f) ==
  /\ upload[f].at = "writing"
  /\ IF "part" \in disk[f]
     THEN disk' = [disk EXCEPT ![f] = @ \cup {"final"}] /\ UploadAt(f, "linked")
     ELSE UNCHANGED disk /\ UploadAt(f, "failed")
  /\ UNCHANGED <<draft, file, overdue, job>>

\* A link that worked is kept even when dropping the part object fails.
UnlinkPart(f) ==
  /\ upload[f].at = "linked"
  /\ disk' = [disk EXCEPT ![f] = @ \ {"part"}]
  /\ UploadAt(f, IF "part" \in disk[f] THEN "staged" ELSE "failed")
  /\ UNCHANGED <<draft, file, overdue, job>>

\* finalize_draft_file
Finalize(f) ==
  /\ upload[f].at = "staged"
  /\ IF Owned(f) /\ file[f] = "WRITING"
     THEN /\ file' = [file EXCEPT ![f] = "ACTIVE"]
          /\ overdue' = overdue \ {f}
          /\ UploadEnds(f)
     ELSE UNCHANGED <<file, overdue>> /\ UploadAt(f, "failed")
  /\ UNCHANGED <<draft, disk, job>>

\* The caller went away: the request waits for its thread, then gives up.
CancelUpload(f) ==
  /\ upload[f].at = "staged"
  /\ UploadAt(f, "failed")
  /\ UNCHANGED <<draft, file, overdue, disk, job>>

\* What a removal leaves: nothing when it works; when it fails, one of the
\* stages, or nothing after all.
Removed(f, ok, stages) ==
  \E left \in CASE ok -> {{}} [] ~ok -> stages \cup IF f \in LateFailures THEN {{}} ELSE {} :
    disk' = [disk EXCEPT ![f] = left]

\* discard_reservation removes the part object, then the final one.
Discarded(f, ok) == Removed(f, ok, {disk[f], disk[f] \ {"part"}})

Deleted(f, ok) == Removed(f, ok, {disk[f]})

\* Whether a disk operation of a cleanup works.
DiskOutcome == IF DiskFaults THEN BOOLEAN ELSE {TRUE}

\* Faulty variant: an object that is not there cannot be deleted.
DeleteExisting(f) == IF "final" \in disk[f] THEN DiskOutcome ELSE {FALSE}

\* Deleting an object that is gone already is a success (missing_ok).
DeleteOutcome(f) == DiskOutcome

Purge(f) == file' = [file EXCEPT ![f] = "PURGED"] /\ overdue' = overdue \ {f}

\* abandon_draft_file: the disk and the row in one transaction; a row that is no
\* longer unfinished is left alone.
Abandon(f) ==
  /\ upload[f].at = "failed"
  /\ UploadEnds(f)
  /\ IF Unfinished(f)
     THEN \E ok \in DiskOutcome :
            /\ Discarded(f, ok)
            /\ IF ok THEN Purge(f) ELSE UNCHANGED <<file, overdue>>
     ELSE UNCHANGED <<file, overdue, disk>>
  /\ UNCHANGED <<draft, job>>

-----------------------------------------------------------------------------
(* Deleting files *)

Begin(c, kind, discard, erase, revision) ==
  job' = [job EXCEPT ![c] = [kind |-> kind, revision |-> revision, discard |-> discard,
                             erase |-> erase, rows |-> {}]]

\* A job with nothing left to do is over.
Continue(c, j) ==
  job' = [job EXCEPT ![c] =
            IF j.kind # "draft" /\ j.erase = {} /\ j.rows = {} THEN Idle ELSE j]

\* begin_draft_file_delete of an active file.
DeleteFile(c, f) ==
  /\ job[c].kind = "idle"
  /\ file[f] = "ACTIVE"
  /\ Bump
  /\ file' = [file EXCEPT ![f] = "DELETING"]
  /\ Begin(c, "file", {}, {f}, draft'.revision)
  /\ UNCHANGED <<overdue, disk, upload>>

\* begin_draft_file_delete of a file whose deletion did not finish: the draft
\* need not be mutable and keeps its revision.
ResumeDelete(c, f) ==
  /\ job[c].kind = "idle"
  /\ file[f] = "DELETING"
  /\ Begin(c, "file", {}, {f}, draft.revision)
  /\ UNCHANGED <<draft, file, overdue, disk, upload>>

\* begin_draft_files_clear
ClearFiles(c) ==
  LET targets == {f \in Files : file[f] \in {"ACTIVE", "DELETING"}} IN
  /\ job[c].kind = "idle"
  /\ \A f \in Files : ~Unfinished(f)
  /\ targets # {}
  /\ Bump
  /\ file' = [f \in Files |-> IF f \in targets THEN "DELETING" ELSE file[f]]
  /\ Begin(c, "file", {}, targets, draft'.revision)
  /\ UNCHANGED <<overdue, disk, upload>>

\* The bytes first.  A deletion that fails leaves the intent behind.
Erase(c, f) ==
  /\ job[c].kind \in {"file", "sweep", "release"}
  /\ f \in job[c].erase
  /\ \E ok \in DeleteOutcome(f) :
       /\ Deleted(f, ok)
       /\ Continue(c, [job[c] EXCEPT !.erase = @ \ {f},
                                     !.rows = IF ok THEN @ \cup {f} ELSE @])
  /\ UNCHANGED <<draft, file, overdue, upload>>

\* Faulty variant: the row is released before the bytes.
RowsBeforeBytes(c) == job[c].erase \cup job[c].rows

\* Files whose bytes this job has removed and whose row is still to follow.
RowsDue(c) == job[c].rows

\* Faulty variant: a locked draft's files are released before its approval has them.
ReleasedWhenLocked(f) == draft.status = "LOCKED" /\ file[f] = "ACTIVE"

\* _bundled_source_release_query
Released(f) == draft.submitted /\ file[f] = "ACTIVE"

\* Then the row, if the draft is still the one the deletion saw; a source's, if it is
\* still to be released (finalize_bundled_source_release).
ReleaseRow(c, f) ==
  /\ job[c].kind \in {"file", "sweep", "release"}
  /\ f \in RowsDue(c)
  /\ IF IF job[c].kind = "release" THEN Released(f)
        ELSE /\ file[f] = "DELETING"
             /\ draft.revision = job[c].revision
             /\ job[c].kind = "sweep" => Mutable
     THEN Purge(f)
     ELSE UNCHANGED <<file, overdue>>
  /\ Continue(c, [job[c] EXCEPT !.rows = @ \ {f}])
  /\ UNCHANGED <<draft, disk, upload>>

-----------------------------------------------------------------------------
(* Deleting the draft *)

Deletable == draft.status \notin {"LOCKED", "GONE"}

\* delete_owned_draft, first transaction: persist the intent.  A draft that is
\* EXPIRED already is resumed at the revision it has.
BeginDraftDelete(c) ==
  /\ job[c].kind = "idle"
  /\ Deletable
  /\ draft' = IF draft.status = "EXPIRED" THEN draft
              ELSE [draft EXCEPT !.status = "EXPIRED", !.revision = @ + 1]
  /\ file' = [f \in Files |-> IF file[f] = "ACTIVE" THEN "DELETING" ELSE file[f]]
  /\ Begin(c, "draft", {f \in Files : Unfinished(f)},
           {f \in Files : file[f] \in {"ACTIVE", "DELETING"}}, draft'.revision)
  /\ UNCHANGED <<overdue, disk, upload>>

DeleteDraft(c) == c \in Requests /\ BeginDraftDelete(c)

\* Then the disk, outside any transaction; a failure ends the request.
EraseForDraft(c, f) ==
  /\ job[c].kind = "draft"
  /\ \E ok \in BOOLEAN :
       /\ \/ f \in job[c].discard /\ ok \in DiskOutcome /\ Discarded(f, ok)
          \/ f \in job[c].erase /\ ok \in DeleteOutcome(f) /\ Deleted(f, ok)
       /\ job' = [job EXCEPT ![c] =
                    IF ok THEN [job[c] EXCEPT !.discard = @ \ {f}, !.erase = @ \ {f}] ELSE Idle]
  /\ UNCHANGED <<draft, file, overdue, upload>>

\* Second transaction: the row, and with it the rows of its files.
DropDraft(c) ==
  /\ job[c].kind = "draft" /\ job[c].discard = {} /\ job[c].erase = {}
  /\ job' = [job EXCEPT ![c] = Idle]
  /\ IF draft.status = "EXPIRED" /\ draft.revision = job[c].revision
     THEN /\ draft' = [draft EXCEPT !.status = "GONE"]
          /\ file' = [f \in Files |-> "NONE"]
          /\ overdue' = {}
     ELSE UNCHANGED <<draft, file, overdue>>
  /\ UNCHANGED <<disk, upload>>

-----------------------------------------------------------------------------
(* The sweep and the restart *)

OutOfTime == Open /\ draft.due

\* What the sweep takes for deletion: drafts out of time, and deletions that did
\* not finish.
DraftToSweep == OutOfTime \/ draft.status = "EXPIRED"

SweepDraft == DraftToSweep /\ BeginDraftDelete(Sweeper)

Abandoned(f) == Unfinished(f) /\ f \in overdue /\ Mutable

\* reclaim_expired: an abandoned reservation, disk and row in one transaction.
SweepReservation(f) ==
  /\ job[Sweeper].kind = "idle"
  /\ Abandoned(f)
  /\ \E ok \in DiskOutcome :
       /\ Discarded(f, ok)
       /\ IF ok THEN Purge(f) ELSE UNCHANGED <<file, overdue>>
  /\ UNCHANGED <<draft, upload, job>>

SweepDeleting(f) ==
  /\ job[Sweeper].kind = "idle"
  /\ file[f] = "DELETING"
  /\ Mutable
  /\ Begin(Sweeper, "sweep", {}, {f}, draft.revision)
  /\ UNCHANGED <<draft, file, overdue, disk, upload>>

\* The sources of a submitted draft, bytes and rows as in a deletion
\* (release_linked_local_files); several workers may read the same list.
ReleaseSources(w) ==
  LET sources == {f \in Files : Released(f)} IN
  /\ job[w].kind = "idle" /\ sources # {}
  /\ Begin(w, "release", {}, sources, draft.revision)
  /\ UNCHANGED <<draft, file, overdue, disk, upload>>

\* Reservations whose upload cannot have survived.
Interrupted == {f \in Files : Open /\ Unfinished(f)}

\* The process dies and starts again: reclaim_interrupted_local_writes runs
\* before any request, and skips a file whose objects it cannot remove.
Restart ==
  /\ \/ \E f \in Files : upload[f].at \notin {"none", "done"}
     \/ \E c \in Cleaners : job[c].kind # "idle"
  /\ upload' = [f \in Files |-> IF upload[f].at = "none" THEN NoUpload ELSE UploadOver]
  /\ job' = [c \in Cleaners |-> Idle]
  /\ \E skipped \in IF DiskFaults THEN SUBSET Interrupted ELSE {{}} :
       LET reclaimed == Interrupted \ skipped IN
       /\ disk' = [f \in Files |-> IF f \in reclaimed THEN {} ELSE disk[f]]
       /\ file' = [f \in Files |-> IF f \in reclaimed THEN "PURGED" ELSE file[f]]
       /\ overdue' = overdue \ reclaimed
  /\ UNCHANGED draft

-----------------------------------------------------------------------------

UploadStep(f) ==
  \/ Reserve(f) \/ MarkWriting(f) \/ OpenPart(f) \/ WriteFails(f) \/ LinkFinal(f)
  \/ UnlinkPart(f) \/ Finalize(f) \/ CancelUpload(f) \/ Abandon(f)

RequestStep(c) ==
  \/ ClearFiles(c)
  \/ DeleteDraft(c)
  \/ \E f \in Files : DeleteFile(c, f) \/ ResumeDelete(c, f)

CleanerStep(c) ==
  \/ DropDraft(c)
  \/ \E f \in Files : Erase(c, f) \/ ReleaseRow(c, f) \/ EraseForDraft(c, f)

SweepStep == SweepDraft \/ \E f \in Files : SweepReservation(f) \/ SweepDeleting(f)

\* A reservation that a cleanup gives up: its bytes, as far as they have come, and
\* its row at once or with that of the draft.
GivenUp(f) ==
  \/ file'[f] = "PURGED"
  \/ \E c \in Cleaners : job'[c].kind = "draft" /\ f \in job[c].discard \ job'[c].discard

\* mark_writing was committed, and the thread that opens the object is yet to run.
Recorded ==
  overtaken' = overtaken \cup {f \in Files : upload'[f].at = "marked" /\ GivenUp(f)}

Step ==
  \/ Edit \/ Review \/ Submit \/ Submitted \/ DraftDue \/ Restart \/ SweepStep
  \/ \E w \in Workers : ReleaseSources(w)
  \/ \E f \in Files : ReservationDue(f) \/ UploadStep(f)
  \/ \E c \in Requests : RequestStep(c)
  \/ \E c \in Cleaners : CleanerStep(c)

Next == Step /\ Recorded

Spec == Init /\ [][Next]_vars

\* A writer thread runs to its end and reservations do run out; the sweep comes
\* round again, and neither a restart nor the disk gets in its way every time.
Fairness ==
  /\ WF_system(\E f \in Files : ReservationDue(f))
  /\ WF_system(\E f \in Files : MarkWriting(f) \/ OpenPart(f) \/ LinkFinal(f) \/ UnlinkPart(f)
                             \/ Finalize(f) \/ Abandon(f))
  /\ WF_system(\E c \in Requests, f \in Files :
               Erase(c, f) \/ ReleaseRow(c, f) \/ EraseForDraft(c, f))
  /\ SF_system(\E f \in Files : SweepReservation(f) /\ ~Unfinished(f)')
  /\ SF_system(SweepDraft \/ (\E f \in Files : SweepDeleting(f)) \/ \E w \in Workers : ReleaseSources(w))
  /\ SF_system(\E c \in {Sweeper} \cup Workers, f \in Files :
               \/ Erase(c, f) /\ f \in job'[c].rows
               \/ EraseForDraft(c, f) /\ job'[c].kind = "draft")
  /\ SF_system(DropDraft(Sweeper) \/ \E c \in {Sweeper} \cup Workers, f \in Files : ReleaseRow(c, f))

FairSpec == Spec /\ Fairness

-----------------------------------------------------------------------------
(* Properties *)

\* Every variable of the code has its type.
SystemTypeOK ==
  /\ draft \in [status : DraftStatus, revision : 1..(MaxRevision + 1), due : BOOLEAN,
             submitted : BOOLEAN]
  /\ file \in [Files -> FileStatus]
  /\ overdue \subseteq Files
  /\ disk \in [Files -> SUBSET {"part", "final"}]
  /\ upload \in [Files -> Uploads]
  /\ job \in [Cleaners -> Jobs]

\* Every variable has its type.
TypeOK == SystemTypeOK /\ overtaken \subseteq Files

\* A file the employee sees as uploaded has its bytes: no cleanup, retry, sweep
\* or restart takes the object of an ACTIVE row away (finalize_draft_file against
\* discard_reservation, delete_owned_draft and the deletions) until it is in the
\* approval.  Where an overdue reservation can lose its object to a removal that
\* reports failure, it may.
ActiveHasItsBytes ==
  \A f \in Files \ LateFailures : file[f] = "ACTIVE" /\ ~draft.submitted => "final" \in disk[f]

\* What the staging directory holds, but for the objects of overtaken threads.
Stored == {f \in Files \ overtaken : disk[f] # {}}

\* Quota is given back only for bytes that are gone: whatever the directory
\* holds, a row still pays for it.
DiskIsCharged == Stored \subseteq Charged

\* The objects on disk and those still to come stay within the limit.
WithinCapacity == Cardinality(Charged \cup Stored) <= Capacity

\* The files of a locked draft stay, rows and bytes, until its approval has them:
\* whatever deletions and sweeps are still under way when it is locked, and however
\* its workers look for something to release.
SubmittedFilesStay ==
  [][draft.status = "LOCKED" /\ ~draft.submitted =>
       \A f \in Files : file[f] = "ACTIVE" =>
          file'[f] = "ACTIVE" /\ ("final" \in disk[f] => "final" \in disk'[f])]_vars

\* What was reviewed is what is submitted: from the moment the draft is reviewed
\* to the end of a submitted draft no file is on its way in or out.
ReviewedIsSettled ==
  draft.status \in {"REVIEW_READY", "LOCKED"} =>
    \A f \in Files : file[f] \in {"NONE", "ACTIVE", "PURGED"}

\* The module's invariant: every byte on disk is paid for by a row within the
\* quota, and a reviewed draft is at rest, however uploads, deletions, sweeps and
\* restarts meet.
Inv == TypeOK /\ DiskIsCharged /\ WithinCapacity /\ ReviewedIsSettled

\* What was promised is carried out: a reservation ends and a deletion is done,
\* by its request, a retry, the sweep or start-up, also when other changes move
\* the revision under it; a draft whose deletion has begun disappears, and so do the
\* sources of a submitted one.
Owing == draft.status = "EXPIRED" \/ \E f \in Files : ~Settled(f) \/ Released(f)

CleanupEnds == Owing ~> ~Owing
=============================================================================
