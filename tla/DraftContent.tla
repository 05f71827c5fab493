----------------------------- MODULE DraftContent -----------------------------
(***************************************************************************)
(* What one reimbursement draft says: its input, the purpose of each of    *)
(* its files and what OCR made of them, up to the submission that freezes  *)
(* it.                                                                     *)
(*                                                                         *)
(* The requests of a browser (autosave, purpose, deletion, OCR, review,    *)
(* submission) overlap.  A handler reads the draft and the files, works,   *)
(* and writes in a transaction whose revision check is the only fence      *)
(* between the two; a recognition takes minutes, keeps no transaction and  *)
(* is told apart by the marker it leaves in the row of its file.  Reading  *)
(* and committing are two steps here.  DraftFiles has the bytes and quota. *)
(***************************************************************************)
EXTENDS Naturals, FiniteSets

CONSTANTS
  Files,         \* the files of the draft
  Requests,      \* requests under way at a time
  None,          \* nobody's marker; no input
  MaxRevision    \* bound on the revision

ASSUME RequestsAssumption == None \notin Requests
ASSUME FilesAssumption == IsFiniteSet(Files)
ASSUME BoundAssumption == MaxRevision \in Nat \ {0}

VARIABLES
  draft,       \* status, revision and input of the draft
  row,         \* purpose and OCR state of each file
  op,          \* what each request is doing
  submission,  \* the input the submission froze
  overtaken    \* since the last edit, has a recognition written after another
               \* commit had changed what it checked?  A history variable: no
               \* step depends on it.

vars == <<draft, row, op, submission, overtaken>>

\* processing_role and attachment_kind: an expense, a proof of a known kind, or
\* some other attachment.
Purposes == {"source", "proof", "other"}

OcrStatus == {"NOT_REQUESTED", "RUNNING", "COMPLETE", "FAILED"}

\* How the purpose was found: not asked for, still open, recognised, needing a
\* decision, or decided by the employee.
Classes == {"none", "pending", "classified", "unknown", "confirmed"}

\* The input: which save wrote it, and the use it makes of each file.
Inputs == [by : 1..MaxRevision, uses : [Files -> Purposes \cup {"no"}]]

\* ocr_result_json; under is the input a file was uploaded under, which lets its
\* first recognition overlap with further uploads.
Results == [class : Classes, marker : Requests \cup {None}, under : Inputs \cup {None}]

Rows == [here : BOOLEAN, purpose : Purposes, ocr : OcrStatus, result : Results, old : BOOLEAN]

Drafts == [status : {"DRAFT", "REVIEW_READY", "LOCKED"}, revision : 1..MaxRevision, input : Inputs]

NoResult == [class |-> "none", marker |-> None, under |-> None]

Absent == [here |-> FALSE, purpose |-> "other", ocr |-> "NOT_REQUESTED",
           result |-> NoResult, old |-> FALSE]

Idle == [do |-> "idle"]

Init ==
  /\ draft = [status |-> "DRAFT", revision |-> 1,
              input |-> [by |-> 1, uses |-> [f \in Files |-> "no"]]]
  /\ row = [f \in Files |-> Absent]
  /\ op = [r \in Requests |-> Idle]
  /\ submission = None
  /\ overtaken = FALSE

-----------------------------------------------------------------------------
(* The draft *)

Mutable == draft.status \in {"DRAFT", "REVIEW_READY"}

\* Faulty variant: the revision is not compared.
BumpUnfenced(revision, input) ==
  /\ Mutable
  /\ draft' = [status |-> "DRAFT", revision |-> revision + 1, input |-> input]

\* bump_owned_draft_revision: the write of a request that saw this revision.
Bump(revision, input) ==
  /\ Mutable
  /\ draft.revision = revision
  /\ draft' = [status |-> "DRAFT", revision |-> revision + 1, input |-> input]

\* Room under the bound for one more change.
MayChange == draft.revision < MaxRevision

\* detach_draft_files_from_input
Detach(input, files) ==
  [input EXCEPT !.uses = [f \in Files |-> IF f \in files THEN "no" ELSE @[f]]]

\* Every file the input uses is there and has the purpose it is used for.
Fits(input, rows) ==
  \A f \in Files : input.uses[f] # "no" => rows[f].here /\ rows[f].purpose = input.uses[f]

Unsettled == {"pending", "unknown"}

\* recover_stale_running_ocr: an attempt too old to be alive has failed.
Fail(r) == [r EXCEPT !.ocr = "FAILED", !.old = FALSE,
                     !.result = [class |-> IF @.class \in Unsettled THEN "unknown" ELSE @.class,
                                 marker |-> None, under |-> None]]

Stale(f) == row[f].here /\ row[f].ocr = "RUNNING" /\ row[f].old

Recovered == [f \in Files |-> IF Stale(f) THEN Fail(row[f]) ELSE row[f]]

AnyStale == \E f \in Files : Stale(f)

Running(f) == row[f].ocr = "RUNNING"

\* A request that reads now and commits later.
Begins(r, what) == op[r] = Idle /\ op' = [op EXCEPT ![r] = what]

Ends(r) == op' = [op EXCEPT ![r] = Idle]

\* A commit that finds another revision is refused.
Refused(r) ==
  /\ op[r].do \in {"save", "patch", "delete", "review", "submit"}
  /\ ~(Mutable /\ draft.revision = op[r].revision)
  /\ Ends(r)
  /\ UNCHANGED <<draft, row, submission>>

-----------------------------------------------------------------------------
(* Saving the input *)

\* update_reimbursement_draft: what the page sends is checked against the files.
ReadSave(r, uses) ==
  /\ Mutable /\ MayChange
  /\ Fits([by |-> draft.revision + 1, uses |-> uses], row)
  /\ Begins(r, [do |-> "save", revision |-> draft.revision, uses |-> uses])
  /\ UNCHANGED <<draft, row, submission>>

Save(r) ==
  /\ op[r].do = "save"
  /\ Bump(op[r].revision, [by |-> op[r].revision + 1, uses |-> op[r].uses])
  /\ Ends(r)
  /\ UNCHANGED <<row, submission>>

\* A file joins the draft: persist_draft_upload, with a purpose the page named or
\* one for OCR to find.
Upload(f) ==
  /\ ~row[f].here /\ row[f].result = NoResult
  /\ MayChange
  /\ \E purpose \in Purposes, auto \in BOOLEAN :
       /\ auto => purpose = "other"
       /\ row' = [row EXCEPT ![f] =
            [here |-> TRUE, purpose |-> purpose, ocr |-> "NOT_REQUESTED", old |-> FALSE,
             result |-> IF auto THEN [class |-> "pending", marker |-> None, under |-> draft.input]
                        ELSE NoResult]]
  /\ Bump(draft.revision, draft.input)
  /\ UNCHANGED <<op, submission>>

-----------------------------------------------------------------------------
(* Purpose and deletion *)

\* update_draft_file: the row as it will be written back.
Patched(seen, purpose) ==
  [seen EXCEPT !.purpose = purpose, !.old = FALSE,
               !.ocr = IF purpose # seen.purpose THEN "NOT_REQUESTED" ELSE @,
               !.result = [class |-> "confirmed", marker |-> None,
                           under |-> IF purpose # seen.purpose THEN None ELSE @.under]]

\* The mapper writes the columns that differ from what it read.
Flush(current, seen, new) ==
  [current EXCEPT !.purpose = IF new.purpose # seen.purpose THEN new.purpose ELSE @,
                  !.ocr = IF new.ocr # seen.ocr THEN new.ocr ELSE @,
                  !.result = IF new.result # seen.result THEN new.result ELSE @,
                  !.old = FALSE]

PatchedInput(input, f, seen, purpose) ==
  IF purpose # seen.purpose THEN Detach(input, {f}) ELSE input

ReadPatch(r, f, purpose) ==
  /\ Mutable /\ MayChange
  /\ ~AnyStale
  /\ row[f].here /\ ~Running(f)
  /\ Begins(r, [do |-> "patch", revision |-> draft.revision, input |-> draft.input,
                file |-> f, seen |-> row[f], purpose |-> purpose])
  /\ UNCHANGED <<draft, row, submission>>

\* Only a changed purpose writes the input, as it was read.
Patch(r) ==
  /\ op[r].do = "patch"
  /\ LET f == op[r].file
         moved == op[r].purpose # op[r].seen.purpose
     IN /\ Bump(op[r].revision, IF moved THEN Detach(op[r].input, {f}) ELSE draft.input)
        /\ row' = [row EXCEPT ![f] = Flush(@, op[r].seen, Patched(op[r].seen, op[r].purpose))]
  /\ Ends(r)
  /\ UNCHANGED submission

\* Recovering a stale attempt opens the transaction, so that the rest of the
\* request reads and writes in one step.
PatchAfterRecovery(r, f, purpose) ==
  /\ op[r] = Idle /\ MayChange
  /\ AnyStale
  /\ row[f].here /\ Recovered[f].ocr # "RUNNING"
  /\ row' = [Recovered EXCEPT ![f] = Patched(@, purpose)]
  /\ Bump(draft.revision, PatchedInput(draft.input, f, Recovered[f], purpose))
  /\ UNCHANGED <<op, submission>>

\* begin_draft_file_delete of one file, begin_draft_files_clear of all.
ReadDelete(r, files) ==
  /\ Mutable /\ MayChange
  /\ \A f \in files : row[f].here /\ ~Running(f)
  /\ Begins(r, [do |-> "delete", revision |-> draft.revision, input |-> draft.input,
                files |-> files])
  /\ UNCHANGED <<draft, row, submission>>

Gone(rows, files) == [f \in Files |-> IF f \in files THEN [rows[f] EXCEPT !.here = FALSE] ELSE rows[f]]

Delete(r) ==
  /\ op[r].do = "delete"
  /\ Bump(op[r].revision, Detach(op[r].input, op[r].files))
  /\ row' = Gone(row, op[r].files)
  /\ Ends(r)
  /\ UNCHANGED submission

DeleteAfterRecovery(r, files) ==
  /\ op[r] = Idle /\ MayChange
  /\ \E f \in files : Stale(f)
  /\ \A f \in files : row[f].here /\ Recovered[f].ocr # "RUNNING"
  /\ row' = Gone(Recovered, files)
  /\ Bump(draft.revision, Detach(draft.input, files))
  /\ UNCHANGED <<op, submission>>

\* One file, or all there are.
Deletions == ({{f} : f \in Files} \cup {{f \in Files : row[f].here}}) \ {{}}

-----------------------------------------------------------------------------
(* Recognition *)

AutoAttempt(result) == result.class \in Unsettled

\* recognize_draft_file takes a file that nobody can still be recognising.
Claimable(f) ==
  /\ row[f].here
  /\ row[f].purpose # "other" \/ AutoAttempt(row[f].result)
  /\ Running(f) => row[f].old

Claimed(f, r) ==
  row' = [row EXCEPT ![f].ocr = "RUNNING", ![f].old = FALSE,
                     ![f].result = [class |-> @.class, marker |-> r, under |-> None]]

\* The ordinary recognition spends a revision and ends at that revision only.
Recognize(r, f) ==
  /\ MayChange
  /\ Claimable(f)
  /\ Bump(draft.revision, draft.input)
  /\ Claimed(f, r)
  /\ Begins(r, [do |-> "ocr", file |-> f, revision |-> draft.revision + 1, under |-> None,
                class |-> row[f].result.class])
  /\ UNCHANGED submission

\* _admit_pipeline_ocr: the first recognition of a file that was just uploaded,
\* as long as the input is the one it was uploaded under.
RecognizeUploaded(r, f) ==
  /\ Mutable
  /\ row[f].here /\ row[f].ocr = "NOT_REQUESTED" /\ row[f].purpose = "other"
  /\ row[f].result.class = "pending"
  /\ draft.input.uses[f] = "no"
  /\ row[f].result.under = draft.input
  /\ Claimed(f, r)
  /\ Begins(r, [do |-> "ocr", file |-> f, revision |-> draft.revision, under |-> draft.input,
                class |-> row[f].result.class])
  /\ UNCHANGED <<draft, submission>>

OpFile(r) == op[r].file

\* Faulty variant: the outcome goes to the row whoever works on it now.
OwnsAnyMarker(r) == row[OpFile(r)].here

\* The marker in the row is still this attempt's.
OwnsMarker(r) ==
  row[OpFile(r)].here /\ Running(OpFile(r)) /\ row[OpFile(r)].result.marker = r

\* What a recognition may find: the purpose and the class an automatic one gives
\* the file; any other leaves them.
Outcomes(r) ==
  LET now == row[OpFile(r)].purpose IN
  IF op[r].class \in Unsettled
  THEN {[ocr |-> "COMPLETE", class |-> "classified", purpose |-> p] : p \in {"source", "proof"}}
       \cup {[ocr |-> o, class |-> "unknown", purpose |-> "other"] : o \in {"COMPLETE", "FAILED"}}
  ELSE {[ocr |-> o, class |-> op[r].class, purpose |-> now] : o \in {"COMPLETE", "FAILED"}}

\* What an ordinary recognition checks before it writes.
MayFinish(r) ==
  /\ Mutable
  /\ draft.revision = op[r].revision
  /\ OwnsMarker(r)

Found(seen, out) ==
  [seen EXCEPT !.purpose = out.purpose, !.ocr = out.ocr, !.old = FALSE,
               !.result = [class |-> out.class, marker |-> None, under |-> None]]

\* The input without the file, if that is a change and the purpose is one.
FoundInput(input, f, seen, out) ==
  IF out.purpose # seen.purpose THEN Detach(input, {f}) ELSE input

\* _finish_ocr of an ordinary recognition: the checks, in Python.
FinishRead(r) ==
  /\ op[r].do = "ocr" /\ op[r].under = None
  /\ MayFinish(r)
  /\ \E out \in Outcomes(r) :
       op' = [op EXCEPT ![r] = [do |-> "flush", file |-> op[r].file, seen |-> row[OpFile(r)],
                                input |-> draft.input, out |-> out]]
  /\ UNCHANGED <<draft, row, submission>>

\* Since those checks another request has changed the file or the input.
Overtaken(r) ==
  op[r].do = "flush" /\ (row[op[r].file] # op[r].seen \/ draft.input # op[r].input)

\* Then the write, which goes to the two rows by their keys.
FinishWrite(r) ==
  /\ op[r].do = "flush"
  /\ LET f == op[r].file
         new == FoundInput(op[r].input, f, op[r].seen, op[r].out)
     IN /\ row' = [row EXCEPT ![f] = Flush(@, op[r].seen, Found(op[r].seen, op[r].out))]
        /\ draft' = [draft EXCEPT !.input = IF new # op[r].input THEN new ELSE @]
  /\ Ends(r)
  /\ UNCHANGED submission

\* _guard_pipeline_draft
InputUnchanged(r) == Mutable /\ draft.input = op[r].under

\* An overlapping recognition never writes the input: it locks the draft, checks
\* that the input is the one it began with, and writes the file only.
FinishUploaded(r) ==
  /\ op[r].do = "ocr" /\ op[r].under # None
  /\ InputUnchanged(r) /\ OwnsMarker(r)
  /\ \E out \in Outcomes(r) :
       /\ out.purpose # row[OpFile(r)].purpose => draft.input.uses[OpFile(r)] = "no"
       /\ row' = [row EXCEPT ![OpFile(r)] = Found(@, out)]
  /\ Ends(r)
  /\ UNCHANGED <<draft, submission>>

\* _mark_ocr_interrupted: an attempt that may not end withdraws its marker.
Interrupted(r) ==
  /\ op[r].do = "ocr"
  /\ IF op[r].under = None THEN ~MayFinish(r) ELSE ~(InputUnchanged(r) /\ OwnsMarker(r))
  /\ row' = IF OwnsMarker(r) THEN [row EXCEPT ![OpFile(r)] = Fail(@)] ELSE row
  /\ Ends(r)
  /\ UNCHANGED <<draft, submission>>

\* The age at which an attempt cannot be alive any more.
Ages(f) ==
  /\ row[f].here /\ Running(f) /\ ~row[f].old
  /\ row' = [row EXCEPT ![f].old = TRUE]
  /\ UNCHANGED <<draft, op, submission>>

\* The process stops; what it was doing leaves only what it committed.
Restart ==
  /\ \E r \in Requests : op[r] # Idle
  /\ op' = [r \in Requests |-> Idle]
  /\ UNCHANGED <<draft, row, submission>>

-----------------------------------------------------------------------------
(* Review and submission *)

\* validate_draft_file_references of a review: nothing is under way, every
\* purpose is decided and every expense found is used.
Final(input, rows) ==
  /\ Fits(input, rows)
  /\ \A f \in Files : rows[f].here =>
       /\ rows[f].ocr # "RUNNING"
       /\ rows[f].result.class \notin Unsettled
       /\ rows[f].purpose = "source" =>
            rows[f].ocr # "NOT_REQUESTED" /\ input.uses[f] = "source"

\* Faulty variant: the review does not look at what OCR is doing.
ReadReviewUnfinished(r) ==
  /\ Mutable /\ MayChange
  /\ ~AnyStale
  /\ Fits(draft.input, row)
  /\ Begins(r, [do |-> "review", revision |-> draft.revision, input |-> draft.input])
  /\ UNCHANGED <<draft, row, submission>>

\* mark_reimbursement_draft_review_ready
ReadReview(r) ==
  /\ Mutable /\ MayChange
  /\ ~AnyStale
  /\ Final(draft.input, row)
  /\ Begins(r, [do |-> "review", revision |-> draft.revision, input |-> draft.input])
  /\ UNCHANGED <<draft, row, submission>>

Reviewed(revision, input) ==
  /\ Mutable
  /\ draft.revision = revision
  /\ draft' = [status |-> "REVIEW_READY", revision |-> revision + 1, input |-> input]

Review(r) ==
  /\ op[r].do = "review"
  /\ Reviewed(op[r].revision, op[r].input)
  /\ Ends(r)
  /\ UNCHANGED <<row, submission>>

ReviewAfterRecovery(r) ==
  /\ op[r] = Idle /\ MayChange
  /\ AnyStale
  /\ Final(draft.input, Recovered)
  /\ row' = Recovered
  /\ Reviewed(draft.revision, draft.input)
  /\ UNCHANGED <<op, submission>>

ReadSubmit(r) ==
  /\ draft.status = "REVIEW_READY" /\ MayChange
  /\ Begins(r, [do |-> "submit", revision |-> draft.revision, input |-> draft.input])
  /\ UNCHANGED <<draft, row, submission>>

\* create_submission locks the draft it read.
Submittable(r) == draft.status = "REVIEW_READY" /\ draft.revision = op[r].revision

Submit(r) ==
  /\ op[r].do = "submit"
  /\ Submittable(r)
  /\ draft' = [draft EXCEPT !.status = "LOCKED", !.revision = op[r].revision + 1]
  /\ submission' = op[r].input
  /\ Ends(r)
  /\ UNCHANGED row

-----------------------------------------------------------------------------

Edits(r) ==
  \/ \E uses \in [Files -> Purposes \cup {"no"}] : ReadSave(r, uses)
  \/ \E f \in Files, purpose \in Purposes : ReadPatch(r, f, purpose) \/ PatchAfterRecovery(r, f, purpose)
  \/ \E files \in Deletions : ReadDelete(r, files) \/ DeleteAfterRecovery(r, files)
  \/ Save(r) \/ Patch(r) \/ Delete(r) \/ Refused(r)

Recognition(r) ==
  \/ \E f \in Files : Recognize(r, f) \/ RecognizeUploaded(r, f)
  \/ FinishRead(r) \/ FinishUploaded(r) \/ Interrupted(r)

Submission(r) ==
  \/ ReadReview(r) \/ Review(r) \/ ReviewAfterRecovery(r) \/ ReadSubmit(r) \/ Submit(r)

\* A new revision that asks for a new review: whatever was read at the old one is
\* refused from now on.
Edited == draft'.status = "DRAFT" /\ draft'.revision # draft.revision

Recorded == overtaken' = (overtaken /\ ~Edited)

LateRecorded(r) == overtaken' = (overtaken \/ Overtaken(r))

Next ==
  \/ \E r \in Requests : FinishWrite(r) /\ LateRecorded(r)
  \/ /\ \/ \E r \in Requests : Edits(r) \/ Recognition(r) \/ Submission(r)
        \/ \E f \in Files : Upload(f) \/ Ages(f)
        \/ Restart
     /\ Recorded

Spec == Init /\ [][Next]_vars

-----------------------------------------------------------------------------
(* Properties *)

\* Every variable has its type.
TypeOK ==
  /\ draft \in Drafts
  /\ row \in [Files -> Rows]
  /\ \A r \in Requests : op[r].do \in
       {"idle", "save", "patch", "delete", "ocr", "flush", "review", "submit"}
  /\ submission \in Inputs \cup {None}
  /\ overtaken \in BOOLEAN

\* Without a new revision, which the page would be told of, the input only ever
\* loses its uses of a file.
InputKept ==
  draft'.input # draft.input =>
    \/ draft'.revision = draft.revision + 1
    \/ \E f \in Files : draft'.input = Detach(draft.input, {f})

\* An acknowledged save is not lost (the ordinary OCR keeps strict CAS).  The code
\* does not keep this.
SavedInputStays == [][InputKept]_vars

\* The write of a recognition that another commit overtook.
LateWrite == \E r \in Requests : Overtaken(r) /\ FinishWrite(r)

\* No step but that write ever loses an acknowledged save, not even after one: the
\* revisions, the marker and the input an upload was made under keep all others apart.
OnlyLateWritesLoseInput == [][LateWrite \/ InputKept]_vars

\* What has been reviewed fits its files and stays so: no recognition, recovery
\* or purpose still on its way changes a file under a reviewed or locked draft.
ReviewedIsFinal == draft.status # "DRAFT" => Final(draft.input, row)

\* What is frozen is what was reviewed.
FrozenIsReviewed == draft.status = "LOCKED" => submission = draft.input

\* The module's invariant: what is reviewed, and then frozen, is one input that
\* fits its files, whatever recognitions end and rows are swept meanwhile.  A late
\* write can spoil it until the next edit, and nothing else can; a review that
\* follows that edit can be relied on again.
Inv == TypeOK /\ (~overtaken => ReviewedIsFinal /\ FrozenIsReviewed)

\* Another decision of the employee is all that changes a decided purpose.
DecisionKept(f) ==
  row[f].result.class = "confirmed" /\ row'[f].purpose # row[f].purpose =>
    /\ row'[f].result.class = "confirmed"
    /\ draft'.revision = draft.revision + 1

\* The employee's decision on a purpose outlives the recognition it overtakes,
\* unless that recognition had passed its checks before.
ConfirmedPurposeStands == [][LateWrite \/ \A f \in Files : DecisionKept(f)]_vars
=============================================================================
