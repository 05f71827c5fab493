# Verification of the travel reimbursement service

The service turns an employee's travel receipts into one DingTalk approval. It
keeps a *draft* with its files, recognises the receipts, freezes the reviewed
draft into a *submission*, generates the Excel sheet and the receipt PDF,
uploads them into DingTalk's approval space, creates the approval, reads it
back and reports it. Two DingTalk calls are not idempotent (committing an
uploaded file and creating the approval), the worker that makes them can die or
stall at any point, and nothing can be undone once an approver has seen it.

This directory holds TLA+ models of the parts in which something can go wrong
that a test hardly reaches, the TLC configurations that check them on small
instances, and TLAPS proofs of the most important facts for instances of any
size. `PROJECT.json` is the index: which definition models which lines, which
run checks which property, which mutation of the code each property detects,
what is proved, and which hazards of the code are covered.

    tlc -workers 4 -config OaSubmission_erring.cfg MCOaSubmission.tla
    tlapm OaSubmissionProofs.tla

## Inventory

Paths are relative to `src/backend/app`.

| Component | State | Operations | What is hard | What makes it correct |
|---|---|---|---|---|
| Submission state machine (`services/reimbursement_submissions.py`) | row of `reimbursement_submissions` (status, resume status, lease, deadline, instance id), rows of its generated uploads | claim, heartbeat, every status change, recovery of lost leases, administrator decisions, recheck | leases that run out under a worker, recovery racing a stale worker, non-idempotent calls | each unsafe call at most once; success and failure reported truthfully; every submission ends or asks a person |
| Worker (`services/oa_reimbursement.py`) | none of its own; a job carries token and version | validate, generate, upload, create, reconcile, verify, clean up | a crash or a stall between any two steps; lost answers | as above |
| Constraints and triggers (`models/reimbursement.py`) | - | reject row updates | a trigger that refuses an update the worker relies on | no state the protocol must leave is a trap |
| DingTalk (`integrations/dingtalk/*`, external) | forms, approvals, dentries, requests in flight | read a form, create, list, read, put, commit, recycle | delayed and lost requests, unknown outcomes, forms and approvals that change at any time | what is parsed of an answer is what it says |
| Draft files and quota (`services/reimbursement_quota.py`, `reimbursement_staging.py`, `reimbursement_files.py`) | row per file, bytes in the staging directory, quota | reserve, write, link, finalise, abandon, delete, sweep, reclaim at start | a thread that outlives its request, cleanup racing an upload, disk errors, restarts | an active file has its bytes; bytes on disk are charged; deletions end |
| Draft content and OCR (`services/reimbursement_drafts.py`, `reimbursement_files.py`, `reimbursement_ocr_state.py`) | draft (status, revision, input), per file purpose and OCR state | save, change purpose, delete, recognise, recover, review, submit | handlers that read, wait and write; recognitions that take minutes | no save is lost; a reviewed draft stays as it was reviewed; a person's decision stands |
| Submission intake (`create_submission`, `oa_reimbursement_payload.py`, validation in `oa_reimbursement.py`) | draft with its linked approvals and account, frozen snapshot, submission | save, link approvals, review, submit, lock, validate against the live form and approvals, build the command, compare what is found | reads before transactions, forms and approvals that change between review, lock and creation; checks written twice | what was shown is what is submitted; the account is that of the approvals; the approval is created from approvals that hold; only ours is taken for ours |
| Local file release (`LinkedLocalFileMaintenance`, discard and release operations) | local status of generated files and receipts | delete bytes after the approval is complete | workers that scan the same rows, a crash between bytes and row | nothing goes before its approval has it, everything goes then; in part: the draft's sources in `DraftFiles` |
| Sessions (`services/sessions.py`) | session rows | create, replace, expire, log out; select a department | a row that goes while a request waits | nothing works on a session's files after its logout; in part: departments and flags are not modelled |
| File coordination and temporary files (`services/file_coordination.py`, `temp_files.py`, `multipart_uploads.py`, `api/receipt_diagnostics.py`) | registry of session entries with their locks, the global admission, files below the temporary directory | lease, retire, admit, parse, store, recognise, sweep | four locks with deadlines and cancellation, entries that come and go, a thread beside the event loop, restarts | one operation per session, nobody ahead of a logout, limits kept, left-overs go |
| Attendance calendars (`services/attendance_calendar.py`, `attendance_calendar_sync.py`) | one row per year with its days by source notice; one row per year for the fetching job (status, lease, next attempt) | preview, save and delete a notice; claim a year, fetch, finish | notices that reach into adjacent years, administrators racing each other and the job, a job that dies with its lease | a notice is stored as a whole, nothing of another notice is lost, what was deleted stays deleted, a missing year is fetched in the end |
| OA templates (`services/oa_template_profiles.py`, schema part of `integrations/dingtalk/workflow.py`) | the row of `oa_template_profiles`: version, schemas, mappings, options, status | inspect, confirm, refresh at each submission, mark as drifted, diagnose | forms edited while they are read; administrators, submissions and diagnoses racing for one row; chains of small edits | what is stored is usable and is what was confirmed; answers are no older than the question |
| Travel approvals (`services/travel_approvals.py`, `approval_diagnostics.py`) | none: everything is read from DingTalk | browse, verify a selection, diagnose | pages that move while approvals are decided, ranges that must meet, options that mean different things in two forms | nothing is overlooked, a selection is one trip and is charged where the approvers saw it, a diagnosis is true |
| Subsidy and money (`services/subsidy_calculation.py`, `domain/*`) | none | pure functions of the claim | overlapping approvals, private half-days, attendance | each half-day is paid once |
| Excel preview tickets (`services/excel_preview_tickets.py`) | none: signed claims | issue, verify | a ticket that outlives its session or revision | not modelled: see the end |
| Job pools (`services/process_jobs.py`, `warm_ocr_process.py`) | process slots | run, time out, kill | timeouts racing answers | not modelled: see the end |
| Frontend stores (`frontend/src/stores/*.ts`) | draft copy, dirty flag, polling | autosave, submit, poll | answers out of order | not modelled: what the page may send at any time is the server modules' input |
| Holiday notices, Excel and PDF generation, OCR parsing, configuration, deployment | - | data processing and wiring | - | not modelled: see the end |

How they interact: a browser edits the draft and its files through the API
(one uvicorn process; handlers run in threads, blocking work in worker
threads); `create_submission` locks the draft and inserts the submission; the
worker (same or other processes) leases the row, works and writes back; the
sweep of the API process deletes what has run out of time. Everything shared is
in SQLite rows and in the staging directory.

## Plan

| Module | Of | Status |
|---|---|---|
| `OaSubmission` | submission, worker, recovery, administrator, DingTalk | modelled, checked, its safety proved |
| `SubmissionPromise` | abstract: what the employee is promised | implemented by `OaSubmission` (checked and proved) |
| `DraftFiles` | rows, bytes and quota of a draft's files, to their release after submission | modelled, checked, its safety proved |
| `DraftContent` | input, purposes, OCR, review, freezing | modelled, checked, its safety proved |
| `AttendanceCalendar` | annual notices and the job that fetches them | modelled, checked, its safety proved |
| `SessionFiles` | sessions, file leases, temporary files | modelled, checked, its safety proved |
| `FormSchemas` | forms, mappings, compatibility: operators | used by `OaTemplates` |
| `OaTemplates` | the catalog of forms and its requests | modelled, checked, its safety proved |
| `TravelForms` | what an approval says: operators | used by `TravelApprovals` |
| `TravelApprovals` | browsing, verifying, diagnosing | modelled, checked, proved |
| `Subsidy` | half-days, merging, corrections, rates: operators | used by `SubsidyClaims`, `Snapshots` |
| `SubsidyClaims` | a claim being edited | modelled, checked, `LinesAreApart` proved |
| `Snapshots` | checks, snapshot, command, read-back: operators | used by `SubmissionIntake` |
| `SubmissionIntake` | linking, review, lock, validation, creation | modelled, checked, its safety proved |

Each `MC...` module holds the constants or the symmetry of one instance;
`DraftFiles` needs none. The modules meet at
their edges: `SubmissionIntake` ends where `OaSubmission` begins to repeat
(its `CreateApproval` is the create step `OaSubmission` takes apart), takes the
catalog as one step (`Follow`) where `OaTemplates` has the requests that race
for it, and takes a saved input with its files as one value where
`DraftContent` and `DraftFiles` have how they came about.

No module uses a RECURSIVE operator, so all of them can be proved about.

## The models

### OaSubmission

State: `row` is the submission row; `uploads` the durable status of each
generated file (`RESERVED` covers a row without staged bytes); `job[w]` where
worker `w`'s `process()` call stands; `creates`, `oaFlight`, `oaBorn`, `oas`,
`commitFlight`, `dentries` are DingTalk's side, seen from nowhere in the code
but needed to say what really happened. One step is one transaction or one
remote call; a remote call is a send, an effect (or loss) in flight, and an
answer, in any order with everything else.

* *Leases.* The code fences every write by `lease_token` and `status_version`
  in the WHERE clause. A worker runs one job at a time and draws a fresh token
  for each, so "the row's token and version are mine" is `row.owner = w`
  with `row.live` (the lease time has not passed). `Fenced(w)` is the guard of
  every transaction; `Conflict` is the other outcome. With `StallsAllowed` a
  worker keeps running after its lease is gone, up to the next fenced write,
  which includes sending a remote call it had already decided on.
* *Database rules.* `RowAccepts` states the CHECK constraints and triggers of
  `models/reimbursement.py` that can abort an update: a cleanup leaves
  `ORPHAN_CLEANUP` only when complete, `LINKED` files need an instance.
* *Recovery.* `RecoverLostCommit`, `RecoverLostCreate` and `Claim` are
  `recover_expired_leases` and `claim_next`; `ReclaimReservation` is the
  start-up sweep.
* *The administrator* attaches an instance id, confirms that nothing was
  created, or asks for a recheck. `AdminMayErr` allows both attestations to be
  untrue; without it he has checked DingTalk, which is what the API asks of
  him. The code cannot verify the second one.
* *Not actions.* The branch of `process()` for `OA_CREATING` and the
  `COMMIT_UNCERTAIN` branch of `_run_uploads_and_create` are unreachable:
  recovery turns such rows into `RECONCILING` or `MANUAL_REVIEW` before a
  claim. `BeginUploadCleanup` on an upload that is already `CLEANUP_PENDING`
  writes nothing. Back-off times are left out: a claim is always possible once
  the row is unleased.

Bounds: `MaxCreates = 2` and `MaxDentries = 2` cap the two counters. The correct
model never exceeds 1 (that is proved); 2 is what lets a faulty variant show
itself.

### SubmissionPromise

The abstract specification: `phase`, how often the approval was `asked` for,
the approvals that `exist`, the one that is `bound`, the attachments that are
`stored`. It says that the approval is asked for at most once and only with all
attachments stored, that attachments disappear only while no approval exists,
that success is reported of an existing approval and failure only when nothing
exists or can come to exist. `OaSubmission` implements it under the mapping
`Promise` (property `KeepsPromise`), given an honest administrator.

### DraftFiles

State: `draft` (status, revision, expiry, whether its submission is `SUBMITTED`), `file` (the `file_status` column),
`overdue` (reservations past `reservation_expires_at`), `disk` (names in the
staging directory: `part`, `final`), `upload` (the request and its writer
thread), `job` (delete requests, the sweep and the workers with the list of files they
read). One step is one transaction or one change of a directory.

* A transaction's reads and its revision check are one step: every change of an
  `ACTIVE` row also raises the draft's revision, so a check of the revision
  also validates the list read before it. (`DraftContent` splits the two.)
* `Restart` kills all requests and threads and runs `reclaim_interrupted`,
  whose removal of bytes may fail for some of the files.
* `Submitted` is the end of a submission `OaSubmission` has the details of: from
  then on the workers release the sources (`ReleaseSources`, then `Erase` and
  `ReleaseRow` as in a deletion). The snapshot names every active file of the draft
  it was built of, so the comparison with it is left out; a worker takes the bytes
  of several files before the rows where the code takes file by file.
* The per-draft file count and the duplicate check are the finite set `Files`;
  the quota is counted in files. `FAILED` is never written to `file_status` by
  any code in `src/` and is left out.
* `DiskFaults`: a removal may fail and leave the names. `LateFailures` is the
  set of files where it may fail after it removed everything (an fsync error, or
  the transaction after it).
* A cleanup may run between `mark_writing` and the writer thread's first `open`.
  It finds nothing to remove and gives the row up. `overtaken` remembers the files
  where that happened: a history variable, on which no step depends.

Where removals may fail late, an overdue upload whose bytes a failed sweep has
already taken can still be finalised if its request passes its last check at
that moment. `ActiveHasItsBytes` is therefore stated for `Files \ LateFailures`;
everything else, `DiskIsCharged` and the end of every cleanup above all, is checked
with such a file beside an ordinary one.

### DraftContent

State: `draft` (status, revision, input), `row` (purpose, OCR status and the
JSON beside it, reduced to classification, marker and the input it was uploaded
under), `op` (what each request has read and not yet written), `submission`
(the frozen input). Handlers are two steps, a read and a commit, because
SQLAlchemy on `pysqlite` opens the transaction at the first write: SELECTs before
it see one state, the compare-and-swap on the revision another. Sessions have
`autoflush=False`, so changed attributes are written at commit, by primary key
(`Flush` writes just the columns that differ from what was read).

* `Refused` is the 409 of a failed compare-and-swap.
* Recovering stale recognitions writes first, which opens the transaction; the
  `...AfterRecovery` actions are those handlers in one step.
* Ordinary recognition checks the revision in Python (`FinishRead`) and then
  flushes (`FinishWrite`); others may commit between the two, as in the code.
  `Overtaken` says that they changed what was checked. `overtaken` remembers that such
  a write happened, up to the next edit: a history variable, on which no step depends. The overlapping recognition of fresh uploads begins its end
  with an UPDATE (`_guard_pipeline_draft`) and is one step (`FinishUploaded`).
* `Ages` makes an attempt older than the limit whether or not its thread still
  lives, so an attempt that was declared dead can still answer.
* The purge of a deleted file is one step here; `DraftFiles` has its details.
* The input is "which save wrote it" and the use it makes of each file. Choosing
  the approvals of a draft changes revision and input like a save and is not
  told apart.

### AttendanceCalendar

State: `records` are the rows of the years, each with the days every source
notice contributes (`parts`) or undivided days from before sources were kept
(`legacy`); `sync` are the job's rows; `op` what each request or check has read
and not yet written. A revision is the number of the commit that wrote it: only
its being fresh matters. `inForce` and `removed` are history: what the last
saver of a notice was told is stored, and which years were deleted and not
asked for since. So are `overtaken`, the requests that read a notice another
request has written since, and `mixed`, the notices such a request wrote last.

* *Requests of administrators* read outside a transaction and compare only the
  rows they change: `ApplyRead` and `DeleteRead` are separate from
  `ApplyWrite` and `DeleteWrite`, and others may commit between the two.
  `Preview` keeps what the page is shown; `ApplyConflict` and `WriteConflict`
  are the two kinds of 409.
  A deletion brings the revision its page showed; only those with the present
  one are taken, as any other changes nothing.
* *The job's* claim and finish run under `BEGIN IMMEDIATE` and are one step
  each; the fetch between them may take longer than the lease. `Claim` and
  `ClaimComplete` by a request are the forced check of the settings page.
* *Time* is the current year with or without its November (which opens the next
  year's window), whether a lease is live, and whether the next attempt is
  unset, ahead or past. The interval is longer than the lease.
* Parsing, the status view and the wording of errors are left out; a fetched
  text is a valid notice of its year or not usable.

### SessionFiles

State: `row` (a session is live, logged out, or over by expiry or a new login);
`registry` and `states` are `_states` and its objects, told apart by an id so
that one session could have two; `gate` and `guard` the two locks of the global
admission; `disk` the files with their directory and the request at work on
them; `op` where each request and the sweep stand. Handlers run on one event
loop: a step is what happens between two awaits, and the clean-up thread steps
in between.

* A lease is the entry's gate, then its lock. The sweep takes the lock alone
  and never waits. Who gets a free gate first is left open, so the model allows
  more orders than asyncio's queue.
* Deadlines and cancellations are `UploadGivenUp` and `GivenUp`: possible at
  any time of the wait. `Done` is the answer, an error or a cancellation at any
  point of the work.
* An upload to a draft ends here when its multipart part is parsed:
  `DraftFiles` has the rest. A diagnosis stores a file, gives both leases back,
  takes the session's again and deletes its file without one at the end.
* Whether a file is older than its time to live is decided when the sweep looks.
  Files of requests that wait are never that old, by the rule of
  `core/config.py:453`; those of a slow client, or after a change of the clock, may be.
* Every file is one unit of bytes, so a session's limit on bytes (`session_max_bytes`) is its limit
  on files and not stated apart.
* A login makes a new session; it takes the name of one that nothing refers to.

### FormSchemas and OaTemplates

`FormSchemas` says what the backend makes of a form: a raw form is a sequence of
items, each with the index of the item around it; `Components` hands down what
containers say (hidden, disabled, table), `ValidMapping` and its relatives are
the checks of a mapping, `CompatibleChange` is how far a form may change without
an administrator. Names, titles and layout are left out; a schema stands for its
fingerprint.

State of `OaTemplates`: `live`, the forms as DingTalk has them, each with the stamp
of its edition; `row`, the row of `oa_template_profiles`; `op`, what each request has
seen so far. Requests interleave only where they wait for DingTalk, form by form
(`Fetch`), because the rest of a handler runs without an await.

* `Inspect` and `Confirm` are the ends of the two administrator requests. The
  confirmation's compare-and-swap looks at the version, the inspection's at the
  row as it is when the forms have come; an observation older than the row can
  therefore be stored by an inspection, never by a submission
  (`RefreshNeverGoesBack`).
* `Load` is one attempt of `load_fresh_submission_catalog`; a lost write is tried
  again at most three times, as in the code. `Diagnose` reads only.
* Each edit gets a new stamp. A form that is edited and restored with the stamp of
  before cannot be told from one that never changed, by the code or by the model.

### TravelForms and TravelApprovals

`TravelForms` reads an approval with the template it was filed with: its dates
(two fields, a range, or a table of legs), its company, budget and type as options
of the reimbursement form. Companies match by value or label, budgets without
their blanks, keys never, because they mean nothing in another form.

State of `TravelApprovals`: `state`, where each approval stands; `op`, the one request:
template, range and page it is at, what it has listed and read. Requests share nothing
but the approvals, so one at a time shows all there is.

* `ListPage`, `ListRefused` and `Listed` are the list with its limits;
  `Read` takes the details in any order; `Answer`, `Verified` and `Explain` end the
  three kinds of request. `Locate`, `LookUp` and `LookAt` are an administrator's
  look-up by number or id.
* `InOrder` and `Among` take of a list what is in a set, in the order of the list. They say what
  `SelectSeq` says, in a form the prover can expand.
* Assumed of DingTalk: its token is an offset into the list of what matches when the
  page is asked for; approvals go from running to ended and do not leave the list; one
  instance answers with one set of values and as the instance that was asked for, so
  `INSTANCE_ID_MISMATCH` does not occur. Business numbers may repeat.
* `LookUp` takes a page, `LookAt` one of its entries, as the code counts them
  against `LookupLimit`.

### Subsidy and SubsidyClaims

`Subsidy` counts time in half-days. `Merged` joins the trips of one purpose whose
days overlap, `Excluded` what is private, `Paid` and `Line` what is left.
Adjustments of a merged trip count for its whole period, as in the code.
`SubsidyClaims` is a claim being edited: each save calculates anew. The properties
compare the sum of the lines with the set of half-days claimed, which nothing in
the code ever builds. Rounding of amounts and their wording are left out.
`TripsAssumption` says that a trip's dates are in their order (`Dated`). The schema checks
that of no single trip; the dates are those of the approval a trip names, whose start
and end are ordered. `ClaimSpec` and the names beside it differ from the intake's, so that
one module can prove about both. `confirmed`, the old acknowledgement of the policy,
is kept by a merged trip only if all its trips have it; `MaxAttendance` is the limit on the days attended.

### Snapshots and SubmissionIntake

`Snapshots` has the code's three readers of one content: the checks before a
review (`FilesReady`, `RelatedReady`, `Calculable`), the snapshot with the checks
every later reader repeats (`Build`, `Sound`), and the command with the
comparison of an approval found with it (`Command`, `Matches`). Company and budget
always travel together and are one field, the account.

State of `SubmissionIntake`: `live`, the editions of forms and approvals there are
now; `catalog`; `draft`; the requests under way, `update`, `select`, `submit`; `job`,
the submission with what it froze and what DingTalk showed since its validation
began.

* A save (`ReadUpdate`, `WriteUpdate`), a choice of approvals (`StartSelect`,
  `CheckPick` for each approval, `StoreSelect`) and a submission (`BeginSubmit`,
  `Look`, `Adopt`, `Collect`, `Lock`) read in one step and write in another,
  with the compare-and-swap of the code between them.
* The worker's validation is `Validate`, `CheckForm`, `CheckTravelForm`,
  `CheckMembership` and `CheckApproval` for each approval, in any order;
  `Retry` begins it anew. `CreateApproval` follows with no further check, as in
  the code, and `ReadBack` compares what is found.
* `Create` leaves an older draft behind with the requests for it: they find
  their revision gone. Only a lock already decided on goes first.
* A save accepts what the input's schema accepts (`OneDisposition`) and what fits the
  files (`References`).
* What is not varied: the daily rates and the calendar between review and
  submission (so that the calendar is looked at once, in `Collect`, and not again in `Lock`), a second submission, snapshots of the schema versions before the present one.

## What the runs check

| Run | Instance | Distinct states | Shows |
|---|---|---|---|
| `OaSubmission_erring` | 3 workers, 2 files, 2 approvals, stalls, erring administrator | 159 301 | `TypeOK`, `AtMostOneCreate`, `AtMostOneDentry`, `SubmittedIsReal` |
| `OaSubmission_honest` | 2 workers, 2 files, 2 approvals, stalls, honest administrator | 25 299 | `KeepsPromise`, `EndsOrAsks` |
| `OaSubmission_refused` | 1 worker, 1 file | violated | `RefusedRecycleAsksAdmin` |
| `DraftFiles` | 2 uploads, room for 1, a delete request, sweep, 2 workers, disk faults, late ones for 1 file, 4 revisions | 127 707 | `Inv` (`TypeOK`, `DiskIsCharged`, `WithinCapacity`, `ReviewedIsSettled`), `ActiveHasItsBytes`, `SubmittedFilesStay`, `CleanupEnds` |
| `DraftContent` | 2 files, 2 requests, 5 revisions | 1 727 262 | `Inv` (`TypeOK`, `ReviewedIsFinal`, `FrozenIsReviewed`), `OnlyLateWritesLoseInput`, `ConfirmedPurposeStands` |
| `DraftContent_overwrite` | 1 file, 2 requests, 6 revisions | violated | `SavedInputStays` |
| `AttendanceCalendar` | 2 years (one from before sources), 3 notices, 1 request, 3 writes | 129 029 | `Inv` (`TypeOK`, `CompletedIsComplete`, `RemovedStaysRemoved`), `WholeNotice`, `NothingOverwritten`, `YearArrives` |
| `SessionFiles` | 2 sessions, an upload, a diagnosis, a logout, the sweep, room for 2 files | 33 546 | `Inv` (`TypeOK`, `OneAtATime`, `NothingLeaks`), `OutMeansOut`, `WithinLimits`, `NobodyGetsAhead`, `OrphanGoes` |
| `OaTemplates` | 3 forms, an edit of each, 2 requests of any kind, 2 versions | 830 596 | `Inv` (`TypeOK`, `SavedCatalogIsUsable`), `AdoptedFormsAreAlike`, `MappedFieldsCanBeFilled`, `AnswersAreFresh`, `ConfirmationStands`, `RefreshNeverGoesBack` |
| `TravelApprovals` | 2 templates, 7 approvals of which 3 are still decided, 3 days | 343 541 | `Inv` (`TypeOK`, `NothingIsOverlooked`), `VerifiedIsOneTrip`, `ChargedAsApproved`, `DiagnosisIsTrue` |
| `SubsidyClaims` | 3 approvals over 4 days, 2 adjustments | 46 124 | `EachHalfDayPaidOnce`, `LinesAreApart` |
| `SubmissionIntake` | 2 approvals, 3 editions of the form, 7 contents, 2 requests at once, 1 edit | 943 270 | `Inv` (`TypeOK`, `AccountBelongsToTheApprovals`), `LocalChecksAgree`, `SubmittedAsReviewed`, `CreatedFromLiveApprovals`, `FoundIsOurs`, `AccountingIsCurrent` |

(States are those TLC visits after symmetry reduction where the cfg has it.)

Why the bounds are enough. *Submission*: three workers are a lease holder, a
stale predecessor and a stale predecessor of that; the files of one submission
are at most two (sheet and receipts), which is the code's own limit; two
approvals are ours and an employee's identical resubmission, the case in which
reconciliation is ambiguous. Retries are unlimited, nothing counts them.
*Draft files*: two uploads compete for the last place; a request and the
sweep are two cleaners that may pick the same file, and two workers may
release from the same list. A second request adds no other kind of cleaner. Four revisions let a file be uploaded and deleted
under a request and the draft be reviewed, submitted and expire. *Draft content*: two
requests are what the compare-and-swap has to tell apart; a third adds no other
kind of conflict. Five revisions are a late write, the edit after it and the review
and submission after that, for one of the files; one file with eight
revisions was checked as well. *Attendance calendars*: a notice reaches one year to either
side, so two years hold every way two rows can share a notice; `MaxWrites = 3` lets
a request save, save over it and delete the result while the job is at work.
With liveness the run affords one request; the safety properties were also checked with two
(2 571 067 states), where overtaken requests occur, and are proved for any number.
*Session files*: the upload may come with either session, so that it meets the
other two both at a session's lease and at the global admission alone; requests
begin again for ever. *OA templates*: two requests are all a compare-and-swap of one row
tells apart, each an administrator's, a submission's or a diagnosis's; one edit of
each form gives editions before and after every fetch, among them a relabelled
option, a hidden container, a new option and a new required item; two versions
let two administrators confirm over each other. *Travel approvals*: a page of
one and ranges of a day make every boundary happen within three days; the
approvals are one of each kind the policy tells apart (another owner, another
template, no dates, no such company, a key that names another company, two with one
number). *Subsidies*: three approvals are what a comparison with only the
trip before gets wrong; the adjustments include each kind. *Intake*: two requests at
once are a save or a choice of approvals against another or a submission; the one edit is a
relabelling that swaps accounts, an incompatible form, or an approval revoked
and another with new dates; the contents that can be submitted
are a trip without expenses and, with trips over two approvals and without any, a ride, a fast
train, a meal abroad and a hotel with papers of every kind and a dismissed receipt. One ignores
that receipt; three break one of the input's own rules each, and without that rule
`LocalChecksAgree` fails.

Symmetry is used for workers (`OaSubmission_erring`), files and requests
(`DraftContent`) and requests (`OaTemplates`), never with a liveness property.

Every property is accompanied by a mutation of one mapped definition, listed in
`PROJECT.json`, under which TLC finds it violated: a recovery that repeats the
create call, a status write without its fence, a sweep that looks at the wrong
rows, a cached answer, an option looked up in the wrong form.

### Fairness

`OaSubmission!Fairness`: weak fairness of the work of each worker (a process
that is up runs its next step and polls when idle: the scheduler loop), of
recovery, of the two clocks, of the sweep of abandoned reservations, and of
requests in flight, which take effect or are lost. Progress also needs the world outside
to become cooperative: the last conjunct says that from some time on processes stay
up and do not outlive their leases, and services answer definitely; before that
anything may have happened. The code retries without limit, so
nothing weaker could end every submission. `EndsOrAsks` then says the protocol
itself never traps a row.

`DraftFiles!Fairness`: weak fairness of the writer threads and of a request's
settling of its upload, of delete requests that have begun (a handler is
abandoned only by `Restart`), and of the reservation clock; strong fairness of
the steps of the sweep and of the workers' releases, since a restart or a failing
disk can undo them between two attempts, but both come round for ever and neither
gets in their way every time. It is stated for kinds of steps (take up something
to remove, remove bytes, release a row) over all files and actors, which asks for
less than one condition for each: what is taken up belongs to an open draft, an
expired one or a submitted one, never to two of them, and a kind of step that is taken
again and again runs out of files. There is no fairness on anything a user starts.

`AttendanceCalendar!Fairness`: weak fairness of the job's loop, of requests and
checks that have begun and of the clocks; strong fairness of the scheduler's turn
for each year, which restarts may cut short but not every time, and of an
answer that is a valid notice, since the source may be unreachable for long but
is asked again for ever.

`SessionFiles!Fairness`: weak fairness of the waits and the work of requests,
all of which have deadlines; strong fairness of the sweep, which tries every
interval and finds a busy session or dies in a restart now and then, but not
always, and finds a left-over aged some time.

The other modules promise nothing that must happen: a request that DingTalk
does not answer is given up.

Deadlock is checked for `OaSubmission`, whose only terminal states are complete
(`Done`), and for `SessionFiles`, which has none. The others have
`CHECK_DEADLOCK FALSE`: a deleted or submitted draft ends its life, the last year
modelled its calendar, a claim is full, an approval is read back, or the bound on
revisions, edits or versions is reached.

## What is proved

Every theorem below holds for any values of the constants that satisfy the module's
named assumptions; a hypothesis beyond those is named with its theorem. In each
module the invariant the run checks is not inductive, and the work is in the
strengthening.

### The submission (`OaSubmissionProofs`)

For any workers, any number of files and any approvals, with stalls and an erring
administrator allowed unless said otherwise:

* `TypeCorrect`: `Spec => []TypeOK`.
* `CheckpointOnce`: `Spec => []CheckpointPassedOnce`. `AtMostOneCreate` is not
  inductive: nothing in it says why a second worker does not get to the create
  call. `CheckpointPassedOnce` does: a create request is out, or a worker
  stands between checkpoint and request, only if the row has passed
  `checkpoint_oa_create`, which is recorded durably in its deadline; and at most one
  worker stands there. `CreatedOnce`: `Spec => []AtMostOneCreate`, which follows.
* `CommitOnce`, `CommittedOnce`: the same for the storage commit, file by file.
  `CommitStartedOnce` says an upload whose status allows it to start over has
  neither a dentry nor a commit in flight, and that the one worker about to
  send a commit finds the upload `COMMITTING` and untouched.
* `SubmittedReal`: `Spec => []SubmittedIsReal`, by `RealInv`: a committed or linked
  file has its dentry, a worker past the read-back has seen the approval, and a file
  that a worker recycles was already waiting for its cleanup.
* `PromiseKept`: `Spec => KeepsPromise`, given `~AdminMayErr`. Each action maps to a step
  of `SubmissionPromise` or a stutter; `PromiseInv` ties the phase of the promise to
  what the row records. Without the hypothesis the statement is false: an
  untrue confirmation breaks the promise, and no code could prevent that.

The argument is by frames. `Forward` (a row does not return to a phase before
the checkpoint), `Calm` (no worker enters the steps next to an unsafe call) and
`FreshForward` (no upload returns to a status from which it may start over)
hold of every action but four; the frame lemmas show that once per group of
actions, `StepFrame` collects them, and the invariants are then proved of the
four remaining actions alone.

### The files of a draft (`DraftFilesProofs`)

For any finite set of files, any requests and workers, disk faults and late failures:

* `FilesTyped`, `ActiveKeepsBytes` (`[]ActiveHasItsBytes`), `SubmittedStay`
  (`SubmittedFilesStay`). `BytesInv` says whom a job may erase (never an `ACTIVE` file of a
  draft that lives) and that a staged upload has its object.
* `QuotaHolds`: the rows never charge more than the quota. `DiskCharged`,
  `CapacityHolds`, `ReviewedSettled` and with them `FilesInvariant` (`[]Inv`) add that
  nothing lies on disk that no row pays for, by `QuotaInv`: a writer thread still at
  work has a row, unless it was given up (`overtaken`). `Stored` leaves out the files of such
  threads, and only those, so the theorems say that the known limit below is the only
  way to an object nobody pays for. `ReviewedSettled` has no such exception.

### The content of a draft (`DraftContentProofs`)

For any finite set of files, any requests and any bound on the revision:

* `ReviewedContentHolds` (`[]Inv`), `SavesAreKept` (`OnlyLateWritesLoseInput`) and `DecisionsStand`
  (`ConfirmedPurposeStands`), from `ContentInvariant` (`[]IInv`).
* `Inv` says nothing of the requests that have read and not yet written. `ReviewInv`
  says that what a review or a submission has read is still there if the revision is the
  same: the steps that spend no revision all need a file that is being recognised
  or undecided, which no review accepts. `OcrInv` says that whose marker is in a
  row knows the row's class, so a recognition that may change the purpose finds the
  purpose undecided; `FlushInv` that a write under way goes to what was checked.
* The code lets others commit between the checks of an ending ordinary recognition and
  its write (the finding `DraftContent_overwrite`), and the theorems say how far that goes.
  Only this write, and only when something it checked has changed, loses saved
  input or changes a decided purpose; the revision and the marker settle every other overlap,
  also after such a write. What a review accepts fits the files unless such a write came
  since the last edit. The next edit ends that: every request that read before it is refused.

### The intake (`SubmissionIntakeProofs`)

For any forms, approvals and contents, any number of edits and requests:

* `DraftKeepsAccount` (`[]Inv`), `ReviewedIsSubmitted` (`[]SubmittedAsReviewed`),
  `LiveApprovals` (`[]CreatedFromLiveApprovals`), `OursIsFound` (`[]FoundIsOurs`) and
  `AccountIsCurrent` (`AccountingIsCurrent`).
* `IInv` has one conjunct for each place where something read is used later:
  `UpdateInv`, `SelectInv`, `SubmitInv` (what a request has read is what the draft
  holds, as long as the revision is the same), `SourceInv`, and `ChecksInv` (each
  approval the validation is through with was valid in an edition seen since it
  began). `PicksAssumption` and `OptionsAssumption` say that ids are not the text shown for a
  hidden one and that a form has finitely many options.

At the end of the module, for the subsidies of any claim (`SubsidyClaims`), however many
approvals it names and however they overlap:

* `LinesStayApart` (`[]LinesAreApart`), from `ClaimInvariant` (`[]ClaimInv`: each trip is of an
  approval of its own, and the lines beside a claim are those of the claim as it is now).
* The argument is about the order the trips are merged in (`BeforeOrder`). Every trip
  belongs to the last head it is not before (`Headed`); a group ends before the day the next
  begins on (`GroupsApart`). A merged trip reaches over no day without a trip (`NoGap`):
  the first of its trips to begin after such a day would be a head itself. Least members
  of finite sets come from counting predecessors (`FirstOf`), as induction is not at hand.

### Attendance calendars (`AttendanceCalendarProofs`)

For any years and notices, any requests beside the job:

* `DoneAndDeletedStay` (`[]Inv`), `NothingLost` (`NothingOverwritten`), from
  `CalendarInvariant` (`[]IInv`): a revision is of one content, so that what
  a request has read of a year it writes is what the row holds if the revision
  still is the same; a deleted year is paused until somebody asks for it.
* `NoticesAreWhole` (`[]WholeNotice`), for any number of administrators. `WholeNotice` leaves
  out the notices in `mixed`: those last written by a request that had read them before
  another request wrote them. That the code allows (below). A request that read
  what was last stored makes the notice whole again, whatever it was before: `Alone` says that
  for a request nobody overtook the notice's days stay as it read them, or its write will
  be refused, however much the job and the savers of other notices write.

### Files of sessions (`SessionFilesProofs`)

For any sessions, uploads, diagnoses and logouts, any files and limits:

* `LeasesExclude` (`[]Inv`), `OutIsOut` (`[]OutMeansOut`), `LimitsHold` (`[]WithinLimits`)
  and `LogoutIsNext` (`NobodyGetsAhead`), from `SessionInvariant` (`[]IInv`).
* The entry of the registry is the difficulty: entries come and go while
  others wait in them. `RefInv` says an entry counts exactly those that refer to it,
  is registered for their session and for no other, and is as new when nobody does;
  `LockInv` that whoever works holds its entry's lock and that a queued logout
  has retired it; `AdmissionInv` who has the two locks of the upload admission;
  `LimitInv` that a request that may still write has been charged for all there is.
* `FreeEntry` shows that the model's pool of entries, one for each actor, never runs out.

### OA templates (`OaTemplatesProofs`)

For any forms of any number of items, any requests of each kind, edits and versions:

* `CatalogStaysUsable` (`[]Inv`), `FormsStayAlike` (`[]AdoptedFormsAreAlike`),
  `MappedFieldsFillable` (`[]MappedFieldsCanBeFilled`), `AnswersStayFresh`
  (`[]AnswersAreFresh`), `ConfirmationKept` (`ConfirmationStands`) and
  `NoRefreshGoesBack` (`RefreshNeverGoesBack`), from `CatalogInvariant` (`[]IInv`).
* The assumptions: the business form is none of the travel forms, each form is a tree in
  which an item comes after the item around it (`FormsAssumption`: the code reads nested
  JSON), a confirmation names travel forms, and what an administrator
  chooses by the options of a form is a dictionary.
* `IInv` adds what a request holds between two fetches. `Of`: a schema somebody holds is
  an edition that was live, and the present one if it has the present stamp. `Stored`: a
  row that was read, or is to be written, can be used. `Based`: as long as the row has
  the version that was read, it means the same. `Fresh`: what was fetched since is no older
  than the question, nor than what was read.
* The argument has a lemma on forms (`RefreshedIsStored`: a catalog with compatible forms in
  place of its own is usable and keeps every choice), then one lemma for each action.
  What containers hand down is a recursive function. That it exists, and that a
  mapped field has nothing hidden around it (`AroundIsShown`), is by a least
  counterexample among the items.

### Travel approvals (`TravelApprovalsProofs`)

For any templates, approvals, windows, keywords and selections, any page size and limits:

* `ListsOverlookNothing` (`[]Inv`), `SelectionIsOneTrip` (`[]VerifiedIsOneTrip`),
  `SelectionChargedAsApproved` (`[]ChargedAsApproved`) and `DiagnosesAreTrue`
  (`[]DiagnosisIsTrue`), from `RequestInvariant` (`[]IInv`).
* The assumptions. `OptionsAssumption`: a form offers finitely many options.
  `LimitsAssumption`: the limits are positive, and a look-up takes no more pages than a list
  (3 in `approval_diagnostics.py`, 50 in `travel_approvals.py`). `ApprovalsAssumption`: the order
  of the approvals is a list, a date is a number or `NoDate`, and the days an approval's owner
  was away are days its form names, which is all anybody can know of them.
  `RequestsAssumption`: a selection is a list of no more approvals than are ever listed
  (20 in `schemas/reimbursements.py`, 200 in `travel_approvals.py`).
* `NothingIsOverlooked` says nothing of a list under way. `Listing` does: each approval that
  was agreed when the user asked and that the pages have `Passed` is listed. What is passed
  is a matter of ranks: the approval's template and range lie behind, or its rank among
  those of the range is at most the token. Decisions add approvals to a range and take none away, so a
  rank only grows (`PassedLater`): an approval can come to stand after the
  token again, where it is listed twice and the request refused, but not before it.
  `RangesOf` says the ranges of a window leave no moment out, by division with remainder.
* A selection is listed window by window and each list is thrown away; `Vouched` is what stays
  of it, that each pick was listed in its window. `Reading` says a detail is true once
  it is of a decided approval, `Locating` that the candidates are right for as long as
  a diagnosis looks around.
* `ItineraryCovers`: a trip of several legs lasts from the least start to the greatest end,
  whatever their order. `AccountedAsShown`: the option found for an approval's value is one the
  approver saw, whatever the keys.

### Only model-checked

* Liveness (`EndsOrAsks`, `CleanupEnds`, `YearArrives`, `OrphanGoes`): out of the
  prover's reach.
* `LocalChecksAgree` of the intake: it compares two computations over the same content
  (sums, sorting, the choice of receipts), so a proof is an induction over data.
* `EachHalfDayPaidOnce` of the subsidies: it compares a sum over sorted intervals with the
  size of a set, which is an induction over data as well.

The inductive invariants of `DraftContentProofs`, `AttendanceCalendarProofs`,
`SessionFilesProofs`, `OaTemplatesProofs` and `TravelApprovalsProofs` were model-checked on the
instances of the runs as well.

## Findings

* `OaSubmission_refused`. A recycle that DingTalk definitely refuses should put
  the row into `MANUAL_REVIEW` (`services/oa_reimbursement.py:2268`), but the
  upload is `CLEANUP_PENDING` by then and the cleanup trigger
  (`models/reimbursement.py:1138`) aborts that update. The row stays in
  `ORPHAN_CLEANUP` and is tried after every lease; nobody is asked. The unit
  test uses an in-memory state without the trigger.
* `DraftContent_overwrite`. The end of an ordinary recognition checks the
  revision in Python and then writes the draft's input by primary key. A save
  that commits in between is overwritten by what was there before it, at the
  revision just handed out for the save. The same lateness lets an attempt that was
  recovered as stale write over a reviewed draft or a confirmed purpose; the run
  `DraftContent` has these writes too, and shows that nothing else does the same.

## Known limits of what holds

Each of these was met while modelling. The runs state what holds without them.

* *Late writers.* Deleting a draft, or the sweep, between `mark_writing` and the
  writer thread's first `open` (`reimbursement_files.py:1286` against
  `reimbursement_quota.py:611` and `837`) finds nothing to remove and drops the
  row; the thread then creates an object that no row owns and no sweep looks
  for. Only the request's own cleanup waits for the thread. `Stored` leaves the
  objects of such threads out; without that TLC finds `DiskIsCharged` violated.
* *A notice of two administrators.* A deletion or save reads the rows before its
  transaction and compares only those it changes
  (`attendance_calendar.py:385`, `406`, `424`). A save by another administrator in
  between that changes only the adjacent year of the same notice is not noticed:
  the deletion leaves that year's days behind, or two versions of the notice stand
  side by side. These are the notices in `mixed`; without that exception
  TLC finds `WholeNotice` violated with two requests. For the same reason the
  revisions a page was shown protect only the years its save writes.
* *Late removals.* See `LateFailures` under `DraftFiles`.
* *Sources of a failed submission.* `docs/DINGTALK_OA_INTEGRATION_DESIGN.md:859` says
  that the draft's files of a safe `FAILED_FINAL` are purged when the draft's time is up.
  The code that does so (`reimbursement_submissions.py:2038`) follows uploads
  that refer to a draft's file, and every upload is created without
  (`reimbursement_quota.py:299`); the release of sources asks for `SUBMITTED`
  (`reimbursement_submissions.py:2132`), and a locked draft can neither be deleted nor
  expire. In the model such a draft is one for which `Submitted` never happens: its files
  stay, and with them what they take of the quota. `CleanupEnds` promises their end
  after `Submitted` only.
* *A renamed account.* A label that changes compatibly is followed by the catalog
  and by the drafts. An approval whose text was the old label resolves to nothing
  afterwards (`travel_approvals.py:709`), so a submission locked before the
  renaming fails in the worker's validation (`oa_reimbursement.py:654`) with
  `TRAVEL_APPROVAL_ACCOUNTING_CHANGED`, and the employee has to start again.
* *Between validation and creation* nothing is read again: an approval revoked in
  these moments is linked nevertheless. `CreatedFromLiveApprovals` says what does
  hold, that each was valid at some moment since the validation began.
* *After a new confirmation* a draft bound to the version before cannot be saved
  any more; a new one takes its place.
* *An inspection* of the templates reads the row after the forms, so two of them
  can store their observations in the wrong order, until the next refresh.

## Not modelled

* *Local release of the generated files*: their own copies go when they are linked,
  cleaned or out of time, by the same scan as the draft's sources. The remote states it
  waits for are in `OaSubmission`, which has no local ones.
* *Excel preview tickets*: signed, short-lived claims that nothing stores.
* *Job pools and OCR*: how a result, a timeout or a dead process meets the draft is
  in `DraftContent`; process slots and the recognition itself are left out.
* *Excel and PDF generation*, the parsing of holiday notices, amounts in words,
  descriptions, rounding: pure formatting of what the models hold as values.
* *Transport of the DingTalk client*: tokens, signatures, request bodies. Their
  outcome (an answer, a refusal, an unknown outcome) is what the models start from.
* *Sources of earlier snapshot versions*: read-only compatibility of
  `oa_reimbursement_payload.py`; the present version is modelled.
* *Departments and flags of sessions, configuration, readiness, deployment,
  migrations*: wiring; the schema the migrations lead to is what the models state.
* *The browser*: its stores may send anything at any time as far as the server's
  modules are concerned; what the page shows while answers come out of order is not
  stated.
