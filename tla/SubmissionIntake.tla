---------------------------- MODULE SubmissionIntake ----------------------------
(***************************************************************************)
(* From a draft to the approval of its reimbursement: one employee's       *)
(* draft, the travel approvals it links, its review, its submission and    *)
(* what the worker checks again before it creates the approval.            *)
(*                                                                         *)
(* The forms and the approvals live in DingTalk and change at any time.    *)
(* The catalog follows the live form as OaTemplates describes in detail;   *)
(* here it is one row that a compatible edit updates, that any other edit  *)
(* takes out of use and that a confirmation gives a new version.           *)
(***************************************************************************)
EXTENDS Snapshots

CONSTANTS
  Forms,        \* the editions of the forms, the first one confirmed
  Facts,        \* the states of the approvals: by edition and by approval
  Contents,     \* what the employee may save: an input with the files there are
  Picks,        \* sequences of approvals to link
  Here, Others, \* the department chosen, and the employee's other ones
  Owner,
  MaxEdits, MaxVersion, MaxRevision,
  MaxRequests   \* how many requests are under way at once

\* There is a form, a state of the approvals and something to save to begin with.
ASSUME EditionsAssumption == 1 \in DOMAIN Forms \cap DOMAIN Facts \cap DOMAIN Contents
ASSUME OptionsAssumption == \A form \in DOMAIN Forms : IsFiniteSet(Forms[form].accounts)
\* An approval's id is never what DingTalk shows in the place of one.
ASSUME PicksAssumption == \A pick \in Picks : pick \in Seq(Nat \ {Untitled})
ASSUME LimitsAssumption ==
  {MaxEdits, MaxRequests} \subseteq Nat /\ {MaxRevision, MaxVersion} \subseteq Nat \ {0}

VARIABLES
  live,     \* the forms and the approvals as they are now, by edition
  catalog,  \* the confirmed catalog
  draft,
  update, select, submit,   \* the requests under way
  job       \* the submission, and what DingTalk showed since its validation began

vars == <<live, catalog, draft, update, select, submit, job>>

Undone == [at |-> "idle"]

Init ==
  /\ live = [form |-> 1, facts |-> 1, edits |-> 0]
  /\ catalog = [version |-> 1, form |-> 1, ok |-> TRUE]
  /\ draft = [status |-> "none", revision |-> 0, version |-> 0, content |-> 1,
              related |-> <<>>, account |-> NoText, verified |-> FALSE]
  /\ update = Undone /\ select = Undone /\ submit = Undone /\ job = Undone

-----------------------------------------------------------------------------
(* DingTalk, and the catalog *)

\* Forms that are alike but for their options; the options of the mapped types are still there.
Compatible(old, new) ==
  /\ Forms[old].shape = Forms[new].shape /\ Forms[old].travel = Forms[new].travel
  /\ \A own \in DOMAIN Mapping : Cardinality(WithValue(Forms[new].types, Mapping[own])) = 1

Validating == job.at \in {"form", "travel", "listed", "details"}

EditForm(form) ==
  /\ live.edits < MaxEdits /\ form # live.form
  /\ live' = [live EXCEPT !.form = form, !.edits = @ + 1]
  /\ job' = IF Validating THEN [job EXCEPT !.forms = @ \cup {form}] ELSE job
  /\ UNCHANGED <<catalog, draft, update, select, submit>>

ChangeFacts(facts) ==
  /\ live.edits < MaxEdits /\ facts # live.facts
  /\ live' = [live EXCEPT !.facts = facts, !.edits = @ + 1]
  /\ job' = IF Validating THEN [job EXCEPT !.facts = @ \cup {facts}] ELSE job
  /\ UNCHANGED <<catalog, draft, update, select, submit>>

Follow(row, seen) ==
  IF Compatible(row.form, seen) THEN [row EXCEPT !.form = seen, !.ok = TRUE]
  ELSE [row EXCEPT !.ok = FALSE]

\* Somebody opens the application.
Refresh ==
  /\ catalog' = Follow(catalog, live.form)
  /\ UNCHANGED <<live, draft, update, select, submit, job>>

Confirm ==
  /\ catalog.version < MaxVersion
  /\ catalog' = [version |-> catalog.version + 1, form |-> live.form, ok |-> TRUE]
  /\ UNCHANGED <<live, draft, update, select, submit, job>>

-----------------------------------------------------------------------------
(* The draft *)

Room == Len(SelectSeq(<<update.at, select.at, submit.at>>, LAMBDA at : at # "idle")) < MaxRequests

Mutable == draft.status \in {"DRAFT", "REVIEW_READY"}
Bound(version) == catalog.ok /\ draft.version = version /\ catalog.version = version
Form == Forms[catalog.form]

\* The input as it is stored: with the evidence of the files.
Applied == [k \in DOMAIN Contents |-> ApplyEvidence(Contents[k].files, Contents[k].input)]

\* The contents a save accepts, and those a review finds complete.
Savable == {k \in DOMAIN Contents :
              OneDisposition(Contents[k].input) /\ References(Applied[k], Contents[k].files)}
Finished == {k \in DOMAIN Contents : Calculable(Applied[k]) /\ FilesReady(Applied[k], Contents[k].files)}

\* The draft open under the catalog's version is used again, an older one is left behind with
\* the requests for it.  Only one that is about to be locked can still be submitted: it is first.
\* A new draft has no file and names none.
Create(k) ==
  /\ Contents[k].files = <<>> /\ k \in Savable
  /\ catalog.ok /\ draft.status # "LOCKED" /\ submit.at # "lock"
  /\ ~(Mutable /\ draft.version = catalog.version)
  /\ draft' = [status |-> "DRAFT", revision |-> 1, version |-> catalog.version, content |-> k,
               related |-> <<>>, account |-> NoText, verified |-> FALSE]
  /\ update' = Undone /\ select' = Undone /\ submit' = Undone
  /\ UNCHANGED <<live, catalog, job>>

Changed(d) == [d EXCEPT !.revision = draft.revision + 1, !.status = "DRAFT"]

\* A save reads the draft and keeps the account that belongs to its approvals.
ReadUpdate(k) ==
  /\ Room /\ update.at = "idle" /\ Mutable /\ Bound(draft.version) /\ draft.revision < MaxRevision
  /\ k # draft.content /\ k \in Savable
  /\ LET account == IF draft.related # <<>> THEN draft.account ELSE NoText IN
     /\ account # NoText => WithValue(Form.accounts, account) # {}
     /\ update' = [at |-> "read", content |-> k, revision |-> draft.revision, account |-> account,
                   verified |-> draft.related # <<>> /\ draft.verified]
  /\ UNCHANGED <<live, catalog, draft, select, submit, job>>

Unchanged(revision) == Mutable /\ draft.revision = revision

\* Faulty variant: the save wins whatever happened since it read.
WriteUpdateAnyway ==
  /\ update.at = "read" /\ update' = Undone
  /\ draft' = IF Mutable
              THEN Changed([draft EXCEPT !.content = update.content, !.account = update.account,
                                         !.verified = update.verified])
              ELSE draft
  /\ UNCHANGED <<live, catalog, select, submit, job>>

WriteUpdate ==
  /\ update.at = "read" /\ update' = Undone
  /\ draft' = IF Unchanged(update.revision)
              THEN Changed([draft EXCEPT !.content = update.content, !.account = update.account,
                                         !.verified = update.verified])
              ELSE draft
  /\ UNCHANGED <<live, catalog, select, submit, job>>

-----------------------------------------------------------------------------
(* Linking approvals: each is read in DingTalk, under the catalog as it was at the start *)

StartSelect(pick) ==
  /\ Room /\ select.at = "idle" /\ Mutable /\ Bound(draft.version) /\ draft.revision < MaxRevision
  /\ select' = [at |-> IF pick = <<>> THEN "store" ELSE "check", pick |-> pick, rows |-> <<>>,
                revision |-> draft.revision, version |-> catalog.version, form |-> catalog.form]
  /\ UNCHANGED <<live, catalog, draft, update, submit, job>>

\* The options an approval's text can stand for.
Resolved(form, text) == {o \in Forms[form].accounts : text \in {o.value, o.label}}

Row(id, f, form) ==
  [id |-> id, version |-> select.version, start |-> f.start, end |-> f.end, own |-> f.own,
   department |-> f.department,
   account |-> (CHOOSE o \in Resolved(form, f.text) : TRUE).value]

\* One trip: one type, one department, one account.
Together(row, rows) ==
  \A i \in DOMAIN rows : /\ rows[i].own = row.own /\ rows[i].department = row.department
                         /\ rows[i].account = row.account

CheckPick ==
  /\ select.at = "check"
  /\ LET id == select.pick[Len(select.rows) + 1]
         f == Facts[live.facts][id]
     IN select' =
          IF /\ f.state = "agree" /\ f.own \in DOMAIN Mapping
             /\ Cardinality(Resolved(select.form, f.text)) = 1
             /\ Together(Row(id, f, select.form), select.rows)
          THEN [select EXCEPT !.rows = Append(@, Row(id, f, select.form)),
                              !.at = IF Len(select.rows) + 1 = Len(select.pick) THEN "store" ELSE "check"]
          ELSE Undone
  /\ UNCHANGED <<live, catalog, draft, update, submit, job>>

\* Faulty variant: the version alone stands for the catalog.
SameVersionBinding == catalog.ok /\ select.version = catalog.version

\* The catalog is the one the approvals were read under: its version and its whole schema.
SameBinding == catalog.ok /\ select.version = catalog.version /\ select.form = catalog.form

Account(rows) == IF rows = <<>> THEN NoText ELSE rows[1].account

StoreSelect ==
  /\ select.at = "store" /\ select' = Undone
  /\ draft' = IF /\ SameBinding /\ draft.version = catalog.version
                 /\ select.rows # <<>> => select.rows[1].department \notin Others
                 /\ Unchanged(select.revision)
              THEN Changed([draft EXCEPT !.related = select.rows, !.account = Account(select.rows),
                                         !.verified = select.rows # <<>>])
              ELSE draft
  /\ UNCHANGED <<live, catalog, update, submit, job>>

-----------------------------------------------------------------------------
(* Review and submission *)

\* What both demand of a draft.
Reviewable ==
  /\ Bound(draft.version) /\ draft.verified /\ draft.content \in Finished
  /\ WithValue(Form.accounts, draft.account) # {}
  /\ RelatedReady(draft.related, catalog.version, Form.types, Applied[draft.content])

Review ==
  /\ Mutable /\ draft.revision < MaxRevision /\ Reviewable
  /\ draft' = [draft EXCEPT !.status = "REVIEW_READY", !.revision = @ + 1]
  /\ UNCHANGED <<live, catalog, update, select, submit, job>>

\* The page sends the revision it shows; a draft that was submitted answers with its submission.
BeginSubmit ==
  /\ Room /\ submit.at = "idle" /\ job.at = "idle" /\ Mutable
  /\ submit' = [at |-> "look", revision |-> draft.revision, shown |-> draft, row |-> catalog]
  /\ UNCHANGED <<live, catalog, draft, update, select, job>>

\* The live form, as it is when DingTalk answers.
Look ==
  /\ submit.at = "look"
  /\ submit' = [at |-> "adopt", revision |-> submit.revision, shown |-> submit.shown,
                row |-> submit.row, seen |-> live.form]
  /\ UNCHANGED <<live, catalog, draft, update, select, job>>

\* The write is for the row that was read, or all begins again a few times.
Adopt ==
  /\ submit.at = "adopt"
  /\ IF catalog # submit.row
     THEN /\ submit' \in {Undone, [at |-> "look", revision |-> submit.revision,
                                   shown |-> submit.shown, row |-> catalog]}
          /\ UNCHANGED catalog
     ELSE /\ catalog' = Follow(catalog, submit.seen)
          /\ submit' = IF Compatible(catalog.form, submit.seen)
                       THEN [at |-> "collect", revision |-> submit.revision, shown |-> submit.shown]
                       ELSE Undone
  /\ UNCHANGED <<live, draft, update, select, job>>

Collectable(revision) ==
  /\ draft.status = "REVIEW_READY" /\ draft.revision = revision /\ Reviewable
  /\ RelatedSources(draft.related, catalog.version, Form.types, Applied[draft.content])
  /\ ApplyEvidence(Contents[draft.content].files, Applied[draft.content]) = Applied[draft.content]

\* What a snapshot is built of; see Snapshot.
Source ==
  [revision |-> draft.revision, version |-> draft.version, form |-> catalog.form,
   content |-> draft.content, related |-> draft.related, account |-> draft.account]

Snapshot(s) ==
  Build([revision |-> s.revision, version |-> s.version, related |-> s.related,
         account |-> s.account, files |-> Contents[s.content].files],
        Forms[s.form], Applied[s.content])

Collect ==
  /\ submit.at = "collect"
  /\ submit' = IF Collectable(submit.revision) /\ Sound(Snapshot(Source))
               THEN [at |-> "lock", revision |-> submit.revision, shown |-> submit.shown,
                     source |-> Source]
               ELSE Undone
  /\ UNCHANGED <<live, catalog, draft, update, select, job>>

\* Faulty variant: any reviewed draft is locked.
LocksReviewed == draft.status = "REVIEW_READY"

Locks == draft.status = "REVIEW_READY" /\ draft.revision = submit.revision

Queued(source, shown) ==
  [at |-> "queued", source |-> source, shown |-> shown, forms |-> {}, facts |-> {},
   seen |-> 0, left |-> {}, found |-> <<>>]

Lock ==
  /\ submit.at = "lock" /\ submit' = Undone
  /\ IF job.at = "idle" /\ Locks
     THEN /\ draft' = [draft EXCEPT !.status = "LOCKED", !.revision = @ + 1]
          /\ job' = Queued(submit.source, submit.shown)
     ELSE UNCHANGED <<draft, job>>
  /\ UNCHANGED <<live, catalog, update, select>>

-----------------------------------------------------------------------------
(* The worker *)

Failed == job' = [job EXCEPT !.at = "failed"]
Frozen == Forms[job.source.form]
LiveForm == Forms[live.form]

Validate ==
  /\ job.at = "queued"
  /\ job' = [job EXCEPT !.at = "form", !.forms = {live.form}, !.facts = {live.facts}]
  /\ UNCHANGED <<live, catalog, draft, update, select, submit>>

\* The reimbursement form; its options are used for all the approvals.
CheckForm ==
  /\ job.at = "form"
  /\ IF LiveForm.shape = Frozen.shape
     THEN job' = [job EXCEPT !.at = "travel", !.seen = live.form]
     ELSE Failed
  /\ UNCHANGED <<live, catalog, draft, update, select, submit>>

CheckTravelForm ==
  /\ job.at = "travel"
  /\ IF LiveForm.travel = Frozen.travel THEN job' = [job EXCEPT !.at = "listed"] ELSE Failed
  /\ UNCHANGED <<live, catalog, draft, update, select, submit>>

Linked == {job.source.related[i].id : i \in DOMAIN job.source.related}
RowOf(id) == CHOOSE r \in ToSet(job.source.related) : r.id = id

\* The list holds the approvals that have ended, whatever their result.
Listed == {id \in Linked : Facts[live.facts][id].state \in {"agree", "refuse"}}

CheckMembership ==
  /\ job.at = "listed"
  /\ IF Listed = Linked
     THEN job' = [job EXCEPT !.at = "details", !.left = Linked]
     ELSE Failed
  /\ UNCHANGED <<live, catalog, draft, update, select, submit>>

TypeStands(row, f) ==
  /\ f.own = row.own
  /\ Cardinality(WithValue(Forms[job.seen].types, Mapping[row.own])) = 1

\* Faulty variant: the account is looked up among the options the snapshot froze.
AccountStoodWhenFrozen(f) ==
  /\ Cardinality(Resolved(job.source.form, f.text)) = 1
  /\ \A o \in Resolved(job.source.form, f.text) : o.value = job.source.account

AccountStands(f) ==
  /\ Cardinality(Resolved(job.seen, f.text)) = 1
  /\ \A o \in Resolved(job.seen, f.text) : o.value = job.source.account

CheckApproval(id) ==
  /\ LET row == RowOf(id)
         f == Facts[live.facts][id]
     IN IF /\ f.state = "agree" /\ f.start = row.start /\ f.end = row.end
           /\ f.department = row.department /\ TypeStands(row, f) /\ AccountStands(f)
        THEN job' = [job EXCEPT !.left = @ \ {id},
                                !.at = IF job.left = {id} THEN "valid" ELSE "details"]
        ELSE Failed
  /\ UNCHANGED <<live, catalog, draft, update, select, submit>>

\* DingTalk did not answer: the stage is claimed again later.
Retry ==
  /\ Validating
  /\ job' = Queued(job.source, job.shown)
  /\ UNCHANGED <<live, catalog, draft, update, select, submit>>

CommandOf(j) == Command(Snapshot(j.source), Owner, Here)

CreateApproval ==
  /\ job.at = "valid"
  /\ job' = [job EXCEPT !.at = "created"]
  /\ UNCHANGED <<live, catalog, draft, update, select, submit>>

\* The approvals a person or the search may present: ours, and others like it.
Candidates(ours) ==
  {ours} \cup {[ours EXCEPT !.relatedApprovals = pick] : pick \in Picks \ {<<>>}}

ReadBack(ours, command, titles) ==
  /\ job' = [job EXCEPT !.at = IF Matches(ours, Shown(command, titles))
                               THEN "submitted" ELSE "refused",
                        !.found = command.relatedApprovals]
  /\ UNCHANGED <<live, catalog, draft, update, select, submit>>

Next ==
  \/ \E form \in DOMAIN Forms : EditForm(form)
  \/ \E facts \in DOMAIN Facts : ChangeFacts(facts)
  \/ Refresh \/ Confirm
  \/ \E k \in DOMAIN Contents : Create(k) \/ ReadUpdate(k)
  \/ WriteUpdate
  \/ \E pick \in Picks : StartSelect(pick)
  \/ CheckPick \/ StoreSelect
  \/ Review
  \/ BeginSubmit \/ Look \/ Adopt \/ Collect \/ Lock
  \/ Validate \/ CheckForm \/ CheckTravelForm \/ CheckMembership
  \/ job.at = "details" /\ \E id \in job.left : CheckApproval(id)
  \/ Retry \/ CreateApproval
  \/ /\ job.at = "created"
     /\ LET ours == CommandOf(job)
        IN \E command \in Candidates(ours), titles \in BOOLEAN : ReadBack(ours, command, titles)

Spec == Init /\ [][Next]_vars

-----------------------------------------------------------------------------
(* Properties *)

\* The draft is one its readers accept, and every request knows what it has read.
TypeOK ==
  /\ live.form \in DOMAIN Forms /\ live.facts \in DOMAIN Facts /\ live.edits \in 0..MaxEdits
  /\ catalog.version \in 1..MaxVersion /\ catalog.form \in DOMAIN Forms /\ catalog.ok \in BOOLEAN
  /\ draft.status \in {"none", "DRAFT", "REVIEW_READY", "LOCKED"}
  /\ draft.revision \in 0..(MaxRevision + 1) /\ draft.version \in 0..catalog.version
  /\ draft.content \in DOMAIN Contents /\ draft.verified \in BOOLEAN
  /\ draft.status = "LOCKED" <=> job.at # "idle"
  /\ draft.status # "none" =>
       Sources(Applied[draft.content]) \subseteq Active(Contents[draft.content].files)
  /\ job.at \in {"idle", "queued", "form", "travel", "listed", "details", "valid", "created",
                 "submitted", "refused", "failed"}

\* Whatever review and submission accept, every later reader of the snapshot accepts as well:
\* the checks of a draft (mark_reimbursement_draft_review_ready, collect_snapshot_source) and
\* those of a snapshot (_validate_snapshot_semantics) are written twice, and an employee could do
\* nothing about a snapshot that is refused.
LocalChecksAgree ==
  draft.status = "REVIEW_READY" /\ Collectable(draft.revision) => Sound(Snapshot(Source))

\* What is submitted is what the page showed when it was submitted, and what the locked draft
\* still holds, whatever other pages save, link or review in between (create_submission).
SubmittedAsReviewed ==
  job.at # "idle" =>
    LET s == job.source IN
    /\ job.shown.status = "REVIEW_READY"
    /\ \A d \in {job.shown, draft} : <<d.content, d.related, d.account, d.version>> =
                                     <<s.content, s.related, s.account, s.version>>
    /\ s.revision + 1 = draft.revision

\* The account is that of the approvals linked now: a save that read the draft before they were
\* replaced does not bring the old one back (update_reimbursement_draft, _store_related_approvals).
AccountBelongsToTheApprovals ==
  /\ draft.account = Account(draft.related)
  /\ draft.verified <=> draft.related # <<>>
  /\ \A i \in DOMAIN draft.related : draft.related[i].version = draft.version

\* The module's invariant: at every moment the draft's account is that of its approvals, and
\* a locked draft has its submission.
Inv == TypeOK /\ AccountBelongsToTheApprovals

\* Approvals are stored with the account they have under the options the catalog shows at that
\* moment, even when a compatible edit was adopted while they were read (CatalogBinding).
AccountingIsCurrent ==
  [][draft'.related # draft.related /\ draft'.related # <<>> =>
       \A i \in DOMAIN draft'.related :
         \E f \in DOMAIN Facts : LET fact == Facts[f][draft'.related[i].id] IN
           {o.value : o \in Resolved(catalog.form, fact.text)} = {draft'.account}]_vars

\* The approval of a reimbursement is created only if each linked approval was agreed to, for the
\* days and the department of the snapshot, and stood for its account under the form there was,
\* at some moment since the validation began (OaSubmissionWorker.validate).
CreatedFromLiveApprovals ==
  job.at \in {"valid", "created", "submitted", "refused"} =>
    \A r \in ToSet(job.source.related) :
      \E facts \in job.facts, form \in job.forms :
        LET f == Facts[facts][r.id] IN
        /\ f.state = "agree" /\ f.start = r.start /\ f.end = r.end /\ f.own = r.own
        /\ f.department = r.department
        /\ {o.value : o \in Resolved(form, f.text)} = {job.source.account}

\* The approval that is taken for the reimbursement's links the same approvals, and its own is
\* never taken for another, whether DingTalk shows a relation by ids or by titles
\* (strict_instance_matches_command).
FoundIsOurs ==
  job.at \in {"submitted", "refused"} =>
    (job.at = "submitted" <=>
       job.found = [i \in DOMAIN job.source.related |-> job.source.related[i].id])
=============================================================================
